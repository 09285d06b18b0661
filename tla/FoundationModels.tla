-------------------------- MODULE FoundationModels --------------------------
(***************************************************************************)
(* The on-device text model of the macOS app: the native helper process and *)
(* its client (foundation-models-client.cjs), the service that admits the   *)
(* requests of a document to it (foundation-models-service.cjs), and what   *)
(* Main adds: a new document waits for the drain of the one before, and     *)
(* Quit waits for the helper (main.cjs).                                    *)
(*                                                                         *)
(* A step is what the code does in one turn of the event loop.  An IPC      *)
(* request is a call made once.  A capabilities call is also the intent it  *)
(* brings (its preparationId) and the session its answer names; ids drawn   *)
(* at random are never met again.                                           *)
(***************************************************************************)
EXTENDS Naturals, FiniteSets

CONSTANTS
    Calls,        \* the IPC requests
    NoCall,
    Helpers,      \* bound: processes ever spawned
    NoHelper,
    MaxDocuments  \* bound: documents shown one after the other

ASSUME CallsAreDistinct == NoCall \notin Calls
ASSUME HelpersAreDistinct == NoHelper \notin Helpers
ASSUME DocumentsArePositive == MaxDocuments \in Nat \ {0}

VARIABLES
    call,        \* each call: kind, document, the intent or session it names
    revoked,     \* intents revoked, by document
    current,     \* of the service, by document: the intent in force
    session,     \* of the service, by document: the session in force
    clientOwner, \* of the service: the document that last used the client
    document,    \* the document shown
    live,        \* voiceDocument.live
    ready,       \* voiceDocument.foundationModelsReady
    pending,     \* of the client: the call in its one slot
    preparing,   \* of the client: the call whose launch is being resolved
    proc,        \* of the client: its helper
    stop,        \* of the client: stopping, and the helper it is to end
    fault,       \* of the client: an exit it cannot vouch for
    closed,      \* shutdown() was called on client and service
    quit,        \* before-quit
    helper,      \* each process: unborn, alive, gone, or lost when nobody asked it to go
    served       \* history: the intents whose requests a process was given

documents == <<revoked, current, session, clientOwner, document, live>>
client == <<pending, preparing, proc, stop, fault>>
world == <<helper, served>>
vars == <<call, documents, ready, client, closed, quit, world>>

Documents == 1..MaxDocuments
Unmade == [kind |-> "none", by |-> 0, with |-> NoCall, at |-> "idle"]
Idle == [at |-> "idle", of |-> NoHelper]

\* Calls and processes get their names as they appear; which one is next makes no
\* difference.
NextCall == CHOOSE c \in Calls : call[c] = Unmade
NextHelper == CHOOSE h \in Helpers : helper[h] = "unborn"

Init ==
    /\ call = [c \in Calls |-> Unmade]
    /\ revoked = {}
    /\ current = [d \in Documents |-> NoCall]
    /\ session = [d \in Documents |-> NoCall]
    /\ clientOwner = 0 /\ document = 1 /\ live = TRUE
    /\ ready = "clear"
    /\ pending = NoCall /\ preparing = NoCall /\ proc = NoHelper
    /\ stop = Idle /\ fault = FALSE
    /\ closed = FALSE /\ quit = "no"
    /\ helper = [h \in Helpers |-> "unborn"]
    /\ served = [h \in Helpers |-> {}]

Alive == {h \in Helpers : helper[h] = "alive"}
Stopping == stop.at # "idle"
\* The capabilities call that is, or is the session of, call c.
Intent(c, k) == IF k.kind = "capabilities" THEN c ELSE k.with
Go(c, phase) == call' = [call EXCEPT ![c].at = phase]
Made(c, kind, with, phase) ==
    /\ call[c] = Unmade /\ c = NextCall
    /\ call' = [call EXCEPT ![c] = [kind |-> kind, by |-> document, with |-> with, at |-> phase]]

(***************************************************************************)
(* The answer to a call, decided when its slot settles.  The slot and the   *)
(* service's active record begin and end together.                          *)
(***************************************************************************)
\* A slip: nothing is looked at again after the await.
StillWantedUnasked(c) == TRUE

\* check() of generate and the last lines of capabilities, on the new state.
StillWanted(c) ==
    LET d == call[c].by IN
    /\ ~closed' /\ live' /\ document' = d
    /\ IF call[c].kind = "capabilities"
         THEN current'[d] = c /\ <<d, c>> \notin revoked'
         ELSE session'[d] = call[c].with

\* A failed capabilities request is still an answer: there is no model.
Verdict(c, ok) ==
    IF ~StillWanted(c) THEN "failed"
    ELSE IF call[c].kind = "capabilities"
      THEN IF ok THEN "available" ELSE "unavailable"
      ELSE IF ok THEN "answered" ELSE "failed"

\* _settle, for the calls as they are after it.
Settled(ok) ==
    IF pending = NoCall THEN call ELSE [call EXCEPT ![pending].at = Verdict(pending, ok)]

\* stop(): the slot settles at once; a stop under way is joined.  The settled
\* slot is what the epoch fences: both are compared before a spawn or a write.
BeginStop ==
    /\ pending' = NoCall
    /\ stop' = IF Stopping THEN stop ELSE [at |-> "draining", of |-> proc]

(***************************************************************************)
(* request.                                                                *)
(***************************************************************************)
\* A helper that runs is written to at once.
Ask(c, k) ==
    /\ pending' = c
    /\ IF proc = NoHelper
         THEN /\ call' = [call EXCEPT ![c] = [k EXCEPT !.at = "resolving"]]
              /\ preparing' = c /\ UNCHANGED served
         ELSE /\ call' = [call EXCEPT ![c] = [k EXCEPT !.at = "asked"]]
              /\ served' = [served EXCEPT ![proc] = @ \cup {Intent(c, k)}]
              /\ UNCHANGED preparing

\* A slip: what happened during the check is not looked at.
UnwantedNever == FALSE

Unwanted == closed \/ fault \/ pending # preparing

\* The executable is checked, byte by byte; what happened meanwhile is looked at
\* again before the process is spawned and the request written to it.
Launched ==
    /\ preparing # NoCall /\ preparing' = NoCall
    /\ IF Unwanted
         THEN UNCHANGED <<call, proc, world>>
         ELSE \E h \in Helpers :
                /\ helper[h] = "unborn" /\ h = NextHelper
                /\ helper' = [helper EXCEPT ![h] = "alive"]
                /\ served' = [served EXCEPT ![h] = {Intent(preparing, call[preparing])}]
                /\ proc' = h /\ Go(preparing, "asked")
    /\ UNCHANGED <<documents, ready, pending, stop, fault, closed, quit>>

LaunchFails ==
    /\ preparing # NoCall /\ preparing' = NoCall
    /\ UNCHANGED <<documents, ready, proc, fault, closed, quit, world>>
    /\ IF pending = preparing
         THEN call' = Settled(FALSE) /\ BeginStop
         ELSE UNCHANGED <<call, pending, stop>>

Reply(ok) ==
    /\ proc # NoHelper /\ ~Stopping
    /\ pending # NoCall /\ call[pending].at = "asked"
    /\ pending' = NoCall
    /\ UNCHANGED <<documents, ready, preparing, proc, stop, fault, closed, quit, world>>
    /\ call' = Settled(ok)

Timeout(c) ==
    /\ pending = c
    /\ UNCHANGED <<documents, ready, preparing, proc, fault, closed, quit, world>>
    /\ call' = Settled(FALSE) /\ BeginStop

\* _break: a malformed reply, a flood of diagnostics, a failed write or start.
Break ==
    /\ proc # NoHelper /\ ~Stopping
    /\ UNCHANGED <<documents, ready, preparing, proc, fault, closed, quit, world>>
    /\ call' = Settled(FALSE) /\ BeginStop

Latched == fault \/ ~Stopping

\* The close event of a process, on request or out of the blue.
Close(h) ==
    /\ h \in Alive
    /\ helper' = [helper EXCEPT ![h] = IF Stopping THEN "gone" ELSE "lost"]
    /\ UNCHANGED <<documents, ready, preparing, stop, closed, quit, served>>
    /\ IF proc = h
         THEN /\ proc' = NoHelper /\ fault' = Latched
              /\ pending' = NoCall /\ call' = Settled(FALSE)
         ELSE UNCHANGED <<call, proc, fault, pending>>

(***************************************************************************)
(* The rest of stop(): the launch that was being resolved is awaited, then  *)
(* the helper is asked to quit, terminated and killed, with a timer each.   *)
(***************************************************************************)
\* Where a call that awaited the stop goes on.
Released(phase, ok) ==
    IF phase = "stopping" THEN IF ok THEN "stopped" ELSE "unconfirmed"
    ELSE IF phase = "waiting" THEN IF ok THEN "entering" ELSE "failed"
    ELSE phase

StopEnds(ok) ==
    /\ stop' = Idle
    /\ call' = [c \in Calls |-> [call[c] EXCEPT !.at = Released(@, ok)]]
    /\ ready' = IF ready # "draining" THEN ready ELSE IF ok THEN "clear" ELSE "failed"
    /\ quit' = IF quit # "signals" THEN quit ELSE IF ok THEN "closing" ELSE "no"
    /\ UNCHANGED <<documents, pending, preparing, proc, closed, world>>

\* A slip: stop() does not await the launch.
LaunchIsOverAnyway == TRUE

LaunchIsOver == preparing = NoCall

StopDrained ==
    /\ stop.at = "draining" /\ LaunchIsOver
    /\ UNCHANGED fault
    /\ IF stop.of = NoHelper
         THEN StopEnds(TRUE)
         ELSE /\ stop' = [stop EXCEPT !.at = "quit"]
              /\ UNCHANGED <<call, documents, ready, pending, preparing, proc, closed, quit, world>>

\* A slip: the signal is taken for the exit.
StopEscalatesTrusting ==
    /\ stop.at \in {"quit", "term"} /\ stop.of \in Alive
    /\ stop' = [stop EXCEPT !.at = IF @ = "quit" THEN "term" ELSE "kill"]
    /\ proc' = IF stop.at = "term" THEN NoHelper ELSE proc
    /\ UNCHANGED <<call, documents, ready, pending, preparing, fault, closed, quit, world>>

StopEscalates ==
    /\ stop.at \in {"quit", "term"} /\ stop.of \in Alive
    /\ stop' = [stop EXCEPT !.at = IF @ = "quit" THEN "term" ELSE "kill"]
    /\ UNCHANGED <<call, documents, ready, pending, preparing, proc, fault, closed, quit, world>>

StopConfirmed ==
    /\ stop.at \in {"quit", "term", "kill"} /\ stop.of \notin Alive
    /\ UNCHANGED fault
    /\ StopEnds(TRUE)

\* A slip: stop() waits for the exit without an end.
StopUnconfirmedNever == FALSE

StopUnconfirmed ==
    /\ stop.at = "kill" /\ stop.of \in Alive
    /\ fault' = TRUE
    /\ StopEnds(FALSE)

(***************************************************************************)
(* The requests of the page.                                               *)
(***************************************************************************)
\* The document of the call is that of its arrival, before the wait.
Capabilities(c) ==
    /\ Made(c, "capabilities", NoCall,
            CASE ready = "clear" -> "entering" [] ready = "draining" -> "waiting" [] OTHER -> "failed")
    /\ UNCHANGED <<documents, ready, client, closed, quit, world>>

\* FM_CLOSED, FM_CANCELLED, FM_BUSY.
Admissible(c) ==
    LET d == call[c].by IN
    /\ ~closed /\ live /\ d = document
    /\ <<d, c>> \notin revoked
    /\ pending = NoCall /\ ~Stopping
    /\ current[d] = NoCall \/ <<d, current[d]>> \in revoked

Enter(c) ==
    /\ call[c].at = "entering"
    /\ UNCHANGED <<revoked, document, live, ready, proc, stop, fault, closed, quit, helper>>
    /\ IF ~Admissible(c)
         THEN /\ Go(c, "failed")
              /\ UNCHANGED <<current, session, clientOwner, pending, preparing, served>>
         ELSE LET d == call[c].by IN
              /\ current' = [current EXCEPT ![d] = c]
              /\ session' = [session EXCEPT ![d] = c]
              /\ clientOwner' = d
              /\ IF fault
                   THEN Go(c, "unavailable") /\ UNCHANGED <<pending, preparing, served>>
                   ELSE Ask(c, call[c])

SessionHolds(s) ==
    /\ ~closed /\ live
    /\ session[document] = s
    /\ <<document, current[document]>> \notin revoked

\* With a session the page was told; one document's page knows no other's.
Generate(c, s) ==
    /\ call[c] = Unmade /\ c = NextCall
    /\ call[s].kind = "capabilities" /\ call[s].at = "available" /\ call[s].by = document
    /\ UNCHANGED <<documents, ready, proc, stop, fault, closed, quit, helper>>
    /\ IF SessionHolds(s) /\ pending = NoCall /\ ~fault /\ ~Stopping
         THEN Ask(c, [kind |-> "generate", by |-> document, with |-> s, at |-> "idle"])
         ELSE Made(c, "generate", s, "failed") /\ UNCHANGED <<pending, preparing, served>>

\* The calls that stopped the client for an intent, whose promise is kept.
StopsFor(d, i) ==
    {k \in Calls : /\ call[k].kind = "cancel" /\ call[k].by = d /\ call[k].with = i
                   /\ call[k].at \in {"stopping", "stopped", "unconfirmed"}}

\* Of an intent that may not have arrived yet.
Cancel(k, i) ==
    /\ call[k] = Unmade /\ k = NextCall /\ i # k
    /\ call[i] = Unmade \/ (call[i].kind = "capabilities" /\ call[i].by = document)
    /\ UNCHANGED <<current, clientOwner, document, live, ready, preparing, proc, fault, closed, quit, world>>
    /\ IF closed \/ ~live
         THEN Made(k, "cancel", i, "failed") /\ UNCHANGED <<revoked, session, pending, stop>>
         ELSE /\ revoked' = revoked \cup {<<document, i>>}
              /\ IF StopsFor(document, i) # {}
                   THEN /\ \E e \in StopsFor(document, i) : Made(k, "cancel", i, call[e].at)
                        /\ UNCHANGED <<session, pending, stop>>
                   ELSE IF current[document] # i
                     THEN Made(k, "cancel", i, "exited") /\ UNCHANGED <<session, pending, stop>>
                     ELSE /\ session' = [session EXCEPT ![document] = NoCall]
                          /\ BeginStop
                          /\ call' = [Settled(FALSE) EXCEPT ![k] =
                               [kind |-> "cancel", by |-> document, with |-> i, at |-> "stopping"]]

(***************************************************************************)
(* Documents and Quit.                                                     *)
(***************************************************************************)
UsesClient == clientOwner = document

\* A navigation begins, or the window is destroyed; either can come again.
CloseDocument ==
    /\ live' = FALSE
    /\ session' = [session EXCEPT ![document] = NoCall]
    /\ UNCHANGED <<revoked, current, clientOwner, document, preparing, proc, fault, closed, quit, world>>
    /\ IF UsesClient
         THEN /\ BeginStop /\ call' = Settled(FALSE)
              /\ ready' = IF ready = "failed" THEN "failed" ELSE "draining"
         ELSE UNCHANGED <<call, pending, stop, ready>>

\* The new document inherits foundationModelsReady.
OpenDocument ==
    /\ ~live /\ ~closed /\ document < MaxDocuments
    /\ document' = document + 1 /\ live' = TRUE
    /\ UNCHANGED <<call, revoked, current, session, clientOwner, ready, client, closed, quit, world>>

\* The guards of the service hold from here on, whoever asks.
Quit ==
    /\ quit = "no"
    /\ quit' = "signals" /\ closed' = TRUE
    /\ UNCHANGED <<documents, ready, preparing, proc, fault, world>>
    /\ BeginStop /\ call' = Settled(FALSE)

\* waitOwnedProcessClosure: of every process the client ever had.
QuitEnds ==
    /\ quit = "closing"
    /\ quit' = IF Alive = {} THEN "allowed" ELSE "no"
    /\ UNCHANGED <<call, documents, ready, client, closed, world>>

-----------------------------------------------------------------------------
ClientNext ==
    \/ Launched \/ LaunchFails
    \/ \E ok \in BOOLEAN : Reply(ok)
    \/ \E c \in Calls : Timeout(c)
    \/ Break
    \/ \E h \in Helpers : Close(h)
    \/ StopDrained \/ StopEscalates \/ StopConfirmed \/ StopUnconfirmed

PageNext ==
    \E c \in Calls :
      \/ Capabilities(c) \/ Enter(c)
      \/ \E i \in Calls : Generate(c, i) \/ Cancel(c, i)

Next == ClientNext \/ PageNext \/ CloseDocument \/ OpenDocument \/ Quit \/ QuitEnds

Spec == Init /\ [][Next]_vars

\* The checks of the executable end, timers fire, and the continuation of a
\* settled promise runs.  A helper owes nothing: it may never answer nor exit.
Fairness ==
    /\ WF_vars(Launched \/ LaunchFails \/ \E c \in Calls : Timeout(c) \/ Enter(c))
    /\ WF_vars(StopDrained \/ StopEscalates \/ StopConfirmed \/ StopUnconfirmed)
    /\ WF_vars(QuitEnds)

FairSpec == Spec /\ Fairness

-----------------------------------------------------------------------------
(***************************************************************************)
(* Properties.                                                             *)
(***************************************************************************)
Phases == {"idle", "waiting", "entering", "resolving", "asked", "stopping",
           "available", "unavailable", "answered", "failed", "stopped", "unconfirmed", "exited"}
CallType == [kind : {"none", "capabilities", "generate", "cancel"},
             by : 0..MaxDocuments, with : Calls \cup {NoCall}, at : Phases]

\* Types, and the slot: the call in it is on its way, and a launch that is still
\* wanted is that of the call in the slot (request, _settle).
TypeOK ==
    /\ call \in [Calls -> CallType]
    /\ revoked \subseteq Documents \X Calls
    /\ current \in [Documents -> Calls \cup {NoCall}]
    /\ session \in [Documents -> Calls \cup {NoCall}]
    /\ clientOwner \in 0..MaxDocuments /\ document \in Documents /\ live \in BOOLEAN
    /\ ready \in {"clear", "draining", "failed"}
    /\ pending \in Calls \cup {NoCall} /\ preparing \in Calls \cup {NoCall}
    /\ proc \in Helpers \cup {NoHelper}
    /\ stop \in [at : {"idle", "draining", "quit", "term", "kill"}, of : Helpers \cup {NoHelper}]
    /\ fault \in BOOLEAN /\ closed \in BOOLEAN
    /\ quit \in {"no", "signals", "closing", "allowed"}
    /\ helper \in [Helpers -> {"unborn", "alive", "gone", "lost"}]
    /\ served \in [Helpers -> SUBSET (Calls \cup {NoCall})]
    /\ pending # NoCall => call[pending].at \in {"resolving", "asked"}

\* The client never has two helpers, nor one it has lost sight of: a process that
\* runs is the client's, whatever was cancelled, stopped or launched meanwhile.
OneHelper == Alive \subseteq {proc}

\* A process works for one intent: nothing said in a conversation that was
\* stopped, or in a document that was left, is in a process that answers another
\* (closeOwner, cancel, FM_BUSY of capabilities).
OneIntent == \A h \in Helpers : \A i, j \in served[h] : i = j

\* Stop tells the page, and lets the next document in, only when no process runs
\* and none is about to: "helper-exited" is the exit, not the request for it.
StopIsTrue ==
    [][\/ ready = "draining" /\ ready' = "clear"
       \/ \E k \in Calls : call[k].at = "stopping" /\ call'[k].at = "stopped"
       => Alive' = {} /\ preparing' = NoCall]_vars

\* A page gets no answer, not even that there is no model, for an intent it has
\* revoked or after its document was closed (StillWanted).
AnswersAreWanted ==
    [][\A c \in Calls :
         call'[c].at # call[c].at /\ call'[c].at \in {"available", "unavailable", "answered"}
         => /\ live' /\ ~closed' /\ call'[c].by = document'
            /\ <<document', Intent(c, call'[c])>> \notin revoked']_vars

\* After a process was lost no other is started: nobody knows what it left behind
\* (fault, set by the close event and looked at before and after the launch).
NoSecondStart ==
    [][(\E h \in Helpers : helper[h] = "lost")
       => \A h \in Helpers : helper[h] = "unborn" => helper'[h] = "unborn"]_vars

\* Quit that has heard from every stop meets no process that still runs: it is
\* never prevented by a helper spawned behind its back.
QuitIsClean == quit \in {"closing", "allowed"} => Alive = {} /\ preparing = NoCall

\* Every call of the page is answered, by a model that hangs, by a helper that
\* does not exit and across a change of document too.
InFlight(c) == call[c].at \in {"waiting", "entering", "resolving", "asked", "stopping"}
EveryCallSettles == \A c \in Calls : InFlight(c) ~> ~InFlight(c)
=============================================================================
