---------------------------- MODULE VoiceLedger ----------------------------
(***************************************************************************)
(* The voice operations of the desktop app: the ledger of Main             *)
(* (voice-operation-ledger.cjs), the task that admitVoiceOperation runs    *)
(* for each accepted voice:stt or voice:tts request (main.cjs), and the    *)
(* operation handles of the speech client it drives (sidecar-client.cjs,   *)
(* createOperation to _notifyOperations).                                  *)
(*                                                                         *)
(* An operation is a request id of one document.  A JavaScript turn is one *)
(* step: a native transition reaches the ledger, which may fence the whole *)
(* domain and answer every open request, before anything else runs.        *)
(***************************************************************************)
EXTENDS Naturals, FiniteSets

CONSTANTS
    Ops,            \* <<document, request id>> pairs a renderer may name
    OwnerOf,        \* the document of each operation
    Owners,         \* documents: a navigation replaces one by the next
    Stt,            \* the operations that are voice:stt (they own an input file)
    Windows,        \* process.platform = "win32"
    MaxIds,         \* 4096: ids remembered, over all documents
    MaxOwnerIds,    \* 1024: ids remembered for one document
    MaxActive,      \* 128: full records
    MaxOwnerActive, \* 32: full records of one document
    MaxStops,       \* bound: stops under way when StopClient begins another
    Scope           \* bound: the disturbances an instance considers, of
                    \* "revoke", "close", "quit", "stop", "exit", "handles"

ASSUME OperationsHaveOwners == OwnerOf \in [Ops -> Owners] /\ Stt \subseteq Ops
ASSUME LimitsAreNatural ==
    {MaxIds, MaxOwnerIds, MaxActive, MaxOwnerActive, MaxStops} \subseteq Nat

VARIABLES
    hist,       \* ledger.owners: "unknown", "known" (a record), "retired" (null)
    rec,        \* the record of each operation and the reply it delivered
    fault,      \* ledger.fault, "none" for null
    native,     \* operation.status of the speech client
    used,       \* operation.used: request() was called on it
    wrong,      \* operations the runtime answered with success: false
    denied,     \* operation.denied
    current,    \* operations bound to client.startIntent
    lost,       \* groups of operations whose intent ended without a verdict
    stops,      \* stop barriers in progress: the operations and what may come
    blocked,    \* the last termination was not confirmed
    pc,         \* where the task of each operation is
    files,      \* its input file: "none", "held", "stuck" (rm failed), "removed"
    cancelled,  \* operations with a record.cancellation
    refused,    \* those whose cancellation was rejected outright
    timedOut,   \* record.requestTimedOut
    drain,      \* record.finalDrain: "none", "waiting", "confirmed"
    doc,        \* voiceDocument
    docLive,    \* voiceDocument.live
    opened,     \* documents so far
    quit        \* where before-quit is

ledgerVars == <<hist, rec, fault>>
nativeVars == <<native, used, wrong, denied, current, lost, stops, blocked>>
taskVars == <<pc, files, cancelled, refused, timedOut>>
docVars == <<doc, docLive, opened>>
quitVars == <<drain, quit>>
vars == <<ledgerVars, nativeVars, taskVars, docVars, quitVars>>

Faults == {"quota-exceeded", "admission-closed", "termination-unconfirmed"}
Codes == Faults \cup {"backend-error", "cleanup-failed"}
Statuses == {"not-dispatched", "starting", "running", "completed", "stopping",
             "confirmed", "unconfirmed"}
Safe == {"not-dispatched", "completed", "confirmed"}
Places == {"idle", "mkdir", "writing", "requested", "joining", "held",
           "removing", "done", "catch", "catchjoin", "over"}

Fresh == [rev |-> 1, logical |-> "accepted", revoked |-> FALSE,
          status |-> "not-dispatched", cleanup |-> "pending",
          failure |-> "none", broken |-> FALSE, reply |-> "none"]

Records == [rev : Nat, logical : {"accepted", "preparing", "dispatched", "settled"},
            revoked : BOOLEAN, status : Statuses,
            cleanup : {"pending", "retained", "released"},
            failure : Codes \cup {"none"}, broken : BOOLEAN,
            reply : Codes \cup {"none", "result", "fallback"}]

TypeOK ==
    /\ hist \in [Ops -> {"unknown", "known", "retired"}]
    /\ rec \in [Ops -> Records]
    /\ fault \in Faults \cup {"none"}
    /\ native \in [Ops -> Statuses]
    /\ {used, wrong, denied, current} \subseteq SUBSET Ops
    /\ lost \subseteq SUBSET Ops
    /\ stops \subseteq [ops : SUBSET Ops, fate : {"open", "ok", "fail"}]
    /\ blocked \in BOOLEAN
    /\ pc \in [Ops -> Places]
    /\ files \in [Ops -> {"none", "held", "stuck", "removed"}]
    /\ cancelled \subseteq Ops /\ refused \subseteq cancelled
    /\ timedOut \subseteq Ops
    /\ drain \in [Ops -> {"none", "waiting", "confirmed"}]
    /\ doc \in Owners /\ docLive \in BOOLEAN /\ opened \subseteq Owners
    /\ quit \in {"no", "stopping", "settling", "draining", "failed", "done"}

Init ==
    /\ hist = [o \in Ops |-> "unknown"]
    /\ rec = [o \in Ops |-> Fresh]
    /\ fault = "none"
    /\ native = [o \in Ops |-> "not-dispatched"]
    /\ used = {} /\ wrong = {} /\ denied = {} /\ current = {}
    /\ lost = {} /\ stops = {} /\ blocked = FALSE
    /\ pc = [o \in Ops |-> "idle"]
    /\ files = [o \in Ops |-> "none"]
    /\ cancelled = {} /\ refused = {} /\ timedOut = {}
    /\ drain = [o \in Ops |-> "none"]
    /\ doc \in Owners /\ docLive = TRUE /\ opened = {doc}
    /\ quit = "no"

---------------------------------------------------------------------------
(* The record of an operation.                                             *)

\* What normalize() accepts of a known state (bound once, or TLC evaluates it
\* anew for every field).
Valid(state) == \E s \in {state} :
    /\ s.failure # "none" => s.logical = "settled"
    /\ s.status = "completed" => s.logical = "settled"
    /\ s.logical = "accepted" => s.status = "not-dispatched"
    /\ s.logical = "preparing" => s.status # "running"
    /\ s.logical = "dispatched" => s.status \notin {"not-dispatched", "starting"}
    /\ s.logical = "settled" => s.status # "starting"
    /\ s.status = "unconfirmed" <=> s.failure = "termination-unconfirmed"
    /\ s.failure = "cleanup-failed" => s.cleanup = "retained"
    /\ s.cleanup = "retained" => \/ s.status \in {"stopping", "unconfirmed"}
                                 \/ s.failure = "cleanup-failed"
    /\ s.cleanup = "released" => s.logical = "settled" /\ s.status \in Safe

\* A slip of change(): the revision stays.
ChangedSilently(r, t) == IF Valid(t) THEN t ELSE [r EXCEPT !.broken = TRUE]

\* change(): a new revision for a new state; a state the contract refuses is a
\* producer failure.
Changed(r, t) ==
    IF ~Valid(t) THEN [r EXCEPT !.broken = TRUE]
    ELSE IF t = r THEN r
    ELSE [t EXCEPT !.rev = r.rev + 1]

\* A slip of receipt(): a late running receipt revives a settled operation.
MappedLate(r, n) ==
    [r EXCEPT
       !.status = n,
       !.logical = IF n \in {"completed", "confirmed", "unconfirmed"} THEN "settled"
                   ELSE IF n \in {"running", "stopping"} THEN "dispatched"
                   ELSE IF n = "starting" THEN "preparing"
                   ELSE @,
       !.cleanup = IF n = "unconfirmed" THEN "retained" ELSE @,
       !.failure = IF n = "unconfirmed" THEN "termination-unconfirmed" ELSE @]

\* receipt(): what a native status says about the operation.
Mapped(r, n) ==
    [r EXCEPT
       !.status = n,
       !.logical = IF n \in {"completed", "confirmed", "unconfirmed"} THEN "settled"
                   ELSE IF n = "running" /\ @ # "settled" THEN "dispatched"
                   ELSE IF n = "starting" THEN "preparing"
                   ELSE @,
       !.cleanup = IF n = "unconfirmed" THEN "retained" ELSE @,
       !.failure = IF n = "unconfirmed" THEN "termination-unconfirmed" ELSE @]

\* producer(): a record whose producer failed keeps its last valid state.
Produced(r, n) == IF r.broken THEN r ELSE Changed(r, Mapped(r, n))

\* settle(): the first answer is the only one.
Answered(r, a) == IF r.reply = "none" THEN [r EXCEPT !.reply = a] ELSE r

\* The failure code that finish() selects.
Code(o, r, f, ok) ==
    IF r.status = "unconfirmed" THEN "termination-unconfirmed"
    ELSE IF files[o] = "stuck" THEN "cleanup-failed"
    ELSE IF r.failure # "none" THEN r.failure
    ELSE IF f = "termination-unconfirmed" THEN "admission-closed"
    ELSE IF f # "none" THEN f
    ELSE IF r.revoked \/ ~ok THEN "admission-closed"
    ELSE "backend-error"

\* producerFailureReply()
BrokenCode(n, f) ==
    IF n = "unconfirmed" THEN "termination-unconfirmed"
    ELSE IF f = "quota-exceeded" THEN f ELSE "admission-closed"

\* A slip of finish(): an error is proof enough that nothing runs any more.
ProvedByError(o, r, n, f, ok) == ok /\ f = "none" /\ ~r.revoked

\* The renderer may run the request elsewhere: the runtime itself answered with
\* an error, or the request timed out and its process is confirmed gone; the
\* operation is still allowed and everything it held is released.
Proved(o, r, n, f, ok) ==
    /\ \/ n = "completed" /\ o \in wrong
       \/ n = "confirmed" /\ o \in timedOut
    /\ ok /\ f = "none" /\ ~r.revoked
    /\ r.cleanup = "released"

\* finish(): settle, then build the reply from the settled state.
Finished(o, r, n, failed, released, f, ok) ==
    LET code == Code(o, r, f, ok)
        t == [r EXCEPT !.logical = "settled",
                       !.cleanup = IF code = "cleanup-failed" THEN "retained"
                                   ELSE IF released /\ r.status \in Safe
                                     THEN "released" ELSE @,
                       !.failure = IF failed THEN code ELSE @]
        u == Changed(r, t)
    IN IF r.broken THEN Answered(r, BrokenCode(n, f))
       ELSE IF failed /\ r.status = "starting" THEN Answered(r, code)
       ELSE IF u.broken THEN Answered(u, BrokenCode(n, f))
       ELSE Answered(u, IF ~failed THEN "result"
                        ELSE IF code = "backend-error" /\ Proved(o, u, n, f, ok)
                          THEN "fallback" ELSE code)

\* failReply(): sample the native receipt, then fail without releasing.
FailReplied(o, r, n, f, ok) == Finished(o, Produced(r, n), n, TRUE, FALSE, f, ok)

\* record.isAllowed()
IsAllowed(o) == OwnerOf[o] = doc /\ docLive /\ quit = "no"

\* A slip of allowed(): the fault of the domain is not consulted.
AllowedDespiteFault(o) ==
    hist[o] = "known" /\ ~rec[o].revoked /\ IsAllowed(o)

\* ledger.allowed(record)
Allowed(o) ==
    /\ hist[o] = "known" /\ fault = "none"
    /\ ~rec[o].revoked /\ IsAllowed(o)

---------------------------------------------------------------------------
(* One turn of the ledger.                                                 *)

\* A slip of notifyFailure(): nobody is told of the fault.
NotifiedNobody(R, N, f) == R

\* notifyFailure(), when there is a fault: every open request is answered.
Notified(R, N, f) ==
    [o \in Ops |->
        IF f # "none" /\ hist[o] = "known" /\ R[o].reply = "none"
          THEN FailReplied(o, R[o], N[o], f, IsAllowed(o)')
          ELSE R[o]]

\* The fault after the receipts of C reached their records R; the first stays.
FaultAfter(f, R, C, N) ==
    IF f # "none" THEN f
    ELSE IF \E o \in C : hist[o] = "known" /\ ~rec[o].broken /\ N[o] = "unconfirmed"
      THEN "termination-unconfirmed"
    ELSE IF \E o \in Ops : R[o].broken THEN "admission-closed"
    ELSE "none"

\* One turn.  R and f are the records and the fault that the handler has set
\* itself, N the native state it notifies with; then the listeners of the
\* operations C hear their next native state, the operations A are failed, and
\* a cancellation may prove refused (`broke').
React(R, f, N, C, A, broke) ==
    \E R1 \in {Notified(R, N, f)} :
    \E R2 \in {[o \in Ops |-> IF o \in C /\ hist[o] = "known"
                                THEN Produced(R1[o], native'[o]) ELSE R1[o]]} :
    \E f2 \in {FaultAfter(f, R2, C, native')} :
    \E failed \in {{o \in A : R2[o].reply = "none"}} :
    \E R3 \in {[o \in Ops |-> IF o \in failed /\ hist[o] = "known"
                                THEN FailReplied(o, R2[o], native'[o], f2, IsAllowed(o)')
                                ELSE R2[o]]} :
        /\ fault' = IF f2 = "none" /\ broke THEN "termination-unconfirmed"
                    ELSE FaultAfter(f2, R3, failed, native')
        /\ rec' = Notified(R3, native', fault')

\* The listeners of C, and nothing else, in this turn.
Heard(C) == React(rec, fault, native, C, {}, FALSE)

\* A slip of finish(): a record goes though its input file could not be removed.
RetiresUnreleased(o, r) == r.status \in Safe /\ ~r.broken

\* finish() reclaims the slot of a record that has released everything.
Retires(o, r) == r.cleanup = "released" /\ r.status \in Safe /\ ~r.broken

\* The last turn of the task of o: producer(), then finish().
EndTask(o, failed) ==
    \E R2 \in {[rec EXCEPT ![o] = IF hist[o] = "known" THEN Produced(@, native[o]) ELSE @]} :
    \E f2 \in {FaultAfter(fault, R2, {o}, native)} :
    \E r3 \in {IF hist[o] = "known"
                 THEN Finished(o, R2[o], native[o], failed,
                               ~failed \/ files[o] \in {"none", "removed"}, f2, IsAllowed(o))
                 ELSE R2[o]} :
        LET R3 == [R2 EXCEPT ![o] = r3]
        IN /\ fault' = FaultAfter(f2, R3, {}, native)
           /\ rec' = Notified(R3, native, fault')
           /\ hist' = [hist EXCEPT ![o] = IF Retires(o, r3) THEN "retired" ELSE @]
           /\ pc' = [pc EXCEPT ![o] = "over"]

---------------------------------------------------------------------------
(* Stops and cancellations of the speech client.                           *)

StopPending == \E s \in stops : s.fate = "open"

\* _stop(): how its barrier may end.  On Windows a failed termination is final;
\* behind an outstanding stop only the own preparation is drained.
Fate == IF Windows /\ blocked THEN "fail" ELSE IF StopPending THEN "ok" ELSE "open"

\* The operations that a stop of the current intent marks.
Affected == {o \in current : native[o] \in {"not-dispatched", "starting", "running"}}

\* _cancelOperation() reaches the operations S whose native work is not over.
\* The unused ones are confirmed at once, before (U) or after the shared stop.
Unused(S) == {o \in S \ (cancelled \cup used) :
                 native[o] \in {"not-dispatched", "stopping"}}
Working(S) == {o \in (S \cap used) \ cancelled : native[o] \in {"starting", "running"}}
LostGroups(S) == {G \in lost : G \cap Working(S) # {}}

\* The current intent is stopped for an operation of its own, or anyway (halt):
\* by client.stop(), by a request timer, by a legacy request.
StopsIntent(S, halt) == halt \/ Working(S) \cap current # {}

\* The intent of these is gone and nothing will ever confirm them.
RefusedOf(S) == Working(S) \ (current \cup UNION lost \cup UNION {s.ops : s \in stops})

\* Failed spawn or observed POSIX exit: the group drains its own startup only.
Drains(S) == {[ops |-> {o \in G : native[o] \notin {"completed", "confirmed"}},
               fate |-> "ok"] : G \in LostGroups(S)}

\* What one turn of cancellations and stops does: _cancelOperation() of every
\* operation of S, and _stop() of the current intent.
CancelEffect(S, U, halt) ==
    LET drained == Working(S) \cap UNION lost
        stops1 == StopsIntent(S, halt)
        stopped == IF stops1 THEN Affected \ U ELSE {}
    IN /\ U \subseteq Unused(S)
       /\ native' = [o \in Ops |->
                        IF o \in Unused(S) THEN "confirmed"
                        ELSE IF o \in drained \cup stopped THEN "stopping"
                        ELSE native[o]]
       /\ denied' = denied \cup stopped \cup
                    {o \in S \ cancelled : native[o] # "unconfirmed"}
       /\ lost' = lost \ LostGroups(S)
       /\ stops' = stops \cup Drains(S) \cup
                   (IF stops1 THEN {[ops |-> stopped, fate |-> Fate]} ELSE {})
       /\ current' = IF stops1 THEN {} ELSE current
       /\ refused' = refused \cup RefusedOf(S)
       /\ cancelled' = cancelled \cup {o \in S : native[o] # "unconfirmed"}

\* Cancelled before their request: the client has let go of their listeners, and what
\* a stop that had marked them comes to reaches the ledger when it samples them.
Withdrawn == cancelled \ used

\* The operations whose native state that may change.
Touched(S, halt) ==
    Unused(S) \cup Working(S) \cup (IF StopsIntent(S, halt) THEN Affected ELSE {})

\* ... and what their listeners do, the operations A being failed as well.
Cancelling(S, U, halt, R, A) ==
    /\ CancelEffect(S, U, halt)
    /\ React(R, fault, native, Touched(S, halt), A, RefusedOf(S) # {})

\* A slip of _cancelOperation(): a refused cancellation never settles.
JoinsUnrefused(o) == o \in used /\ native[o] = "unconfirmed"

\* The promise of a cancellation is settled, and how.
JoinOk(o) == native[o] \in {"completed", "confirmed"} \/ o \notin used
JoinFails(o) == o \in refused \/ (o \in used /\ native[o] = "unconfirmed")

\* operation.request(): refused at once when the handle was denied, otherwise
\* _checkOperation() runs before anything is spawned.
Permitted(o) == Allowed(o) /\ o \in current /\ o \notin denied /\ ~blocked

RequestEffect(o) ==
    /\ native' = [native EXCEPT ![o] = IF o \in denied THEN @ ELSE "starting"]
    /\ used' = IF o \in denied THEN used ELSE used \cup {o}
    /\ denied' = IF Permitted(o) THEN denied ELSE denied \cup {o}

At(o, place) == pc[o] = place
Goes(o, place) == pc' = [pc EXCEPT ![o] = place]

---------------------------------------------------------------------------
(* Admission.                                                              *)

Remembered == {o \in Ops : hist[o] # "unknown"}
Known == {o \in Ops : hist[o] = "known"}
OfOwner(S, w) == {o \in S : OwnerOf[o] = w}

\* capacity(): the tombstones of retired ids count as ids, not as records.
Capacity(w, added, full) ==
    /\ Cardinality(Remembered) + added <= MaxIds
    /\ Cardinality(OfOwner(Remembered, w)) + added <= MaxOwnerIds
    /\ full => /\ Cardinality(Known) < MaxActive
               /\ Cardinality(OfOwner(Known, w)) < MaxOwnerActive

\* A slip of admit(): neither the fault nor the end of the document counts.
MayAdmitLate(o) == OwnerOf[o] = doc /\ hist[o] = "unknown"

\* What the IPC handler and admit() check before anything else.
MayAdmit(o) ==
    /\ OwnerOf[o] = doc /\ docLive /\ quit = "no"
    /\ hist[o] = "unknown" /\ fault = "none"

\* A full ledger closes admission and answers everybody.
AdmitOverflow(o) ==
    /\ MayAdmit(o) /\ ~Capacity(doc, 1, TRUE)
    /\ UNCHANGED <<hist, nativeVars, taskVars, docVars, quitVars>>
    /\ fault' = "quota-exceeded"
    /\ rec' = Notified(rec, native, "quota-exceeded")

\* createOperation() throws: 128 handles exist, those of legacy requests counted.
AdmitNoHandle(o) ==
    /\ "handles" \in Scope /\ MayAdmit(o) /\ Capacity(doc, 1, TRUE)
    /\ UNCHANGED <<nativeVars, taskVars, docVars, quitVars>>
    /\ hist' = [hist EXCEPT ![o] = "retired"]
    /\ fault' = "quota-exceeded"
    /\ rec' = Notified(rec, native, "quota-exceeded")

\* The request is accepted and its task runs up to its first await: the mkdir of
\* voice:stt, the native request of voice:tts, or a validation that throws.
Admit(o, valid) ==
    LET ready == Changed(Fresh, [Fresh EXCEPT !.logical = "preparing"])
        requests == valid /\ o \notin Stt
        permitted == ~blocked
    IN /\ MayAdmit(o) /\ Capacity(doc, 1, TRUE)
       /\ hist' = [hist EXCEPT ![o] = "known"]
       /\ current' = current \cup {o}
       /\ IF requests
            THEN /\ native' = [native EXCEPT ![o] = "starting"]
                 /\ used' = used \cup {o}
                 /\ denied' = IF permitted THEN denied ELSE denied \cup {o}
                 /\ rec' = [rec EXCEPT ![o] = Produced(ready, "starting")]
            ELSE /\ rec' = [rec EXCEPT ![o] = ready]
                 /\ UNCHANGED <<native, used, denied>>
       /\ Goes(o, IF ~valid THEN "catch" ELSE IF o \in Stt THEN "mkdir" ELSE "requested")
       /\ UNCHANGED <<fault, wrong, lost, stops, blocked,
                      files, cancelled, refused, timedOut, docVars, quitVars>>

---------------------------------------------------------------------------
(* The task of an operation (admitVoiceOperation around voice:stt, voice:tts).*)

\* mkdir is over; from here the input file is the task's to remove.
DirectoryReady(o) ==
    /\ At(o, "mkdir") /\ Allowed(o)
    /\ files' = [files EXCEPT ![o] = "held"]
    /\ Goes(o, "writing")
    /\ UNCHANGED <<ledgerVars, nativeVars, cancelled, refused, timedOut, docVars, quitVars>>

\* mkdir fails, or the operation is no longer allowed.
DirectoryFails(o) ==
    /\ At(o, "mkdir") /\ Goes(o, "catch")
    /\ UNCHANGED <<ledgerVars, nativeVars, files, cancelled, refused, timedOut,
                   docVars, quitVars>>

\* The input is written and the operation still allowed.
Submit(o) ==
    /\ At(o, "writing") /\ Allowed(o)
    /\ UNCHANGED <<docVars, quitVars>>
    /\ RequestEffect(o)
    /\ Heard({o})
    /\ Goes(o, "requested")
    /\ UNCHANGED <<hist, wrong, current, lost, stops, blocked,
                   files, cancelled, refused, timedOut>>

\* The finally of voice:stt when nothing was submitted: the write failed, or the
\* operation is no longer allowed.
WriteFails(o) ==
    /\ At(o, "writing")
    /\ UNCHANGED <<nativeVars, docVars, quitVars>>
    /\ Heard({o})
    /\ Goes(o, IF native[o] = "unconfirmed" THEN "held" ELSE "removing")
    /\ UNCHANGED <<hist, files, cancelled, refused, timedOut>>

\* The native request resolved, or rejected: by the runtime, by a stop, by its
\* timeout, or because it was never permitted.
Succeeded(o) == native[o] = "completed" /\ o \notin wrong

\* voice:tts has nothing to clean up.
TtsReturns(o) ==
    /\ At(o, "requested") /\ o \notin Stt
    /\ Goes(o, IF Succeeded(o) THEN "done" ELSE "catch")
    /\ UNCHANGED <<ledgerVars, nativeVars, files, cancelled, refused, timedOut,
                   docVars, quitVars>>

\* The finally of voice:stt when the native side is done with the input.
SttReturns(o) ==
    /\ At(o, "requested") /\ o \in Stt /\ native[o] = "completed"
    /\ UNCHANGED <<nativeVars, docVars, quitVars>>
    /\ Heard({o})
    /\ Goes(o, "removing")
    /\ UNCHANGED <<hist, files, cancelled, refused, timedOut>>

\* The finally of voice:stt when the end of the process is not confirmed.
SttHeld(o) ==
    /\ At(o, "requested") /\ o \in Stt /\ native[o] = "unconfirmed"
    /\ UNCHANGED <<nativeVars, docVars, quitVars>>
    /\ Heard({o})
    /\ Goes(o, "held")
    /\ UNCHANGED <<hist, files, cancelled, refused, timedOut>>

\* A slip of the finally of voice:stt: the input goes without joining the stop.
SttUnjoined(o, U) ==
    /\ At(o, "requested") /\ o \in Stt
    /\ native[o] \notin {"completed", "unconfirmed"} /\ U = {}
    /\ UNCHANGED <<nativeVars, docVars, quitVars>>
    /\ Heard({o})
    /\ Goes(o, "removing")
    /\ UNCHANGED <<hist, files, cancelled, refused, timedOut>>

\* The finally of voice:stt in every other case: cancel the operation and join.
SttJoins(o, U) ==
    /\ At(o, "requested") /\ o \in Stt
    /\ native[o] \notin {"completed", "unconfirmed"}
    /\ UNCHANGED <<docVars, quitVars>>
    /\ Cancelling({o}, U, FALSE, rec, {})
    /\ Goes(o, "joining")
    /\ UNCHANGED <<hist, used, wrong, blocked, files, timedOut>>

Joined(o) ==
    /\ At(o, "joining") /\ JoinOk(o)
    /\ UNCHANGED <<nativeVars, docVars, quitVars>>
    /\ Heard({o})
    /\ Goes(o, "removing")
    /\ UNCHANGED <<hist, files, cancelled, refused, timedOut>>

JoinedInVain(o) ==
    /\ At(o, "joining") /\ JoinFails(o)
    /\ UNCHANGED <<nativeVars, docVars, quitVars>>
    /\ Heard({o})
    /\ Goes(o, "held")
    /\ UNCHANGED <<hist, files, cancelled, refused, timedOut>>

\* waitForFinalStop(): only a later public stop releases the input.
FinalStopSeen(o) ==
    /\ At(o, "held") /\ drain[o] = "confirmed"
    /\ UNCHANGED <<nativeVars, docVars, quitVars>>
    /\ Heard({o})
    /\ Goes(o, "removing")
    /\ UNCHANGED <<hist, files, cancelled, refused, timedOut>>

RemoveInput(o) ==
    /\ At(o, "removing")
    /\ files' = [files EXCEPT ![o] = "removed"]
    /\ Goes(o, IF Succeeded(o) THEN "done" ELSE "catch")
    /\ UNCHANGED <<ledgerVars, nativeVars, cancelled, refused, timedOut, docVars, quitVars>>

\* rm throws, and its error replaces that of the request.
RemoveInputFails(o) ==
    /\ At(o, "removing")
    /\ files' = [files EXCEPT ![o] = "stuck"]
    /\ timedOut' = timedOut \ {o}
    /\ Goes(o, "catch")
    /\ UNCHANGED <<ledgerVars, nativeVars, cancelled, refused, docVars, quitVars>>

\* The work returned and the operation is still allowed: deliver its result.
Deliver(o) ==
    /\ At(o, "done") /\ Allowed(o)
    /\ UNCHANGED <<nativeVars, files, cancelled, refused, timedOut, docVars, quitVars>>
    /\ EndTask(o, FALSE)

\* The work returned, but meanwhile the operation lost its permission.
TooLate(o) ==
    /\ At(o, "done") /\ ~Allowed(o)
    /\ UNCHANGED <<nativeVars, docVars, quitVars>>
    /\ Heard({o})
    /\ Goes(o, "catch")
    /\ UNCHANGED <<hist, files, cancelled, refused, timedOut>>

\* The catch: cancel what is not over, ...
CatchCancels(o, U) ==
    /\ At(o, "catch") /\ native[o] \notin {"completed", "unconfirmed"}
    /\ UNCHANGED <<docVars, quitVars>>
    /\ Cancelling({o}, U, FALSE, rec, {})
    /\ Goes(o, "catchjoin")
    /\ UNCHANGED <<hist, used, wrong, blocked, files, timedOut>>

\* ... wait for it whatever its outcome, and fail.
GiveUp(o) ==
    /\ \/ At(o, "catch") /\ native[o] \in {"completed", "unconfirmed"}
       \/ At(o, "catchjoin") /\ (JoinOk(o) \/ JoinFails(o))
    /\ UNCHANGED <<nativeVars, files, cancelled, refused, timedOut, docVars, quitVars>>
    /\ EndTask(o, TRUE)

---------------------------------------------------------------------------
(* The native side.                                                        *)

\* The request goes to the ready process: _checkOperation() for the last time.
Dispatch(o) ==
    /\ At(o, "requested") /\ native[o] = "starting"
    /\ Permitted(o) /\ ~StopPending
    /\ UNCHANGED <<used, wrong, denied, current, lost, stops, blocked,
                   taskVars, docVars, quitVars>>
    /\ native' = [native EXCEPT ![o] = "running"]
    /\ Heard({o})
    /\ UNCHANGED hist

\* The answer of the runtime, a result or an error.
Complete(o, success) ==
    /\ At(o, "requested") /\ native[o] = "running" /\ o \in current
    /\ UNCHANGED <<used, denied, current, lost, stops, blocked,
                   taskVars, docVars, quitVars>>
    /\ native' = [native EXCEPT ![o] = "completed"]
    /\ wrong' = IF success THEN wrong ELSE wrong \cup {o}
    /\ Heard({o})
    /\ UNCHANGED hist

\* The request timer stops the whole client and its request rejects.
Timeout(o) ==
    /\ At(o, "requested") /\ native[o] = "running" /\ o \in current
    /\ UNCHANGED <<docVars, quitVars>>
    /\ timedOut' = timedOut \cup {o}
    /\ Cancelling({}, {}, TRUE, rec, {})
    /\ UNCHANGED <<hist, used, wrong, blocked, pc, files>>

\* The start timer, a legacy request, or a health probe stops the client.
StopClient ==
    /\ "stop" \in Scope /\ quit = "no" /\ Cardinality(stops) < MaxStops
    /\ StopPending => Affected # {}    \* otherwise it only joins that stop
    /\ UNCHANGED <<docVars, quitVars>>
    /\ Cancelling({}, {}, TRUE, rec, {})
    /\ UNCHANGED <<hist, used, wrong, blocked, pc, files, timedOut>>

\* trackReceipts(): the barrier of a stop resolved.
StopConfirmed(s) ==
    /\ s \in stops /\ s.fate # "fail"
    /\ UNCHANGED <<docVars, quitVars>>
    /\ native' = [o \in Ops |-> IF o \in s.ops THEN "confirmed" ELSE native[o]]
    /\ stops' = stops \ {s}
    /\ blocked' = (blocked /\ s.fate # "open")
    /\ Heard(s.ops \ Withdrawn)
    /\ UNCHANGED <<hist, used, wrong, denied, current, lost, taskVars>>

\* trackReceipts(): it rejected, for every operation the stop had marked, one that
\* was withdrawn since then included, though its listener is gone.  A legacy request
\* of the same intent may reach the fault before the ledger's own listeners do.  Starts
\* that waited for the stop reject with it.
StopUnconfirmed(s, legacy) ==
    /\ s \in stops /\ s.fate # "ok"
    /\ quit' = IF quit = "stopping" THEN "failed" ELSE quit
    /\ native' = [o \in Ops |-> IF o \in s.ops THEN "unconfirmed" ELSE native[o]]
    /\ stops' = stops \ {s}
    /\ blocked' = TRUE
    /\ UNCHANGED <<docVars, drain>>
    /\ LET f == IF fault = "none" /\ legacy THEN "termination-unconfirmed" ELSE fault
       IN React(rec, f, native', s.ops \ Withdrawn, {}, FALSE)
    /\ denied' = denied \cup {o \in current : native[o] = "starting"}
    /\ UNCHANGED <<hist, used, wrong, current, lost, taskVars>>

\* The process ends by itself, or could not be spawned (onError), and its end is
\* enough: on POSIX, or because there never was a process.
IntentLost ==
    /\ "exit" \in Scope
    /\ current # {} /\ ~StopPending /\ ~blocked
    /\ Windows => \A o \in current : native[o] \notin {"running", "completed"}
    /\ lost' = IF Affected = {} THEN lost ELSE lost \cup {Affected}
    /\ current' = {}
    /\ UNCHANGED <<ledgerVars, native, used, wrong, denied, stops, blocked,
                   taskVars, docVars, quitVars>>

\* On Windows the exit of the leader says nothing of its descendants: what used
\* it is unconfirmed, what did not is never confirmed by anybody.
WindowsExit ==
    /\ Windows /\ "exit" \in Scope /\ current # {} /\ ~StopPending /\ ~blocked
    /\ UNCHANGED <<docVars, quitVars>>
    /\ LET hit == Affected \cap used
       IN /\ native' = [o \in Ops |-> IF o \in hit THEN "unconfirmed" ELSE native[o]]
          /\ denied' = denied \cup hit
          /\ blocked' = (hit # {})
          /\ React(rec, fault, native', hit, {}, FALSE)
    /\ current' = {}
    /\ UNCHANGED <<hist, used, wrong, lost, stops, taskVars>>

\* The process whose termination was not confirmed in time does end.
LateExit ==
    /\ blocked /\ ~Windows /\ ~StopPending
    /\ blocked' = FALSE
    /\ UNCHANGED <<ledgerVars, native, used, wrong, denied, current, lost, stops,
                   taskVars, docVars, quitVars>>

---------------------------------------------------------------------------
(* Revocation, documents and Quit.                                         *)

\* Every member of a batch is marked before anything is called.
Marked(S) == [o \in Ops |-> IF o \in S /\ hist[o] = "known" /\ ~rec[o].revoked
                              THEN [rec[o] EXCEPT !.revoked = TRUE, !.rev = @ + 1]
                              ELSE rec[o]]

\* revoke(): cancel and fail the known operations S under the fault f.
RevokeEffect(S, U, halt, f) ==
    LET K == S \cap Known
    IN /\ CancelEffect(K, U, halt)
       /\ React(Marked(K), f, native, Touched(K, halt), K, RefusedOf(K) # {})

\* voice:operation-revoke: ids nobody has used become tombstones, so that a
\* request that arrives later cannot take them.
Revoke(S, U) ==
    LET unknown == {o \in S : hist[o] = "unknown"}
        overflow == ~Capacity(doc, Cardinality(unknown), FALSE)
    IN /\ "revoke" \in Scope /\ S # {} /\ \A o \in S : OwnerOf[o] = doc
       /\ UNCHANGED <<docVars, quitVars>>
       /\ RevokeEffect(S, U, FALSE, IF overflow THEN "quota-exceeded" ELSE fault)
       /\ hist' = [o \in Ops |-> IF o \in unknown /\ ~overflow THEN "retired" ELSE hist[o]]
       /\ UNCHANGED <<used, wrong, blocked, pc, files, timedOut>>

\* closeDocument: the document is dead before anything is called.
CloseDocument(U) ==
    /\ "close" \in Scope /\ docLive /\ docLive' = FALSE
    /\ UNCHANGED <<doc, opened, quitVars>>
    /\ RevokeEffect(OfOwner(Ops, doc), U, FALSE, fault)
    /\ UNCHANGED <<hist, used, wrong, blocked, pc, files, timedOut>>

\* The next document commits its navigation.
OpenDocument(w) ==
    /\ ~docLive /\ quit = "no" /\ w \notin opened
    /\ doc' = w /\ docLive' = TRUE /\ opened' = opened \cup {w}
    /\ UNCHANGED <<ledgerVars, nativeVars, taskVars, quitVars>>

\* before-quit, the first time or after a shutdown that failed: every operation
\* of every document is revoked and the public stop starts in the same turn.
Quit(U) ==
    /\ "quit" \in Scope /\ quit \in {"no", "failed"} /\ quit' = "stopping"
    /\ docLive' = FALSE
    /\ UNCHANGED <<doc, opened>>
    /\ drain' = [o \in Ops |-> IF hist[o] = "known" THEN "waiting" ELSE drain[o]]
    /\ RevokeEffect(Ops, U, TRUE, fault)
    /\ UNCHANGED <<hist, used, wrong, blocked, pc, files, timedOut>>

\* finalStop(): the barrier of the public stop resolved; the waiting inputs may go.
FinalStopOk ==
    /\ quit = "stopping" /\ quit' = "settling"
    /\ \A s \in stops : s.fate = "ok"
    /\ drain' = [o \in Ops |-> IF drain[o] = "waiting" THEN "confirmed" ELSE drain[o]]
    /\ UNCHANGED <<ledgerVars, nativeVars, taskVars, docVars>>

\* The cleanup behind the stop failed: Quit is prevented and may be tried again.
FinalStopFails ==
    /\ quit = "stopping" /\ quit' = "failed"
    /\ \A s \in stops : s.fate = "ok"
    /\ UNCHANGED <<ledgerVars, nativeVars, taskVars, docVars, drain>>

\* Promise.allSettled(ownedTasks)
TasksSettled ==
    /\ quit = "settling" /\ quit' = "draining"
    /\ \A o \in Ops : pc[o] \in {"idle", "over"}
    /\ UNCHANGED <<ledgerVars, nativeVars, taskVars, docVars, drain>>

\* drainFiles(), one record: its cleanup is retried and its slot reclaimed.
Drain(o) ==
    /\ quit = "draining" /\ hist[o] = "known" /\ drain[o] = "confirmed"
    /\ files' = [files EXCEPT ![o] = IF @ = "stuck" THEN "removed" ELSE @]
    /\ hist' = [hist EXCEPT ![o] = "retired"]
    /\ UNCHANGED <<rec, fault, nativeVars, pc, cancelled, refused, timedOut,
                   docVars, quitVars>>

DrainFails(o) ==
    /\ quit = "draining" /\ hist[o] = "known"
    /\ drain[o] = "confirmed" => files[o] = "stuck"
    /\ quit' = "failed"
    /\ UNCHANGED <<ledgerVars, nativeVars, taskVars, docVars, drain>>

Drained ==
    /\ quit = "draining" /\ Known = {} /\ quit' = "done"
    /\ UNCHANGED <<ledgerVars, nativeVars, taskVars, docVars, drain>>

\* The app is gone.
QuitDone == quit = "done" /\ UNCHANGED vars

---------------------------------------------------------------------------
\* The steps of the task of o once it is admitted.
TaskStep(o) ==
    \/ DirectoryReady(o) \/ DirectoryFails(o) \/ Submit(o) \/ WriteFails(o)
    \/ TtsReturns(o) \/ SttReturns(o) \/ SttHeld(o)
    \/ \E U \in SUBSET Unused({o}) : SttJoins(o, U) \/ CatchCancels(o, U)
    \/ Joined(o) \/ JoinedInVain(o) \/ FinalStopSeen(o)
    \/ RemoveInput(o) \/ RemoveInputFails(o)
    \/ Deliver(o) \/ TooLate(o) \/ GiveUp(o)

\* The end of one of the stops S.
Ends(S) == \E s \in S : StopConfirmed(s) \/ \E b \in BOOLEAN : StopUnconfirmed(s, b)

NativeStep ==
    \/ \E o \in Ops : Dispatch(o) \/ Timeout(o)
    \/ \E o \in Ops, b \in BOOLEAN : Complete(o, b)
    \/ StopClient \/ Ends(stops) \/ IntentLost \/ WindowsExit \/ LateExit

QuitStep ==
    \/ FinalStopOk \/ FinalStopFails \/ TasksSettled
    \/ \E o \in Ops : Drain(o) \/ DrainFails(o)
    \/ Drained

\* What the renderer and the user do.
Request ==
    \/ \E o \in Ops : AdmitOverflow(o) \/ AdmitNoHandle(o) \/ \E v \in BOOLEAN : Admit(o, v)
    \/ \E S \in SUBSET Ops, U \in SUBSET Unused(Known) : Revoke(S, U)
    \/ \E U \in SUBSET Unused(Known) : CloseDocument(U) \/ Quit(U)
    \/ \E w \in Owners : OpenDocument(w)

Next == Request \/ (\E o \in Ops : TaskStep(o)) \/ NativeStep \/ QuitStep \/ QuitDone

Spec == Init /\ [][Next]_vars

\* Tasks run on; a stop somebody waits for ends within its grace and kill
\* timers; Quit goes on.
GoesOn ==
    \/ \E o \in Ops : TaskStep(o)
    \/ QuitStep
    \/ Ends({s \in stops : s.ops # {} \/ s.fate # "ok"})

FairSpec == Spec /\ WF_vars(GoesOn)

---------------------------------------------------------------------------
(* What must hold.                                                         *)

\* Once the domain is fenced, every operation the ledger still knows has its
\* answer (notifyFailure), whatever its task or the native side is waiting for.
FaultAnswersAll ==
    fault # "none" => \A o \in Ops : hist[o] = "known" => rec[o].reply # "none"

\* "Run it elsewhere" (a failure with completion evidence) is answered only when
\* nothing of the request is left, its process work over and its input gone, and
\* never to an operation that somebody else's stop took down.
FallbackIsSafe ==
    \A o \in Ops : rec[o].reply = "fallback" =>
        /\ native[o] \in {"completed", "confirmed"} /\ files[o] \in {"none", "removed"}
        /\ o \in wrong \cup timedOut

\* The states the ledger builds are always states the wire contract accepts
\* (normalize): no order of native receipts turns into a producer failure.
ContractHolds == \A o \in Ops : ~rec[o].broken

\* A reclaimed slot owns nothing any more: its task is over and its input is gone.
RetiredOwnsNothing ==
    \A o \in Ops : hist[o] = "retired" =>
        pc[o] \in {"idle", "over"} /\ files[o] \in {"none", "removed"}

\* A request that was already answered is never sent to the runtime.
NoDispatchAfterAnswer ==
    [][\A o \in Ops : native[o] # "running" /\ native'[o] = "running" =>
                          rec[o].reply = "none" /\ fault = "none"]_vars

\* An input file goes only when the runtime cannot read it any more: it was never
\* submitted, the native work is over, or a later public stop was confirmed.
InputOutlivesUse ==
    [][\A o \in Ops : files[o] # "removed" /\ files'[o] = "removed" =>
                          \/ o \notin used \/ native[o] \in Safe
                          \/ drain[o] = "confirmed"]_vars

\* An observer sees every change: another state has a higher revision.
ChangesAreVisible ==
    [][\A o \in Known : LET Shown(r) == [r EXCEPT !.reply = "none", !.broken = FALSE]
                         IN Shown(rec[o]) # Shown(rec'[o]) => rec'[o].rev > rec[o].rev]_vars

\* The answer of an operation, as its renderer sees it.
AnswerOf(o) == IF rec[o].reply \in {"none", "result", "fallback"}
                 THEN rec[o].reply ELSE "failed"

\* The ledger keeps the promise of OperationLife.
Life == INSTANCE OperationLife WITH
            know <- hist, answer <- [o \in Ops |-> AnswerOf(o)], fenced <- (fault # "none")
LifeSpec == Life!LifeSpec

\* Every accepted request is answered, even if its process never confirms.
EveryRequestAnswered ==
    \A o \in Ops : (hist[o] = "known") ~> (rec[o].reply # "none")

\* Quit ends, or fails visibly and can be tried again.
QuitEnds == (quit = "stopping") ~> (quit \in {"failed", "done"})
=============================================================================
