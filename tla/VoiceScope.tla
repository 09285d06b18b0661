------------------------------ MODULE VoiceScope ------------------------------
(***************************************************************************)
(* The voice work of one page of the desktop app and its Stop: the scope     *)
(* that owns the records of a runtime adapter                               *)
(* (desktop-voice-work-scope.js), the adapter that runs a request natively   *)
(* and, with proof that nothing of it is left, in the page                  *)
(* (electron-runtime.js), and the audio that is decoded in between           *)
(* (native-audio.js).  Main appears as what it answers: VoiceLedger has how. *)
(*                                                                         *)
(* An IPC call reaches Main in the step that makes it, calls being in order; *)
(* answers come on their own.  What a callback or a codec does is that it    *)
(* ends, well or not, or never.                                              *)
(***************************************************************************)
EXTENDS Naturals, FiniteSets, FiniteSetsExt

CONSTANTS
    MaxRecords,   \* 32: records of one document bridge
    MaxAdapters,  \* bound: a replacement adapter follows one that was disposed
    MaxActs       \* bound: what the page calls; a request is named after its own

ASSUME BoundsArePositive == {MaxRecords, MaxAdapters, MaxActs} \subseteq Nat \ {0}

VARIABLES
    acts,       \* what the page called so far
    page,       \* the adapter it uses
    fault,      \* domain.fault: sticky, shared by every adapter of the document
    kept,       \* domain.records
    mine,       \* the records of the scopes
    rec,        \* each record, and where the call of the page that owns it is
    scope,      \* each scope: closed, its Stop and how that proceeds
    text,       \* the text generation of each adapter
    work,       \* Main: the operation of each request
    reply,      \* Main: its answer
    refused,    \* Main: requests that were revoked
    helper      \* Main: the helper an adapter prepared is alive

vars == <<acts, page, fault, kept, mine, rec, scope, text, work, reply, refused, helper>>
mainVars == <<work, reply, refused>>
textVars == <<text, helper>>
scopeVars == <<fault, kept, mine, rec>>

Requests == 1..MaxActs
Adapters == 1..MaxAdapters
Unborn == [at |-> "unborn", by |-> 1, native |-> FALSE, sent |-> FALSE,
           revoked |-> FALSE, done |-> FALSE, gave |-> FALSE]
Open == [closed |-> FALSE, stopped |-> FALSE, joined |-> FALSE, disposed |-> FALSE,
         at |-> "idle", native |-> {}, end |-> "none"]
Silent == [at |-> "no", live |-> TRUE, prep |-> FALSE, cap |-> FALSE, stopping |-> FALSE]

Init ==
    /\ acts = 0 /\ page = 1
    /\ fault = FALSE /\ kept = {} /\ mine = {}
    /\ rec = [r \in Requests |-> Unborn]
    /\ scope = [d \in Adapters |-> Open]
    /\ text = [d \in Adapters |-> Silent]
    /\ work = [r \in Requests |-> "none"] /\ reply = [r \in Requests |-> "none"]
    /\ refused = {} /\ helper = [d \in Adapters |-> FALSE]

TypeOK ==
    /\ acts \in 0..MaxActs /\ page \in Adapters /\ fault \in BOOLEAN
    /\ mine \subseteq kept /\ kept \subseteq Requests /\ refused \subseteq Requests
    /\ \A r \in Requests :
        /\ rec[r].at \in {"unborn", "toPrepare", "preparing", "called", "toFall", "falling", "over"}
        /\ work[r] \in {"none", "running", "stopping", "gone", "stuck"}
        /\ reply[r] \in {"none", "result", "proof", "failure", "rejected"}
    /\ \A d \in Adapters :
        /\ scope[d].at \in {"idle", "ack", "drain", "observe", "final"}
        /\ scope[d].end \in {"none", "resolved", "rejected"} /\ scope[d].native \subseteq Requests
        /\ text[d].at \in {"no", "preparing", "writing"}

Act == acts < MaxActs /\ acts' = acts + 1

\* record.localPending: a codec or a fallback of the page was reserved.
Local(r) == rec[r].at \in {"toPrepare", "preparing", "toFall", "falling"}
Of(d) == {r \in Requests : rec[r].at # "unborn" /\ rec[r].by = d}

\* A Stop is under way: stopPromise && !stopSettled.
Stopping(d) == scope[d].at # "idle"

---------------------------------------------------------------------------
(* The life of a request: _run.                                            *)

\* A slip: the callback is not checked again.
StillOpen(r) == ~fault

\* check(): a record that was revoked, whose scope was disposed or closed, or whose
\* document faulted, goes no further.  An epoch differs when it was revoked.
Ok(r) ==
    /\ ~rec[r].revoked /\ ~fault /\ r \in mine
    /\ ~scope[rec[r].by].disposed /\ ~scope[rec[r].by].closed

\* finish() gives the slot back unless Main may still own something for it.
Released(r, t, f) == ~f /\ (~t.native \/ t.done \/ (~t.sent /\ ~t.revoked))

\* The call of the page is over, with a result (gave) or an error; f is the fault
\* by then.
Ends(r, t, gave, f) ==
    LET free == IF Released(r, t, f) THEN {r} ELSE {} IN
    /\ rec' = [rec EXCEPT ![r] = [t EXCEPT !.at = "over", !.gave = gave]]
    /\ fault' = f /\ kept' = kept \ free /\ mine' = mine \ free

Goes(r, at) ==
    /\ rec' = [rec EXCEPT ![r].at = at]
    /\ UNCHANGED <<fault, kept, mine>>

\* begin() and what _run does up to its first wait: STT prepares its audio, TTS is
\* sent at once, and without a native backend the page runs the request itself.
Dispatches(r, t) ==
    /\ rec' = [rec EXCEPT ![r] = [t EXCEPT !.at = "called", !.sent = TRUE]]
    /\ \/ work' = [work EXCEPT ![r] = "running"] /\ UNCHANGED reply
       \/ work' = [work EXCEPT ![r] = "gone"] /\ reply' = [reply EXCEPT ![r] = "failure"]
       \/ UNCHANGED work /\ reply' = [reply EXCEPT ![r] = "rejected"]

\* closed && !stopped: a Stop is under way.  (The page itself awaits a Stop before it
\* begins again, which matters to the second one of a scope: that leaves stopped.)
Admits(d) == ~fault /\ ~scope[d].disposed /\ (scope[d].closed => scope[d].stopped)

Begin(plan) ==
    LET d == page  r == acts'
        t == [Unborn EXCEPT !.by = d, !.native = plan # "local"] IN
    /\ Act /\ Admits(d) /\ ~Stopping(d)
    /\ IF Cardinality(kept) >= MaxRecords
         THEN fault' = TRUE /\ UNCHANGED <<kept, mine, rec, scope, mainVars>>
         ELSE /\ kept' = kept \cup {r} /\ mine' = mine \cup {r} /\ UNCHANGED fault
              /\ scope' = IF scope[d].closed
                            THEN [scope EXCEPT ![d].closed = FALSE, ![d].stopped = FALSE, ![d].joined = FALSE]
                            ELSE scope
              /\ IF plan = "call"
                   THEN Dispatches(r, t)
                   ELSE /\ rec' = [rec EXCEPT ![r] = [t EXCEPT !.at =
                                     IF plan = "local" THEN "toFall" ELSE "toPrepare"]]
                        /\ UNCHANGED <<work, reply>>
    /\ UNCHANGED <<page, textVars, refused>>

\* local() reserves the barrier first and looks again before it calls back.
LocalStarts(r) ==
    /\ rec[r].at \in {"toPrepare", "toFall"}
    /\ IF Ok(r) THEN Goes(r, IF rec[r].at = "toPrepare" THEN "preparing" ELSE "falling")
       ELSE Ends(r, rec[r], FALSE, fault)
    /\ UNCHANGED <<acts, page, scope, textVars, mainVars>>

\* The audio is a PCM buffer, could not be decoded, or its decoder did not close.
Prepared(r) ==
    /\ rec[r].at = "preparing"
    /\ \/ Ok(r) /\ Dispatches(r, rec[r]) /\ UNCHANGED <<fault, kept, mine>>
       \/ \E dirty \in BOOLEAN : Ends(r, rec[r], FALSE, fault \/ dirty) /\ UNCHANGED <<work, reply>>
    /\ UNCHANGED <<acts, page, scope, textVars, refused>>

\* canFallback: a failure with its completion, settled, released and not revoked.
CanFallback(r) == reply[r] = "proof"

\* Main answers.  An answer after Stop is dropped, one that does not fit is a fault.
Answered(r) ==
    /\ rec[r].at = "called" /\ reply[r] # "none"
    /\ \/ ~Ok(r) /\ Ends(r, rec[r], FALSE, fault \/ (reply[r] = "rejected" /\ ~rec[r].revoked))
       \/ Ok(r) /\ reply[r] = "result" /\ Ends(r, [rec[r] EXCEPT !.done = TRUE], TRUE, fault)
       \/ Ok(r) /\ ~CanFallback(r) /\ Ends(r, rec[r], FALSE, TRUE)
       \/ /\ Ok(r) /\ CanFallback(r)
          /\ rec' = [rec EXCEPT ![r].at = "toFall", ![r].done = TRUE]
          /\ UNCHANGED <<fault, kept, mine>>
    /\ UNCHANGED <<acts, page, scope, textVars, mainVars>>

\* The fallback ends; its proof is looked at once more.
Fell(r) ==
    /\ rec[r].at = "falling"
    /\ \/ Ok(r) /\ Ends(r, rec[r], TRUE, fault)
       \/ \E dirty \in BOOLEAN : Ends(r, rec[r], FALSE, fault \/ dirty)
    /\ UNCHANGED <<acts, page, scope, textVars, mainVars>>

---------------------------------------------------------------------------
(* Main.                                                                   *)

\* A running operation ends: answered, failed with its completion, or failed
\* without (a shutdown).  One that is being stopped has answered.
MainEnds(r) ==
    /\ work[r] \in {"running", "stopping"} /\ work' = [work EXCEPT ![r] = "gone"]
    /\ IF work[r] = "stopping" THEN UNCHANGED reply
       ELSE \E a \in {"result", "proof", "failure"} : reply' = [reply EXCEPT ![r] = a]
    /\ UNCHANGED <<acts, page, scopeVars, scope, textVars, refused>>

\* Its process could not be confirmed to be gone.
MainSticks(r) ==
    /\ work[r] \in {"running", "stopping"} /\ work' = [work EXCEPT ![r] = "stuck"]
    /\ reply' = [reply EXCEPT ![r] = "failure"]
    /\ UNCHANGED <<acts, page, scopeVars, scope, textVars, refused>>

\* A batch is revoked: what runs is answered and stopped.
Revoked(S) ==
    /\ refused' = refused \cup S
    /\ work' = [r \in Requests |-> IF r \in S /\ work[r] = "running" THEN "stopping" ELSE work[r]]
    /\ reply' = [r \in Requests |-> IF r \in S /\ work[r] = "running" THEN "failure" ELSE reply[r]]

\* What an observation says: "over" is retired or released with the revocation,
\* "bad" unknown or a failure that a revocation does not explain.
Observed(r) ==
    IF work[r] = "none" THEN IF r \in refused THEN "over" ELSE "bad"
    ELSE IF work[r] = "gone" THEN "over"
    ELSE IF work[r] = "stuck" THEN "bad" ELSE "pending"

---------------------------------------------------------------------------
(* Text: generate, cancelGeneration.                                       *)

\* On macOS.  The capability is prepared first, under an id of its own.
Generate ==
    LET d == page IN
    /\ Act /\ ~scope[d].disposed /\ text[d].at = "no" /\ ~text[d].stopping
    /\ IF text[d].cap
         THEN text' = [text EXCEPT ![d].at = "writing", ![d].live = TRUE] /\ UNCHANGED helper
         ELSE /\ ~(scope[d].joined /\ Stopping(d))
              /\ text' = [text EXCEPT ![d].at = "preparing", ![d].live = TRUE, ![d].prep = TRUE]
              /\ helper' = [helper EXCEPT ![d] = TRUE]
    /\ UNCHANGED <<page, scopeVars, scope, mainVars>>

TextPrepared(d) ==
    /\ text[d].at = "preparing"
    /\ \E ready \in BOOLEAN :
        text' = IF ready /\ text[d].live /\ ~scope[d].disposed
                  THEN [text EXCEPT ![d].at = "writing", ![d].cap = TRUE]
                  ELSE [text EXCEPT ![d].at = "no"]
    /\ UNCHANGED <<acts, page, scopeVars, scope, mainVars, helper>>

TextAnswered(d) ==
    /\ text[d].at = "writing" /\ text' = [text EXCEPT ![d].at = "no"]
    /\ UNCHANGED <<acts, page, scopeVars, scope, mainVars, helper>>

\* cancelGeneration joins the Stop that called it.
TextCancelled(d) ==
    [text EXCEPT ![d].live = FALSE,
                 ![d].cap = text[d].stopping /\ @,
                 ![d].prep = text[d].stopping /\ @,
                 ![d].stopping = @ \/ text[d].prep]

\* The helper exited, or it is not known to have.
TextStops(d) ==
    /\ text[d].stopping /\ text' = [text EXCEPT ![d].stopping = FALSE]
    /\ \/ helper' = [helper EXCEPT ![d] = FALSE] /\ UNCHANGED fault
       \/ UNCHANGED helper /\ fault' = TRUE
    /\ UNCHANGED <<acts, page, kept, mine, rec, scope, mainVars>>

---------------------------------------------------------------------------
(* Stop and dispose.                                                       *)

\* Every record of the scope is revoked, and those that Main may own something for
\* are named to it in one batch, which it takes even when it answers with an error.
StopBegins(d, disposed) ==
    LET all == mine \cap Of(d)
        native == {r \in all : rec[r].native /\ ~rec[r].done} IN
    /\ scope' = [scope EXCEPT ![d] = [@ EXCEPT !.closed = TRUE, !.joined = TRUE, !.at = "ack",
                                               !.native = native, !.end = "none",
                                               !.disposed = disposed]]
    /\ rec' = [r \in Requests |-> IF r \in all THEN [rec[r] EXCEPT !.revoked = TRUE] ELSE rec[r]]
    /\ Revoked(native)
    /\ text' = TextCancelled(d)
    /\ UNCHANGED <<page, fault, kept, mine, helper>>

\* cancel(): a Stop under way is joined, and one that settled is the answer unless
\* text was prepared since.
Stop ==
    LET d == page IN
    /\ Act /\ ~Stopping(d) /\ (scope[d].joined => text[d].prep)
    /\ StopBegins(d, scope[d].disposed)

\* dispose(): a Stop that settled cannot represent it.
Dispose ==
    LET d == page IN
    /\ Act /\ ~scope[d].disposed
    /\ IF Stopping(d)
         THEN /\ scope' = [scope EXCEPT ![d].disposed = TRUE]
              /\ UNCHANGED <<page, scopeVars, mainVars, textVars>>
         ELSE StopBegins(d, TRUE)

\* A replacement adapter on the same bridge.
Replace ==
    /\ Act /\ scope[page].disposed /\ page + 1 \in Adapters /\ page' = page + 1
    /\ UNCHANGED <<scopeVars, scope, mainVars, textVars>>

\* A phase ends well, or with VOICE_CLEANUP_UNCERTAIN: an answer that does not
\* fit, or a deadline of two seconds.
Proceeds(d, at, failed) ==
    /\ scope' = [scope EXCEPT ![d].at = at] /\ fault' = (fault \/ failed)
    /\ UNCHANGED <<acts, page, kept, mine, rec, textVars, mainVars>>

Acknowledged(d) ==
    /\ scope[d].at = "ack"
    /\ \/ scope[d].native \subseteq refused /\ Proceeds(d, "drain", FALSE)
       \/ scope[d].native # {} /\ Proceeds(d, "drain", TRUE)

\* A slip: the obligations of the page are not awaited.
NothingToDrain(d) == TRUE

\* stopCleanups are empty: the codecs and fallbacks of the revoked records have
\* ended and the helper has.
Drained(d) == ~text[d].stopping /\ \A r \in Of(d) : rec[r].revoked => ~Local(r)

\* A slip: the drain has no deadline.
DrainsInTime(d) == scope[d].at = "drain" /\ Drained(d) /\ Proceeds(d, "observe", FALSE)

Drains(d) ==
    /\ scope[d].at = "drain"
    /\ \/ Drained(d) /\ Proceeds(d, "observe", FALSE)
       \/ ~Drained(d) /\ Proceeds(d, "final", TRUE)

\* One record after the other; a fault of the document ends it.
Observes(d) ==
    LET r == Min(scope[d].native) IN
    /\ scope[d].at = "observe"
    /\ \/ scope[d].native = {} /\ Proceeds(d, "final", FALSE)
       \/ scope[d].native # {} /\ Proceeds(d, "final", TRUE)
       \/ /\ scope[d].native # {} /\ ~fault /\ Observed(r) = "over"
          /\ scope' = [scope EXCEPT ![d].native = @ \ {r}]
          /\ UNCHANGED <<acts, page, scopeVars, textVars, mainVars>>

\* The queue of cleanups is looked at again, and the join settles in that turn.
Settles(d) ==
    /\ scope[d].at = "final"
    /\ \E failed \in {fault, TRUE} :
        /\ Drained(d) \/ failed
        /\ fault' = failed
        /\ scope' = [scope EXCEPT ![d] =
              [@ EXCEPT !.at = "idle", !.native = {}, !.stopped = scope[d].stopped \/ ~failed,
                        !.end = IF failed THEN "rejected" ELSE "resolved"]]
        /\ kept' = IF failed THEN kept ELSE kept \ {r \in Of(d) : rec[r].revoked}
        /\ mine' = IF failed THEN mine ELSE mine \ Of(d)
    /\ UNCHANGED <<acts, page, rec, textVars, mainVars>>

---------------------------------------------------------------------------
Calls ==
    \/ \E plan \in {"call", "prepare", "local"} : Begin(plan)
    \/ Generate \/ Stop \/ Dispose \/ Replace

Runs(r) == LocalStarts(r) \/ Prepared(r) \/ Answered(r) \/ Fell(r)
Main(r) == MainEnds(r) \/ MainSticks(r)
Texts(d) == TextPrepared(d) \/ TextAnswered(d) \/ TextStops(d)
StopSteps(d) == Acknowledged(d) \/ Drains(d) \/ Observes(d) \/ Settles(d)

Next ==
    \/ Calls
    \/ \E r \in Requests : Runs(r) \/ Main(r)
    \/ \E d \in Adapters : Texts(d) \/ StopSteps(d)

Spec == Init /\ [][Next]_vars

\* Every wait of a Stop has a deadline, and a call whose answer is there goes on.
\* Nothing is assumed of codecs, fallbacks, the helper or Main.
Fairness ==
    /\ WF_vars(\E d \in Adapters : StopSteps(d))
    /\ WF_vars(\E r \in Requests : Answered(r) \/ LocalStarts(r))

FairSpec == Spec /\ Fairness

---------------------------------------------------------------------------
(* What must hold.                                                         *)

\* A Stop that resolved is true: nothing of what the page had begun runs in Main
\* or in the page, and no helper is left (stop: acknowledgement AND retirement).
StopIsTrue ==
    \A d \in Adapters : scope[d].joined /\ scope[d].end = "resolved" =>
        /\ \A r \in Of(d) : work[r] \notin {"running", "stopping", "stuck"} /\ ~Local(r)
        /\ helper[d] => text[d].prep

\* What was begun before a Stop gives nothing to the page after it.
NothingAfterStop ==
    [][\A r \in Requests : rec'[r].gave /\ ~rec[r].gave => ~rec[r].revoked]_vars

\* Every Stop settles, whatever Main, a codec or the helper does.
EveryStopSettles == (\E d \in Adapters : Stopping(d)) ~> (\A d \in Adapters : ~Stopping(d))
=============================================================================
