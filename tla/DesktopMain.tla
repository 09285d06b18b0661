----------------------------- MODULE DesktopMain -----------------------------
(***************************************************************************)
(* How the main process of the desktop app launches the client of its speech *)
(* sidecar, or of a candidate runtime it probes, and gives it up: after a    *)
(* failed launch, after a probe, and at Quit (main.cjs).  The client is      *)
(* SpeechClient, with all it can do; the assets it uses are prepared and     *)
(* bound here, and Quit is only allowed when they are released.              *)
(*                                                                         *)
(* A receipt is a transcription the page asked for: its task has an input    *)
(* file, which it keeps until its end, or the end of the client, is          *)
(* confirmed.  The operation ledger and the text helper are VoiceLedger and  *)
(* FoundationModels; here they are a signal of Quit that may fail.           *)
(***************************************************************************)
EXTENDS SpeechClient

CONSTANTS Boot, Health  \* the calls of Main itself: start(), then probe or health

ASSUME MainCalls == Boot \in Starts /\ Health \in Legacy \ Starts

VARIABLES
    launch,   \* of the speech client, or of a probe
    bundle,   \* the prepared assets: their work, and whether Main still holds them
    owned,    \* the client is in ownedClients
    attempt,  \* record.attempt: the stop Main waits for, and how the last one ended
    freed,    \* tasks whose final stop was confirmed (confirmFinalStop)
    quit      \* shuttingDown, shutdownPromise, quitAllowed

clientVars == <<platform, intents, works, procs, process, stop, failed, calls, history, lease>>
mainVars == <<launch, bundle, owned, attempt, freed, quit>>
allVars == <<vars, mainVars>>

InitMain ==
    /\ Init
    /\ launch \in [kind : {"speech", "probe"}, at : {"preparing"}, up : {FALSE}]
    /\ bundle = [work |-> "running", held |-> TRUE]
    /\ owned = FALSE /\ attempt = "none" /\ freed = {}
    /\ quit = [shutting |-> FALSE, phase |-> "no", allowed |-> FALSE]

\* A slip: admission is only closed when Quit is allowed.
AdmittedUntilAllowed == ~quit.allowed
\* assertAdmission
Admitted == ~quit.shutting

\* A slip: a receipt that cannot be confirmed is final.
TaskOverUnconfirmed(r) ==
    calls[r].at \in {"new", "made"} \/
    (calls[r].at = "over" /\ calls[r].status \in {"completed", "confirmed", "unconfirmed"})
\* What was asked of the client is over, as far as the task of a call is concerned:
\* the receipt is final, or Main's own stop of the client was confirmed since.
TaskOver(r) ==
    calls[r].at \in {"new", "made"} \/
    (calls[r].at = "over" /\ (calls[r].status \in {"completed", "confirmed"} \/ r \in freed))

----------------------------------------------------------------------------
(* stopOwnedClient                                                            *)

\* A slip: a barrier that rejects leaves the attempt where it is.
FollowsSuccess ==
    LET ok == attempt = "waiting" /\ stop.on /\ ~stop'.on /\ intents'[stop.intent].conf = "ok"
    IN /\ attempt' = IF ok THEN "ok" ELSE attempt
       /\ freed' = IF ok THEN freed \cup {r \in Receipts : calls[r].at # "new"} ELSE freed
\* The attempt ends with the barrier of the client; confirmed, it frees the tasks
\* that wait for it.
Follows ==
    LET ends == attempt = "waiting" /\ stop.on /\ ~stop'.on
        ok == ends /\ intents'[stop.intent].conf = "ok"
    IN /\ attempt' = IF ~ends THEN attempt ELSE IF ok THEN "ok" ELSE "bad"
       /\ freed' = IF ok THEN freed \cup {r \in Receipts : calls[r].at # "new"} ELSE freed

\* A stop of Main joins the attempt under way, or is one of its own.
StopOwned ==
    IF attempt = "waiting" THEN UNCHANGED <<intents, works, procs, stop, calls, history,
                                            platform, process, failed, attempt, freed>>
    ELSE /\ Stops({})
         /\ attempt' = IF failed THEN "bad" ELSE "waiting"
         /\ UNCHANGED freed

RetireOwned == lease' = [lease EXCEPT !.retired = TRUE]

\* releaseClientAssets: every process seen to its end, then the assets, then the owner.
ClosureSeen == \A p \in DOMAIN procs : Gone(p)
ReleasesOwned ==
    /\ ClosureSeen /\ MayRelease
    /\ lease' = [lease EXCEPT !.released = TRUE]
    /\ owned' = FALSE

----------------------------------------------------------------------------
(* Launch                                                                     *)

BundleEnds ==
    /\ bundle.work = "running"
    /\ \E how \in {"done", "failed"} : bundle' = [bundle EXCEPT !.work = how]
    /\ UNCHANGED <<vars, launch, owned, attempt, freed, quit>>

\* Bound to a client, the assets are the client's: it is owned before it is started.
LaunchBinds ==
    /\ launch.at = "preparing" /\ bundle.work = "done" /\ Admitted
    /\ bundle' = [bundle EXCEPT !.held = FALSE]
    /\ owned' = TRUE
    /\ launch' = [launch EXCEPT !.at = "starting"]
    /\ Request(Boot)
    /\ UNCHANGED <<attempt, freed, quit>>

\* Without a client the assets are released, or kept for Quit to try again.
LaunchDrops ==
    /\ launch.at = "preparing"
    /\ bundle.work = "failed" \/ (bundle.work = "done" /\ ~Admitted)
    /\ launch' = [launch EXCEPT !.at = "over"]
    /\ \E kept \in BOOLEAN : bundle' = [bundle EXCEPT !.held = bundle.held /\ kept]
    /\ UNCHANGED <<vars, owned, attempt, freed, quit>>

GivesUp ==
    /\ launch' = [launch EXCEPT !.at = "cleaning"]
    /\ RetireOwned /\ StopOwned
    /\ UNCHANGED <<acts, bundle, owned, quit>>

Booted == calls[Boot].at = "over" /\ calls[Boot].to # None
LaunchGoesOn ==
    /\ launch.at = "starting" /\ Booted /\ Admitted
    /\ \/ /\ launch.kind = "speech"
          /\ launch' = [launch EXCEPT !.at = "over", !.up = TRUE]
          /\ UNCHANGED vars
       \/ /\ launch.kind = "probe"
          /\ launch' = [launch EXCEPT !.at = "probing"]
          /\ Request(Health)
    /\ UNCHANGED <<bundle, owned, attempt, freed, quit>>

\* A launch that failed, and a probe whatever it found.
LaunchGivesUp ==
    /\ \/ launch.at = "starting" /\ calls[Boot].at = "over" /\ ~(Booted /\ Admitted)
       \/ launch.at = "probing" /\ calls[Health].at = "over"
    /\ GivesUp

LaunchCleans ==
    /\ launch.at = "cleaning" /\ attempt # "waiting"
    /\ launch' = [launch EXCEPT !.at = "over"]
    /\ \/ attempt = "ok" /\ owned /\ ReleasesOwned
       \/ UNCHANGED <<lease, owned>>
    /\ UNCHANGED <<acts, platform, intents, works, procs, process, stop, failed, calls, history,
                   bundle, attempt, freed, quit>>

\* The installation a probe belongs to is aborted.
ProbeAborts ==
    /\ Acts
    /\ launch.kind = "probe" /\ launch.at \in {"starting", "probing"}
    /\ RetireOwned /\ StopOwned
    /\ UNCHANGED <<launch, bundle, owned, quit>>

----------------------------------------------------------------------------
(* The page                                                                   *)

MayAsk == launch.up /\ Admitted

PageAsks ==
    /\ MayAsk
    /\ \E c \in Receipts \cup {Health} : Request(c) \/ (c \in Receipts /\ Create(c))
    /\ UNCHANGED mainVars

PageCancels(r) ==
    /\ launch.up /\ Acts /\ Cancels(r)
    /\ Follows /\ UNCHANGED <<launch, bundle, owned, quit>>

\* A task whose call failed cancels its own receipt before it lets go of the input.
TaskCancels(r) ==
    /\ calls[r].at = "over" /\ calls[r].status \in {"starting", "running"}
    /\ Cancels(r) /\ UNCHANGED acts
    /\ Follows /\ UNCHANGED <<launch, bundle, owned, quit>>

----------------------------------------------------------------------------
(* Quit                                                                       *)

\* before-quit: admission closes, and the clients are signalled in the same step.
Quit ==
    /\ Acts /\ ~quit.allowed
    /\ quit' = [quit EXCEPT !.shutting = TRUE, !.phase = IF @ = "no" THEN "signals" ELSE @]
    /\ IF quit.phase = "no" /\ owned THEN RetireOwned /\ StopOwned
       ELSE UNCHANGED <<clientVars, attempt, freed>>
    /\ bundle' = [bundle EXCEPT !.work = IF @ = "running" /\ bundle.held THEN "failed" ELSE @]
    /\ UNCHANGED <<launch, owned>>

Phase(from, to) ==
    /\ quit.phase = from
    /\ quit' = [quit EXCEPT !.phase = to]
    /\ UNCHANGED <<vars, launch, bundle, owned, attempt, freed>>

Signalled == attempt # "waiting" /\ (owned => attempt = "ok")
TasksOver == \A r \in Receipts : TaskOver(r)

QuitProceeds ==
    \/ Signalled /\ Phase("signals", "launch")
    \/ launch.at = "over" /\ Phase("launch", "tasks")
    \/ TasksOver /\ Phase("tasks", "release")

\* What Main still owns or holds is released, and only then the app may end.
QuitReleases ==
    /\ quit.phase = "release"
    /\ IF owned THEN ReleasesOwned ELSE UNCHANGED <<lease, owned>>
    /\ bundle' = [bundle EXCEPT !.held = FALSE]
    /\ quit' = [quit EXCEPT !.phase = "no", !.allowed = TRUE]
    /\ UNCHANGED <<acts, platform, intents, works, procs, process, stop, failed, calls, history,
                   launch, attempt, freed>>

\* A stop, a release or a signal of another component failed: Quit stays prevented.
QuitFails ==
    /\ attempt # "waiting"
    /\ Phase("signals", "no") \/ Phase("release", "no")

----------------------------------------------------------------------------

ClientProceeds == (Settles \/ Proceeds) /\ Follows /\ UNCHANGED <<launch, bundle, owned, quit>>
MainProceeds ==
    \/ BundleEnds \/ LaunchBinds \/ LaunchDrops \/ LaunchGoesOn \/ LaunchGivesUp \/ LaunchCleans
    \/ QuitProceeds \/ QuitReleases \/ QuitFails
    \/ \E r \in Receipts : TaskCancels(r)
NextMain ==
    \/ ClientProceeds \/ MainProceeds
    \/ System /\ Follows /\ UNCHANGED <<launch, bundle, owned, quit>>
    \/ PageAsks \/ Quit \/ ProbeAborts
    \/ \E r \in Receipts : PageCancels(r)

SpecMain == InitMain /\ [][NextMain]_allVars
FairMain == SpecMain /\ WF_allVars(ClientProceeds) /\ WF_allVars(MainProceeds)

----------------------------------------------------------------------------
(* Properties                                                                 *)

TypeOKMain ==
    /\ TypeOK
    /\ launch \in [kind : {"speech", "probe"}, up : BOOLEAN,
                   at : {"preparing", "starting", "probing", "cleaning", "over"}]
    /\ bundle \in [work : {"running", "done", "failed"}, held : BOOLEAN]
    /\ owned \in BOOLEAN /\ attempt \in {"none", "waiting", "ok", "bad"} /\ freed \subseteq Receipts
    /\ quit \in [shutting : BOOLEAN, allowed : BOOLEAN,
                 phase : {"no", "signals", "launch", "tasks", "release"}]

\* The app only ends when no process of it is left, none is being prepared, the assets
\* are released and every task has let go of its input (before-quit).
QuitIsClean ==
    quit.allowed =>
        /\ \A p \in DOMAIN procs : Gone(p) /\ ~Alive(p)
        /\ ~Preparing /\ ~bundle.held /\ (lease.authorized => lease.released)
        /\ TasksOver

\* From the first request to quit on nothing is spawned: not by a launch whose assets
\* were ready, not by a start behind a stop, not by a validation under way.
NothingSpawnsAfterQuit == [][quit.shutting => Len(procs') = Len(procs)]_allVars

\* An input is kept as long as a process could read it.
InputOutlivesReader ==
    \A r \in Receipts : calls[r].to # None /\ calls[r].at = "over" /\ TaskOver(r) =>
        calls[r].status = "completed" \/ ~Alive(calls[r].to)

\* Each attempt to quit ends: the app may, or the user is told that it may not.
QuitEnds == quit.phase # "no" ~> quit.phase = "no"

\* "Fully reaped faults permit product Quit" (retainReleasedHistory): a leader on macOS
\* that was killed or failed, and was seen to its end, does not keep the app alive.
ReapedFaultsQuit ==
    quit.phase = "release" /\ owned /\ ClosureSeen /\ platform = "darwin"
        /\ ~history.unknown /\ ~history.wasted => MayRelease
=============================================================================
