----------------------------- MODULE ModelSettings -----------------------------
(***************************************************************************)
(* The settings pane of the speech models (native-model-settings.js) on top  *)
(* of Main's NativeModels.  The pane draws what the newest overview showed,  *)
(* decides from it what may be clicked, and observes Main while something is *)
(* being installed.  It is closed and opened again while Main goes on.       *)
(*                                                                         *)
(* A click reaches Main in the same step: what can happen on the way shows   *)
(* as an overview that is out of date.  Answers and overviews travel back on *)
(* their own.                                                               *)
(***************************************************************************)
EXTENDS NativeModels

VARIABLES
    mount,      \* the pane that is open, 0 for none
    seen,       \* snapshot, <<>> before the first
    bad,        \* overviewError
    installing, \* installing: the action of each model that its promise waits for
    removing,   \* removing: "no", "called" or "reading"
    selecting,  \* selecting: likewise
    cancelling, \* cancelling
    reads       \* the overviews under way: what waits for them, and the newest

viewVars == <<mount, seen, bad, installing, removing, selecting, cancelling, reads>>
vars == <<mainVars, viewVars>>

Closed == [at |-> "no", id |-> 0]
Fresh ==
    /\ seen' = <<>> /\ bad' = FALSE
    /\ installing' = [m \in Models |-> Closed]
    /\ removing' = "no" /\ selecting' = "no" /\ cancelling' = {}

\* A pane is open and has asked for its first overview.
Init ==
    /\ MainInit
    /\ mount = IF embedded THEN 1 ELSE 0
    /\ seen = <<>> /\ bad = FALSE
    /\ installing = [m \in Models |-> Closed]
    /\ removing = "no" /\ selecting = "no" /\ cancelling = {}
    /\ reads = IF embedded THEN {[for |-> <<"pane">>, newest |-> TRUE, got |-> Overview]} ELSE {}

TypeOK ==
    /\ disk \in [Models -> {"absent", "whole", "torn"}]
    /\ states \in [Models -> {"installed", "missing"}]
    /\ \A m \in Models :
        /\ act[m].id \in 0..MaxActs /\ last[m].id \in 0..MaxActs
        /\ act[m].at \in {"none", "downloading", "verifying", "cancelling"}
        /\ last[m].at \in {"none", "installed", "cancelled", "failed"}
        /\ installing[m].at \in {"no", "called", "reading"}
    /\ mount \in 0..MaxActs + 1 /\ {removing, selecting} \subseteq {"no", "called", "reading"}
    /\ \A r \in reads : r.newest \in BOOLEAN

---------------------------------------------------------------------------
(* Reads.                                                                  *)

\* What a read is for: the pane itself, or a click that goes on after it.
ThePane == <<"pane">>

\* A slip: an older request may own the view as well.
AllNewest(S) == S

\* ++readSequence: what was asked for before is out of date and not looked at; it is
\* still under way (readsInFlight) and holds up what waits for it.  Nothing tells two
\* outdated reads of the pane apart: they are one here, and end with the last of them.
Outdated(S) == {[r EXCEPT !.newest = FALSE, !.got = <<>>] : r \in S}

\* refresh(): Main draws the overview when it is asked for; a Main that shuts
\* down rejects.
Ask(for) ==
    reads' = Outdated(reads) \cup
             {[for |-> for, newest |-> TRUE, got |-> IF quitting' THEN <<>> ELSE Overview']}

\* ... and its answer.  Only the newest read owns the view.
Shows(r) ==
    /\ reads' = reads \ {r}
    /\ seen' = IF r.newest /\ r.got # <<>> THEN r.got ELSE seen
    /\ bad' = IF r.newest THEN r.got = <<>> ELSE bad

\* What waited for it goes on: the last lines of installModel, removeModel and
\* selectModel.
Delivered(r) ==
    /\ r \in reads /\ Shows(r)
    /\ installing' = [m \in Models |-> IF r.for = <<"install", m>> THEN Closed ELSE installing[m]]
    /\ removing' = IF r.for = <<"remove">> THEN "no" ELSE removing
    /\ selecting' = IF r.for = <<"select">> THEN "no" ELSE selecting
    /\ UNCHANGED <<mainVars, mount, cancelling>>

ActivePhases == {"confirming", "downloading", "verifying", "cancelling"}
Active(m) == seen # <<>> /\ seen[m].action.at \in ActivePhases

\* syncPolling, after every render.
Observes == \E m \in Models : installing[m] # Closed \/ Active(m)

Poll ==
    /\ mount # 0 /\ Observes /\ reads = {}
    /\ UNCHANGED <<mainVars, mount, seen, bad, installing, removing, selecting, cancelling>>
    /\ Ask(ThePane)

Reload ==
    /\ UserActs /\ mount # 0
    /\ UNCHANGED <<embedded, disk, states, act, last, rt, pref, active, reread, quitting, asked, mount, seen, bad, installing, removing, selecting, cancelling>>
    /\ Ask(ThePane)

---------------------------------------------------------------------------
(* Clicks, on a model the newest overview that was read shows.             *)

Row(m) == mount # 0 /\ seen # <<>> /\ m \in DOMAIN seen

CanInstall(m) == ~bad /\ Row(m) /\ seen[m].state = "missing"
CanSelect(m) == ~bad /\ Row(m) /\ m \in Stt /\ ~seen[m].selected
CanRemove(m) == ~bad /\ Row(m) /\ seen[m].canRemove

\* The guards of the button and of installModel.  Main takes it up or throws.
ClickInstall(m) ==
    /\ UserActs /\ CanInstall(m)
    /\ installing[m] = Closed /\ removing = "no" /\ ~Active(m)
    /\ IF Accepts(m)
         THEN /\ Begin(m) /\ installing' = [installing EXCEPT ![m] = [at |-> "called", id |-> acts']]
         ELSE /\ installing' = [installing EXCEPT ![m] = [at |-> "called", id |-> 0]]
              /\ UNCHANGED <<act, last>>
    /\ UNCHANGED <<embedded, disk, states, rt, pref, active, reread, quitting,
                   asked, mount, seen, bad, removing, selecting, cancelling, reads>>

\* The promise of installNativeModel settles once its action is over.
InstallAnswered(m) ==
    /\ installing[m].at = "called" /\ (installing[m].id = 0 \/ act[m].id # installing[m].id)
    /\ installing' = [installing EXCEPT ![m].at = "reading"]
    /\ UNCHANGED <<mainVars, mount, seen, bad, removing, selecting, cancelling>>
    /\ Ask(<<"install", m>>)

\* cancelInstall of the action that the row shows, be it drawn from an old overview.
ClickCancel(m) ==
    /\ UserActs /\ Row(m) /\ Active(m)
    /\ ~seen[m].action.cancelled /\ seen[m].action.id \notin cancelling
    /\ CancelAction(seen[m].action.id)
    /\ cancelling' = cancelling \cup {seen[m].action.id}
    /\ UNCHANGED <<embedded, disk, states, last, rt, pref, active, reread,
                   quitting, mount, seen, bad, installing, removing, selecting, reads>>

CancelAnswered(i) ==
    /\ i \in cancelling /\ cancelling' = cancelling \ {i}
    /\ UNCHANGED <<mainVars, mount, seen, bad, installing, removing, selecting>>
    /\ Ask(ThePane)

ClickSelect(m) ==
    /\ UserActs /\ CanSelect(m)
    /\ removing = "no" /\ selecting = "no" /\ selecting' = "called"
    /\ IF quitting THEN UNCHANGED pref ELSE Choose(m)
    /\ UNCHANGED <<embedded, disk, states, act, last, rt, active, reread, quitting,
                   asked, mount, seen, bad, installing, removing, cancelling, reads>>

SelectAnswered ==
    /\ selecting = "called" /\ selecting' = "reading"
    /\ UNCHANGED <<mainVars, mount, seen, bad, installing, removing, cancelling>>
    /\ Ask(<<"select">>)

ClickRemove(m) ==
    /\ UserActs /\ CanRemove(m)
    /\ removing = "no" /\ selecting = "no" /\ ~Observes /\ removing' = "called"
    /\ IF Refuses(m) THEN UNCHANGED <<disk, states, reread>> ELSE Remove(m, mount)
    /\ UNCHANGED <<embedded, act, last, rt, pref, active, quitting,
                   asked, mount, seen, bad, installing, selecting, cancelling, reads>>

\* A removal that failed answers after its refresh, or when that has become void.
RemoveAnswered ==
    /\ removing = "called" /\ reread.by # mount /\ removing' = "reading"
    /\ UNCHANGED <<mainVars, mount, seen, bad, installing, selecting, cancelling>>
    /\ Ask(<<"remove">>)

\* The pane is opened and reads once; closing it leaves Main alone.
Mount ==
    /\ UserActs /\ embedded /\ mount = 0 /\ mount' = acts' + 1
    /\ Fresh /\ UNCHANGED <<embedded, disk, states, act, last, rt, pref, active, reread, quitting, asked>>
    /\ Ask(ThePane)

Dispose ==
    /\ mount # 0 /\ mount' = 0
    /\ Fresh /\ reads' = {} /\ UNCHANGED mainVars

---------------------------------------------------------------------------
Answers ==
    \/ \E m \in Models : InstallAnswered(m)
    \/ \E i \in cancelling : CancelAnswered(i)
    \/ SelectAnswered \/ RemoveAnswered

Clicks ==
    \/ \E m \in Models : ClickInstall(m) \/ ClickCancel(m) \/ ClickSelect(m) \/ ClickRemove(m)
    \/ Mount \/ Dispose \/ Reload

Next ==
    \/ MainStep /\ UNCHANGED viewVars
    \/ Answers \/ (\E r \in reads : Delivered(r)) \/ Poll \/ Clicks

Spec == Init /\ [][Next]_vars

MainEnds == (Refresh \/ \E m \in Models : Ends(m)) /\ UNCHANGED viewVars

\* Installations and refreshes end, answers arrive, the timer of the pane ticks:
\* nothing of it can be put off for ever by the rest, which is finite.
Fairness ==
    /\ WF_vars(MainEnds) /\ WF_vars(Answers)
    /\ WF_vars(\E r \in reads : Delivered(r)) /\ WF_vars(Poll)

FairSpec == Spec /\ Fairness

---------------------------------------------------------------------------
(* What must hold.                                                         *)

\* A model that is whole on the disk is never shown as missing, whatever refresh
\* was under way when it arrived (runModelInstallation raises the serial).
NeverForgets ==
    \A m \in Models : states[m] = "missing" => disk[m] # "whole" \/ act[m].committed

\* A cancellation takes the action it was clicked on, never the one that installs
\* the same model next (cancelNativeModelInstallAction goes by actionId).
CancelHitsItsAction ==
    \A m \in Models : act[m].cancelled \/ last[m].cancelled => {act[m].id, last[m].id} \cap asked # {}

\* The pane never goes back in time: an action it showed as over, or replaced by
\* a later one, is not shown as running again.
ViewNeverGoesBack ==
    [][seen # <<>> /\ seen' # <<>> =>
          \A m \in Models :
              LET a == seen[m].action  b == seen'[m].action IN
              /\ b.id >= a.id
              /\ b.id = a.id /\ a.at \notin ActivePhases => b.at = a.at]_vars

\* No button stays busy: an install, a removal, a selection ends for the pane that
\* was clicked.
Waiting == removing # "no" \/ selecting # "no" \/ \E m \in Models : installing[m] # Closed
EveryClickSettles == Waiting ~> ~Waiting
=============================================================================
