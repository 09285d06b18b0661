----------------------------- MODULE NativeModels -----------------------------
(***************************************************************************)
(* The speech models of the desktop app as Main manages them (main.cjs): an  *)
(* action per model that is being installed, the installation of the runtime *)
(* with its consent dialog, removals, the choice of a model for              *)
(* transcription with its preference file (stt-model-preference.cjs), and    *)
(* the cached states that every overview is drawn from.                      *)
(*                                                                         *)
(* The window opens after the runtime was started or failed to, so what it   *)
(* runs with does not change here.  Bytes and digests are the success or failure *)
(* of a step; AssetCoordinator has what an installation does on the disk.    *)
(***************************************************************************)
EXTENDS Naturals, Sequences, FiniteSets

CONSTANTS
    Models,       \* the models of the catalog
    Catalog,      \* ... in its order
    Tts,          \* those that speak; the others transcribe
    Default,      \* the transcription model recommended for this device
    NoModel,
    Prefs,        \* bound: what the preference file may hold at the start
    MaxActs       \* bound: what the user does, from the pane and elsewhere

ASSUME CatalogListsTheModels ==
    /\ Catalog \in Seq(Models) /\ Models = {Catalog[i] : i \in DOMAIN Catalog}
    /\ Tts \subseteq Models /\ Default \in Models \ Tts /\ NoModel \notin Models
    /\ Prefs \subseteq (Models \ Tts) \cup {NoModel, "bad"}

VARIABLES
    embedded,   \* the runtime ships with the app, models are installed one by one
    disk,       \* the directory of each model: "absent", "whole" or "torn"
    states,     \* nativeModelStates
    act,        \* modelActions
    last,       \* lastModelInstallations
    acts,       \* what the user did so far; an action is named after its own
    rt,         \* installationAction: the installation of the runtime
    pref,       \* the preference file: a model, NoModel, or "bad"
    active,     \* hybridActiveModelIds
    reread,     \* refreshNativeModelStates after a removal that failed
    quitting,   \* shuttingDown
    asked       \* history: the actions that somebody asked to cancel

mainVars == <<embedded, disk, states, act, last, acts, rt, pref, active, reread, quitting, asked>>

Stt == Models \ Tts
NoAction == [id |-> 0, at |-> "none", cancelled |-> FALSE, committed |-> FALSE]
Over(a, at) == [id |-> a.id, at |-> at, cancelled |-> a.cancelled]
NoView == [id |-> 0, at |-> "none", cancelled |-> FALSE]
Resting == [by |-> 0, at |-> 0, got |-> "none"]
NoRuntime == [at |-> "no", cancelled |-> FALSE]

\* The session starts with what the disk, the preference and the launch left.
MainInit ==
    /\ embedded \in BOOLEAN
    /\ disk \in [Models -> {"absent", "whole"}]
    /\ states = [m \in Models |-> IF disk[m] = "whole" THEN "installed" ELSE "missing"]
    /\ act = [m \in Models |-> NoAction] /\ last = [m \in Models |-> NoView] /\ acts = 0
    /\ rt = NoRuntime
    /\ pref \in Prefs
    /\ active \in {{}, Tts \cup {IF pref = NoModel THEN Default ELSE pref}}
    /\ pref = "bad" \/ ~embedded => active = {}
    /\ \A m \in active : disk[m] = "whole"
    /\ reread = Resting /\ quitting = FALSE /\ asked = {}

Running == {m \in Models : act[m] # NoAction}

\* sttChoiceState: the model in force, none when the file cannot be read.
Selected == IF pref = NoModel THEN Default ELSE IF pref = "bad" THEN NoModel ELSE pref

\* protectedModelIds
Protected == active \cup Tts \cup {IF Selected = NoModel THEN Default ELSE Selected}

Busy == rt.at # "no" \/ Running # {}

\* nativeModelInstallationView
View(m) == IF m \in Running THEN Over(act[m], act[m].at) ELSE last[m]

\* nativeModelOverview, one model.
Entry(m) ==
    LET state == IF m \in active THEN "active" ELSE states[m] IN
    [state |-> state,
     canRemove |-> state = "installed" /\ m \notin Protected /\ ~Busy,
     selected |-> m = Selected, action |-> View(m)]

Overview == [m \in Models |-> Entry(m)]

---------------------------------------------------------------------------
(* Installations.                                                          *)

UserActs == acts < MaxActs /\ acts' = acts + 1

\* requestInstallation('model') takes it up; otherwise it throws.
Accepts(m) == ~quitting /\ rt.at = "no" /\ m \notin Running

Begin(m) ==
    /\ act' = [act EXCEPT ![m] =
                 [id |-> acts', at |-> "downloading", cancelled |-> FALSE, committed |-> FALSE]]
    /\ last' = [last EXCEPT ![m] = NoView]

\* The rename of the metadata: a cancellation comes before it or too late.
Commit(m) ==
    /\ m \in Running /\ ~act[m].committed /\ ~act[m].cancelled
    /\ act' = [act EXCEPT ![m].committed = TRUE]
    /\ disk' = [disk EXCEPT ![m] = "whole"]
    /\ UNCHANGED <<embedded, states, last, acts, rt, pref, active, reread, quitting, asked>>

\* A slip: the newer truth does not stop a refresh that read the older one.
RefreshGoesOn == reread

\* The serial of refreshNativeModelStates is raised: a refresh under way is void.
RefreshIsVoid == Resting

\* A slip: a cancelled action stays in the map.
GoneUnlessCancelled(m) == IF act[m].cancelled THEN act ELSE [act EXCEPT ![m] = NoAction]

\* The finally of runModelInstallation.
Gone(m) == [act EXCEPT ![m] = NoAction]

\* runModelInstallation: a committed result remains true even when it was
\* cancelled after the commit.
Returns(m) ==
    /\ act[m].committed /\ act' = Gone(m)
    /\ last' = [last EXCEPT ![m] = Over(act[m], "installed")]
    /\ states' = [states EXCEPT ![m] = "installed"]
    /\ reread' = RefreshIsVoid
    /\ UNCHANGED <<embedded, disk, acts, rt, pref, active, quitting, asked>>

\* ... and its catch.
Fails(m) ==
    /\ m \in Running /\ ~act[m].committed /\ act' = Gone(m)
    /\ last' = [last EXCEPT ![m] =
                  Over(act[m], IF act[m].cancelled THEN "cancelled" ELSE "failed")]
    /\ UNCHANGED <<embedded, disk, states, acts, rt, pref, active, reread, quitting, asked>>

\* cancelInstallation of the actions of S.
Cancelled(S) ==
    [m \in Models |-> IF m \in S \cap Running
                        THEN [act[m] EXCEPT !.at = "cancelling", !.cancelled = TRUE]
                        ELSE act[m]]

\* A slip: a cancellation takes whatever installs the model now.
NamedByModel(i) == {m \in Models : act[m].id >= i}

\* cancelNativeModelInstallAction looks for the action itself.
Named(i) == {m \in Models : act[m].id = i}

CancelAction(i) ==
    /\ asked' = asked \cup {i}
    /\ act' = IF quitting THEN act ELSE Cancelled(Named(i))

\* The native menu: install, or cancel whatever is being installed.
MenuInstall(m) ==
    /\ UserActs /\ Accepts(m) /\ Begin(m)
    /\ UNCHANGED <<embedded, disk, states, rt, pref, active, reread,
                   quitting, asked>>

MenuCancel ==
    /\ UserActs /\ Busy /\ ~quitting
    /\ IF rt.at # "no"
         THEN rt' = [rt EXCEPT !.cancelled = TRUE] /\ UNCHANGED <<act, asked>>
         ELSE /\ act' = Cancelled(Models) /\ UNCHANGED rt
              /\ asked' = asked \cup {act[m].id : m \in Running}
    /\ UNCHANGED <<embedded, disk, states, last, pref, active, reread, quitting>>

\* requestInstallation('runtime') owns its intent before the dialog is shown.
AsksAlone == rt.at = "no" /\ Running = {}

RuntimeAsk ==
    /\ UserActs /\ ~embedded /\ ~quitting /\ AsksAlone
    /\ rt' = [NoRuntime EXCEPT !.at = "asking"]
    /\ UNCHANGED <<embedded, disk, states, act, last, pref, active, reread, quitting, asked>>

\* The dialog is answered, or aborted by a cancellation; the download ends.
RuntimeAnswer(yes) ==
    /\ rt.at = "asking"
    /\ rt' = IF yes /\ ~rt.cancelled /\ ~quitting THEN [rt EXCEPT !.at = "running"] ELSE NoRuntime
    /\ UNCHANGED <<embedded, disk, states, act, last, acts, pref, active, reread, quitting, asked>>

RuntimeEnds ==
    /\ rt.at = "running" /\ rt' = NoRuntime
    /\ UNCHANGED <<embedded, disk, states, act, last, acts, pref, active, reread, quitting, asked>>

---------------------------------------------------------------------------
(* Removals and the choice.                                                *)

\* removeNativeModel throws before anything happens.
Refuses(m) == quitting \/ Busy \/ m \in Protected

\* The tree is removed at once, or not to its end; a failure re-reads the states.
Remove(m, by) ==
    \/ /\ disk' = [disk EXCEPT ![m] = "absent"]
       /\ states' = [states EXCEPT ![m] = "missing"] /\ reread' = RefreshIsVoid
    \/ /\ disk[m] # "absent"
       /\ \E d \in {"torn", disk[m]} : disk' = [disk EXCEPT ![m] = d]
       /\ reread' = [by |-> by, at |-> 1, got |-> "none"] /\ UNCHANGED states

\* status() of a model's manager: its files are all there and verified, or not.
Status(m) == IF disk[m] = "whole" THEN "installed" ELSE "missing"

\* refreshNativeModelStates: the status of a model is asked for, and stored when
\* it comes.
RefreshReads ==
    /\ reread.at # 0 /\ reread.got = "none"
    /\ reread' = [reread EXCEPT !.got = Status(Catalog[reread.at])]
    /\ UNCHANGED <<embedded, disk, states, act, last, acts, rt, pref, active, quitting, asked>>

RefreshStores ==
    /\ reread.got # "none"
    /\ reread' = IF quitting \/ reread.at = Len(Catalog) THEN Resting
                 ELSE [reread EXCEPT !.at = @ + 1, !.got = "none"]
    /\ states' = IF quitting THEN states ELSE [states EXCEPT ![Catalog[reread.at]] = reread.got]
    /\ UNCHANGED <<embedded, disk, act, last, acts, rt, pref, active, quitting, asked>>

\* selectSttModel: an explicit choice repairs an invalid file; the write is a
\* rename, or fails and leaves the file as it was.
Choose(m) == pref' \in {m, pref}

\* before-quit cancels every installation.
Quit ==
    /\ UserActs /\ ~quitting /\ quitting' = TRUE
    /\ act' = Cancelled(Models) /\ asked' = asked \cup {act[m].id : m \in Running}
    /\ rt' = IF rt.at = "no" THEN rt ELSE [rt EXCEPT !.cancelled = TRUE]
    /\ UNCHANGED <<embedded, disk, states, last, pref, active, reread>>

Ends(m) == Returns(m) \/ Fails(m)
Refresh == RefreshReads \/ RefreshStores

MainStep ==
    \/ \E m \in Models : Commit(m) \/ Ends(m) \/ MenuInstall(m)
    \/ MenuCancel \/ RuntimeAsk \/ (\E yes \in BOOLEAN : RuntimeAnswer(yes)) \/ RuntimeEnds
    \/ Refresh \/ Quit
=============================================================================
