-------------------------- MODULE ModelSettingsProofs --------------------------
(***************************************************************************)
(* What holds of the speech models and their settings for any number of      *)
(* models, panes and acts of the user.                                       *)
(***************************************************************************)
EXTENDS ModelSettings, TLAPS

Places == {"none", "downloading", "cancelling", "installed", "cancelled", "failed"}
Actions == [id : Nat, at : Places, cancelled : BOOLEAN, committed : BOOLEAN]
Views == [id : Nat, at : Places, cancelled : BOOLEAN]

Counted == acts \in Nat /\ mount \in Nat

\* The part of the state that is used, with its types.
Typed ==
    /\ disk \in [Models -> {"absent", "whole", "torn"}]
    /\ states \in [Models -> {"installed", "missing"}]
    /\ act \in [Models -> Actions] /\ last \in [Models -> Views]
    /\ reread \in [by : Nat, at : 0..Len(Catalog), got : {"none", "installed", "missing"}]
    /\ reread.got # "none" => reread.at # 0

\* A model that is whole, unless its installation has yet to return.
Missed(m) == disk[m] # "whole" \/ act[m].committed

\* What a refresh has read and not yet stored is as true as what is stored: an
\* installation that returned in between has made it void.
Remembered ==
    /\ \A m \in Models : states[m] = "missing" => Missed(m)
    /\ reread.got = "missing" => Missed(Catalog[reread.at])

\* An action is cancelled by its own name, as long as it is shown.
Aimed ==
    \A m \in Models :
        /\ act[m].cancelled => act[m].id \in asked
        /\ last[m].cancelled => last[m].id \in asked

Held == Typed /\ Remembered /\ Aimed

---------------------------------------------------------------------------
\* An entry of the catalog is a model.
LEMMA Listed == \A i \in 0..Len(Catalog) : i # 0 => Catalog[i] \in Models
  BY CatalogListsTheModels

LEMMA LenIsNat == Len(Catalog) \in Nat
  BY CatalogListsTheModels

\* What the three ways to change an action have in common.
LEMMA BeginHolds ==
    ASSUME Held, acts' \in Nat, NEW m \in Models, m \notin Running, Begin(m),
           UNCHANGED <<disk, states, reread, asked>>
    PROVE  Held'
<1>1. act[m].committed = FALSE
  BY DEF Running, NoAction
<1> DEFINE b == [id |-> acts', at |-> "downloading", cancelled |-> FALSE, committed |-> FALSE]
<1>a. act' = [act EXCEPT ![m] = b] /\ last' = [last EXCEPT ![m] = NoView]
  BY DEF Begin
<1>b. b \in Actions /\ NoView \in Views
  BY DEF Actions, Views, Places, NoView
<1>2. Typed'
  <2>1. act' \in [Models -> Actions] /\ last' \in [Models -> Views]
    BY <1>a, <1>b DEF Held, Typed
  <2> QED BY <2>1 DEF Held, Typed
<1>3. \A n \in Models : act'[n].committed = act[n].committed
  BY <1>1, <1>a DEF Held, Typed
<1>4. Remembered'
  BY <1>3, Listed DEF Held, Typed, Remembered, Missed
<1>5. Aimed'
  BY <1>a DEF Held, Typed, Aimed, NoView
<1> QED BY <1>2, <1>4, <1>5 DEF Held

LEMMA CancelHolds ==
    ASSUME Held, NEW S \in SUBSET Models, act' = Cancelled(S),
           asked \subseteq asked', \A m \in S \cap Running : act[m].id \in asked',
           UNCHANGED <<disk, states, last, reread>>
    PROVE  Held'
<1>a. ASSUME NEW n \in Models
      PROVE  /\ act'[n] \in Actions
             /\ act'[n].committed = act[n].committed /\ act'[n].id = act[n].id
  <2>1. act[n] \in Actions
    BY DEF Held, Typed
  <2>2. act'[n] = act[n] \/ act'[n] = [act[n] EXCEPT !.at = "cancelling", !.cancelled = TRUE]
    BY DEF Cancelled
  <2> QED BY <2>1, <2>2 DEF Actions, Places
<1>1. Typed'
  <2>1. act' \in [Models -> Actions]
    BY <1>a DEF Cancelled
  <2> QED BY <2>1 DEF Held, Typed
<1>2. \A n \in Models : act'[n].committed = act[n].committed /\ act'[n].id = act[n].id
  BY <1>a
<1>3. Remembered'
  BY <1>2, Listed DEF Held, Typed, Remembered, Missed
<1>4. ASSUME NEW m \in Models, act'[m].cancelled
      PROVE  act'[m].id \in asked'
  <2>1. CASE m \in S \cap Running
    BY <2>1, <1>2
  <2>2. CASE m \notin S \cap Running
    BY <2>2, <1>4 DEF Cancelled, Held, Aimed, Typed
  <2> QED BY <2>1, <2>2
<1>5. Aimed'
  BY <1>4 DEF Held, Aimed
<1> QED BY <1>1, <1>3, <1>5 DEF Held

\* An action that ends leaves nothing behind but its view.
LEMMA GoneHolds ==
    ASSUME Held, NEW m \in Models, act' = Gone(m),
           NEW at \in Places, last' = [last EXCEPT ![m] = Over(act[m], at)],
           disk[m] # "whole" \/ ~act[m].committed \/ states'[m] = "installed",
           states' \in [Models -> {"installed", "missing"}],
           \A n \in Models \ {m} : states'[n] = states[n],
           reread' = Resting \/ (reread' = reread /\ ~act[m].committed),
           ~act[m].committed => states' = states,
           UNCHANGED <<disk, asked>>
    PROVE  Held'
<1>a. NoAction \in Actions /\ Over(act[m], at) \in Views
  <2>1. act[m] \in Actions
    BY DEF Held, Typed
  <2> QED BY <2>1 DEF NoAction, Over, Actions, Views, Places
<1>b. reread' \in [by : Nat, at : 0..Len(Catalog), got : {"none", "installed", "missing"}]
      /\ (reread'.got # "none" => reread'.at # 0)
  <2>1. Resting \in [by : Nat, at : 0..Len(Catalog), got : {"none", "installed", "missing"}]
    BY LenIsNat DEF Resting
  <2> QED BY <2>1 DEF Held, Typed, Resting
<1>1. Typed'
  <2>1. act' \in [Models -> Actions] /\ last' \in [Models -> Views]
    BY <1>a DEF Held, Typed, Gone
  <2> QED BY <2>1, <1>b DEF Held, Typed
<1>2. act'[m] = NoAction /\ \A n \in Models \ {m} : act'[n] = act[n]
  BY DEF Held, Typed, Gone
<1>3. \A n \in Models : states'[n] = "missing" => Missed(n)'
  BY <1>2 DEF Held, Typed, Remembered, Missed, NoAction
<1>4. reread'.got = "missing" => Missed(Catalog[reread.at])'
  <2>1. CASE reread' = Resting
    BY <2>1 DEF Resting
  <2>2. CASE reread' = reread /\ ~act[m].committed
    <3>1. \A n \in Models : Missed(n) => Missed(n)'
      BY <2>2, <1>2 DEF Missed
    <3> QED BY <2>2, <3>1, Listed DEF Held, Typed, Remembered
  <2> QED BY <2>1, <2>2
<1>5. Aimed'
  BY <1>2 DEF Held, Typed, Aimed, Over, NoAction, Actions, Views, Places
<1> QED BY <1>1, <1>3, <1>4, <1>5 DEF Held, Remembered

---------------------------------------------------------------------------
LEMMA InitHolds == Init => Held /\ Counted
<1> SUFFICES ASSUME Init PROVE Held /\ Counted
  OBVIOUS
<1>a. NoAction \in Actions /\ NoView \in Views
  BY DEF NoAction, NoView, Actions, Views, Places
<1>b. act \in [Models -> Actions] /\ last \in [Models -> Views]
  BY <1>a DEF Init, MainInit
<1>c. disk \in [Models -> {"absent", "whole", "torn"}]
  BY DEF Init, MainInit
<1>d. states \in [Models -> {"installed", "missing"}]
  BY DEF Init, MainInit
<1>1. Typed
  BY <1>b, <1>c, <1>d, LenIsNat DEF Init, MainInit, Typed, Resting
<1>2. Remembered /\ Aimed
  BY DEF Init, MainInit, Remembered, Missed, Aimed, NoAction, NoView, Resting
<1>3. Counted
  BY DEF Init, MainInit, Counted
<1> QED
  BY <1>1, <1>2, <1>3 DEF Held

LEMMA StillCounted == Counted /\ [Next]_vars => Counted'
<1> SUFFICES ASSUME Counted, [Next]_vars PROVE Counted'
  OBVIOUS
<1>1. acts' \in {acts, acts + 1}
  BY DEF Next, vars, mainVars, viewVars, MainStep, Ends, Commit, Returns, Fails, MenuInstall,
     MenuCancel, UserActs, RuntimeAsk, RuntimeAnswer, RuntimeEnds, Refresh, RefreshReads,
     RefreshStores, Quit, Answers, InstallAnswered, CancelAnswered, SelectAnswered,
     RemoveAnswered, Delivered, Poll, Clicks, ClickInstall, ClickCancel, ClickSelect,
     ClickRemove, Mount, Dispose, Reload
<1>2. mount' = mount \/ mount' = 0 \/ mount' = acts' + 1
  BY DEF Next, vars, mainVars, viewVars, MainStep, Answers, InstallAnswered, CancelAnswered,
     SelectAnswered, RemoveAnswered, Delivered, Poll, Clicks, ClickInstall, ClickCancel,
     ClickSelect, ClickRemove, Mount, Dispose, Reload
<1>3. acts' \in Nat
  BY <1>1 DEF Counted
<1>4. mount' \in Nat
  BY <1>2, <1>3 DEF Counted
<1> QED BY <1>3, <1>4 DEF Counted

---------------------------------------------------------------------------
\* One case per action that reaches the state of Held.
LEMMA StillHeld == Held /\ Counted /\ Counted' /\ [Next]_vars => Held'
<1> SUFFICES ASSUME Held, Counted, Counted', [Next]_vars PROVE Held'
  OBVIOUS
<1> acts' \in Nat /\ mount \in Nat
  BY DEF Counted
<1>0. ASSUME UNCHANGED <<disk, states, act, last, reread, asked>> PROVE Held'
  BY <1>0 DEF Held, Typed, Remembered, Missed, Aimed
<1>1. ASSUME NEW m \in Models, Commit(m) PROVE Held'
  <2>1. act' = [act EXCEPT ![m].committed = TRUE] /\ disk' = [disk EXCEPT ![m] = "whole"]
    BY <1>1 DEF Commit
  <2>2. ASSUME NEW n \in Models
        PROVE  /\ act'[n] \in Actions /\ act'[n].id = act[n].id
               /\ act'[n].cancelled = act[n].cancelled /\ (Missed(n) => Missed(n)')
    <3>1. act[n] \in Actions
      BY DEF Held, Typed
    <3> QED BY <3>1, <2>1 DEF Held, Typed, Actions, Missed
  <2>3. act' \in [Models -> Actions] /\ disk' \in [Models -> {"absent", "whole", "torn"}]
    BY <2>1, <2>2 DEF Held, Typed
  <2>4. Typed'
    BY <1>1, <2>3 DEF Commit, Held, Typed
  <2>5. Remembered' /\ Aimed'
    BY <1>1, <2>2, Listed DEF Commit, Held, Typed, Remembered, Aimed
  <2> QED BY <2>4, <2>5 DEF Held
<1>2. ASSUME NEW m \in Models, Returns(m) PROVE Held'
  <2>1. states' \in [Models -> {"installed", "missing"}] /\ states'[m] = "installed"
        /\ \A n \in Models \ {m} : states'[n] = states[n]
    BY <1>2 DEF Returns, Held, Typed
  <2>2. act[m].committed /\ "installed" \in Places
    BY <1>2 DEF Returns, Places
  <2> QED BY <1>2, <2>1, <2>2, GoneHolds DEF Returns, RefreshIsVoid
<1>3. ASSUME NEW m \in Models, Fails(m) PROVE Held'
  <2> DEFINE at == IF act[m].cancelled THEN "cancelled" ELSE "failed"
  <2>1. at \in Places
    BY DEF Places
  <2>2. states \in [Models -> {"installed", "missing"}]
    BY DEF Held, Typed
  <2>3. act' = Gone(m) /\ last' = [last EXCEPT ![m] = Over(act[m], at)] /\ ~act[m].committed
        /\ UNCHANGED <<disk, states, reread, asked>>
    BY <1>3 DEF Fails
  <2> HIDE DEF at
  <2> QED BY <2>1, <2>2, <2>3, GoneHolds
<1>4. ASSUME NEW m \in Models, MenuInstall(m) PROVE Held'
  BY <1>4, BeginHolds DEF MenuInstall, Accepts
<1>5. CASE MenuCancel \/ Quit
  <2>1. CASE UNCHANGED <<act, asked>>
    BY <1>5, <2>1, <1>0 DEF MenuCancel, Quit
  <2>2. CASE act' = Cancelled(Models) /\ asked' = asked \cup {act[m].id : m \in Running}
    <3>1. asked \subseteq asked' /\ \A m \in Models \cap Running : act[m].id \in asked'
      BY <2>2 DEF Running
    <3> QED BY <1>5, <2>2, <3>1, CancelHolds DEF MenuCancel, Quit
  <2> QED BY <1>5, <2>1, <2>2 DEF MenuCancel, Quit
<1>6. CASE Refresh
  <2>1. CASE RefreshReads
    <3>1. Catalog[reread.at] \in Models /\ reread.at \in 0..Len(Catalog)
      BY <2>1, Listed DEF RefreshReads, Held, Typed
    <3>2. /\ reread' = [by |-> reread.by, at |-> reread.at, got |-> Status(Catalog[reread.at])]
      BY <2>1 DEF RefreshReads, Held, Typed
    <3>3. Typed'
      BY <2>1, <3>2 DEF RefreshReads, Status, Held, Typed
    <3>4. Remembered' /\ Aimed'
      BY <2>1, <3>1, <3>2 DEF RefreshReads, Status, Held, Typed, Remembered, Missed, Aimed
    <3> QED BY <3>3, <3>4 DEF Held
  <2>2. CASE RefreshStores
    <3> DEFINE n == Catalog[reread.at]
    <3>1. n \in Models /\ reread.got \in {"installed", "missing"}
          /\ (reread.got = "missing" => Missed(n))
      BY <2>2, Listed DEF RefreshStores, Held, Typed, Remembered
    <3>2. states' = states \/ states' = [states EXCEPT ![n] = reread.got]
      BY <2>2 DEF RefreshStores
    <3>3. reread' = Resting \/ reread' = [by |-> reread.by, at |-> reread.at + 1, got |-> "none"]
      BY <2>2 DEF RefreshStores, Held, Typed
    <3>4. Resting \in [by : Nat, at : 0..Len(Catalog), got : {"none", "installed", "missing"}]
      BY LenIsNat DEF Resting
    <3>5. reread.at # Len(Catalog) \/ reread' = Resting
      BY <2>2 DEF RefreshStores
    <3>6. reread' \in [by : Nat, at : 0..Len(Catalog), got : {"none", "installed", "missing"}]
          /\ reread'.got = "none"
      BY <3>3, <3>4, <3>5, LenIsNat DEF Held, Typed, Resting
    <3>7. Typed'
      BY <2>2, <3>1, <3>2, <3>6 DEF RefreshStores, Held, Typed
    <3>8. Remembered' /\ Aimed'
      BY <2>2, <3>1, <3>2, <3>6 DEF RefreshStores, Held, Typed, Remembered, Missed, Aimed
    <3> QED BY <3>7, <3>8 DEF Held
  <2> QED BY <1>6, <2>1, <2>2 DEF Refresh
<1>7. ASSUME NEW m \in Models, ClickInstall(m) PROVE Held'
  <2>1. CASE Accepts(m)
    BY <1>7, <2>1, BeginHolds DEF ClickInstall, Accepts
  <2>2. CASE ~Accepts(m)
    BY <1>7, <2>2, <1>0 DEF ClickInstall
  <2> QED BY <2>1, <2>2
<1>8. ASSUME NEW m \in Models, ClickCancel(m) PROVE Held'
  <2> DEFINE i == seen[m].action.id
  <2>1. asked' = asked \cup {i} /\ act' = (IF quitting THEN act ELSE Cancelled(Named(i)))
        /\ UNCHANGED <<disk, states, last, reread>>
    BY <1>8 DEF ClickCancel, CancelAction
  <2>2. Named(i) \in SUBSET Models /\ \A n \in Named(i) : act[n].id = i
    BY DEF Named
  <2> HIDE DEF i
  <2>3. CASE quitting
    BY <2>1, <2>3 DEF Held, Typed, Remembered, Missed, Aimed
  <2>4. CASE ~quitting
    BY <2>1, <2>2, <2>4, CancelHolds
  <2> QED BY <2>3, <2>4
<1>9. ASSUME NEW m \in Models, ClickRemove(m) PROVE Held'
  <2>1. CASE Refuses(m)
    BY <1>9, <2>1, <1>0 DEF ClickRemove
  <2>2. CASE ~Refuses(m)
    <3>0. Remove(m, mount) /\ UNCHANGED <<act, last, asked>>
      BY <1>9, <2>2 DEF ClickRemove
    <3>1. disk' \in [Models -> {"absent", "whole", "torn"}]
          /\ \A n \in Models : Missed(n) => Missed(n)'
      BY <3>0 DEF Remove, Held, Typed, Missed
    <3>2. states' = states \/ (states' = [states EXCEPT ![m] = "missing"] /\ Missed(m)')
      BY <3>0 DEF Remove, Held, Typed, Missed
    <3>3. reread' \in {Resting, [by |-> mount, at |-> 1, got |-> "none"]}
      BY <3>0 DEF Remove, RefreshIsVoid
    <3>4. 1 \in 0..Len(Catalog)
      BY CatalogListsTheModels
    <3>5. reread' \in [by : Nat, at : 0..Len(Catalog), got : {"none", "installed", "missing"}]
          /\ reread'.got = "none"
      BY <3>3, <3>4, LenIsNat DEF Resting
    <3>6. Typed'
      BY <3>0, <3>1, <3>2, <3>5 DEF Held, Typed
    <3>7. Remembered' /\ Aimed'
      BY <3>0, <3>1, <3>2, <3>5 DEF Held, Typed, Remembered, Aimed
    <3> QED BY <3>6, <3>7 DEF Held
  <2> QED BY <2>1, <2>2
<1>10. ASSUME Answers \/ Poll \/ Reload \/ Mount \/ Dispose \/ (\E r \in reads : Delivered(r))
              \/ (\E m \in Models : ClickSelect(m)) \/ RuntimeAsk \/ RuntimeEnds
              \/ (\E yes \in BOOLEAN : RuntimeAnswer(yes)) \/ UNCHANGED vars
       PROVE  Held'
  <2>1. UNCHANGED <<disk, states, act, last, reread, asked>>
    BY <1>10 DEF Answers, InstallAnswered, CancelAnswered, SelectAnswered, RemoveAnswered, Poll,
       Reload, Mount, Dispose, Delivered, ClickSelect, RuntimeAsk, RuntimeEnds, RuntimeAnswer,
       vars, mainVars, viewVars
  <2> QED BY <2>1, <1>0
<1> QED
  BY <1>1, <1>2, <1>3, <1>4, <1>5, <1>6, <1>7, <1>8, <1>9, <1>10
     DEF Next, MainStep, Ends, Clicks

\* Everything above, of every behaviour.
LEMMA AlwaysHeld == Spec => [](Held /\ Counted)
<1>1. Held /\ Counted /\ [Next]_vars => (Held /\ Counted)'
  BY StillHeld, StillCounted
<1> QED BY InitHolds, <1>1, PTL DEF Spec

\* A model that is whole on the disk is never shown as missing once its installation
\* has returned, whatever refresh was under way (runModelInstallation).
THEOREM NeverForgotten == Spec => []NeverForgets
<1>1. Held /\ Counted => NeverForgets
  BY DEF Held, Remembered, Missed, NeverForgets
<1> QED BY AlwaysHeld, <1>1, PTL

\* A cancellation never takes an action that nobody asked to cancel: not the next
\* one of the same model, nor one of another model (cancelNativeModelInstallAction).
THEOREM OnlyItsAction == Spec => []CancelHitsItsAction
<1>1. Held /\ Counted => CancelHitsItsAction
  BY DEF Held, Aimed, CancelHitsItsAction
<1> QED BY AlwaysHeld, <1>1, PTL

---------------------------------------------------------------------------
(* The order of what the pane shows.                                       *)

\* What may be shown of a model after a: another action only when it is later, and
\* an action that is over stays as it ended.
Follows(a, b) == b.id >= a.id /\ (b.id = a.id /\ a.at \notin ActivePhases => b.at = a.at)

\* Names grow, and what runs is shown as running.
Dated ==
    \A m \in Models :
        /\ act[m].id <= acts /\ last[m].id <= acts
        /\ act[m] = NoAction \/ act[m].at \in {"downloading", "cancelling"}

\* An overview is never ahead of Main.
Drawn(v) == \A m \in Models : v[m].action \in Views /\ Follows(v[m].action, View(m))

\* One read owns the view, and its overview was drawn after the one that is shown:
\* a read that was overtaken carries none.
Ordered ==
    /\ seen # <<>> => Drawn(seen)
    /\ \A r \in reads :
        /\ r = [for |-> r.for, newest |-> r.newest, got |-> r.got]
        /\ r.got # <<>> => Drawn(r.got)
        /\ r.newest /\ r.got # <<>> /\ seen # <<>> =>
             \A m \in Models : Follows(seen[m].action, r.got[m].action)
    /\ \A r, s \in reads : r.newest /\ s.newest => r = s

\* The view stays as it is, or the pane is closed or opened anew.
Unread == seen' = <<>> \/ seen' = seen

LEMMA FollowsIsOrder ==
    /\ \A a \in Views : Follows(a, a)
    /\ \A a, b, c \in Views : Follows(a, b) /\ Follows(b, c) => Follows(a, c)
BY DEF Follows, Views

\* What Main shows of a model.
LEMMA ViewIs ==
    ASSUME Held, NEW m \in Models
    PROVE  /\ View(m) \in Views
           /\ act[m] = NoAction => View(m) = last[m]
           /\ act[m] # NoAction => View(m) = Over(act[m], act[m].at)
BY DEF Held, Typed, View, Running, Over, Actions, Views

\* The state of the actions alone decides what is shown.
LEMMA ViewStays ==
    ASSUME UNCHANGED <<act, last>>, NEW m \in Models
    PROVE  View(m)' = View(m)
BY DEF View, Running, Over

\* One step of Main moves each view forward, whichever model it concerns.
LEMMA ViewAdvances ==
    ASSUME Held, Held', NEW m \in Models,
           act[m] = NoAction \/ act[m].at \in {"downloading", "cancelling"},
           \/ act'[m] = act[m] /\ last'[m] = last[m]
           \/ /\ act[m] # NoAction /\ act'[m] # NoAction /\ act'[m].id = act[m].id
           \/ /\ act[m] # NoAction /\ act'[m] = NoAction /\ last'[m].id = act[m].id
           \/ /\ act[m] = NoAction /\ act'[m].id > last[m].id
    PROVE  Follows(View(m), View(m)')
<1>1. act[m] \in Actions /\ last[m] \in Views /\ act'[m] \in Actions /\ last'[m] \in Views
  BY DEF Held, Typed
<1>2. View(m)' = IF act'[m] = NoAction THEN last'[m] ELSE Over(act'[m], act'[m].at)
  BY DEF View, Running, Over
<1>3. View(m) = IF act[m] = NoAction THEN last[m] ELSE Over(act[m], act[m].at)
  BY DEF View, Running, Over
<1>4. CASE act'[m] = act[m] /\ last'[m] = last[m]
  BY <1>1, <1>2, <1>3, <1>4 DEF Follows, Over, Actions, Views
<1>5. CASE act[m] # NoAction /\ act'[m] # NoAction /\ act'[m].id = act[m].id
  BY <1>1, <1>2, <1>3, <1>5 DEF Follows, Over, Actions, Views, ActivePhases
<1>6. CASE act[m] # NoAction /\ act'[m] = NoAction /\ last'[m].id = act[m].id
  BY <1>1, <1>2, <1>3, <1>6 DEF Follows, Over, Actions, Views, ActivePhases
<1>7. CASE act[m] = NoAction /\ act'[m].id > last[m].id
  <2>1. act'[m] # NoAction
    BY <1>1, <1>7 DEF NoAction, Actions, Views
  <2> QED BY <1>1, <1>2, <1>3, <1>7, <2>1 DEF Follows, Over, Actions, Views
<1> QED BY <1>4, <1>5, <1>6, <1>7

\* The ways Main changes an action; the others leave the actions alone.
Moved ==
    \/ UNCHANGED <<act, last>>
    \/ \E m \in Models :
         \/ Begin(m) /\ m \notin Running /\ acts' = acts + 1
         \/ /\ m \in Running /\ UNCHANGED last
            /\ act' = [act EXCEPT ![m].committed = TRUE]
         \/ /\ m \in Running /\ act' = Gone(m)
            /\ \E at \in Places : last' = [last EXCEPT ![m] = Over(act[m], at)]
    \/ \E S \in SUBSET Models : act' = Cancelled(S) /\ UNCHANGED last

LEMMA ActsGrow ==
    ASSUME Counted, [Next]_vars
    PROVE  acts' >= acts
<1>1. acts' \in {acts, acts + 1}
  BY DEF Next, vars, mainVars, viewVars, MainStep, Ends, Commit, Returns, Fails, MenuInstall,
     MenuCancel, UserActs, RuntimeAsk, RuntimeAnswer, RuntimeEnds, Refresh, RefreshReads,
     RefreshStores, Quit, Answers, InstallAnswered, CancelAnswered, SelectAnswered,
     RemoveAnswered, Delivered, Poll, Clicks, ClickInstall, ClickCancel, ClickSelect,
     ClickRemove, Mount, Dispose, Reload
<1> QED BY <1>1 DEF Counted

\* Every step is one of those.
LEMMA NextMoves ==
    ASSUME Held, Counted, [Next]_vars
    PROVE  Moved
<1>0. ASSUME NEW m \in Models, act[m].committed PROVE m \in Running
  BY <1>0 DEF Running, NoAction
<1>1. ASSUME NEW m \in Models, Commit(m) PROVE Moved
  BY <1>1 DEF Commit, Moved
<1>2. ASSUME NEW m \in Models, Returns(m) PROVE Moved
  <2>1. "installed" \in Places
    BY DEF Places
  <2> QED BY <1>0, <1>2, <2>1 DEF Returns, Moved
<1>3. ASSUME NEW m \in Models, Fails(m) PROVE Moved
  <2>1. (IF act[m].cancelled THEN "cancelled" ELSE "failed") \in Places
    BY DEF Places
  <2> QED BY <1>3, <2>1 DEF Fails, Moved
<1>4. ASSUME NEW m \in Models, MenuInstall(m) \/ ClickInstall(m) PROVE Moved
  <2>1. UserActs /\ (UNCHANGED <<act, last>> \/ (Accepts(m) /\ Begin(m)))
    BY <1>4 DEF MenuInstall, ClickInstall
  <2> QED BY <2>1 DEF UserActs, Accepts, Moved
<1>5. CASE MenuCancel \/ Quit
  <2>1. UNCHANGED last /\ (act' = act \/ act' = Cancelled(Models))
    BY <1>5 DEF MenuCancel, Quit
  <2> QED BY <2>1 DEF Moved
<1>6. ASSUME NEW m \in Models, ClickCancel(m) PROVE Moved
  <2> DEFINE i == seen[m].action.id
  <2>1. UNCHANGED last /\ (act' = act \/ act' = Cancelled(Named(i)))
    BY <1>6 DEF ClickCancel, CancelAction
  <2>2. Named(i) \in SUBSET Models
    BY DEF Named
  <2> HIDE DEF i
  <2> QED BY <2>1, <2>2 DEF Moved
<1>7. ASSUME Answers \/ Poll \/ Reload \/ Mount \/ Dispose \/ (\E r \in reads : Delivered(r))
             \/ (\E m \in Models : ClickSelect(m) \/ ClickRemove(m)) \/ RuntimeAsk \/ RuntimeEnds
             \/ (\E yes \in BOOLEAN : RuntimeAnswer(yes)) \/ Refresh \/ UNCHANGED vars
      PROVE  Moved
  <2>1. UNCHANGED <<act, last>>
    BY <1>7 DEF Answers, InstallAnswered, CancelAnswered, SelectAnswered, RemoveAnswered, Poll,
       Reload, Mount, Dispose, Delivered, ClickSelect, ClickRemove, RuntimeAsk, RuntimeEnds,
       RuntimeAnswer, Refresh, RefreshReads, RefreshStores, vars, mainVars, viewVars
  <2> QED BY <2>1 DEF Moved
<1> QED
  BY <1>1, <1>2, <1>3, <1>4, <1>5, <1>6, <1>7 DEF Next, MainStep, Ends, Clicks

\* ... so that no view goes back, and names stay below what the user did.
LEMMA ViewsAdvance ==
    ASSUME Held, Held', Counted, Dated, [Next]_vars
    PROVE  Dated' /\ \A m \in Models : Follows(View(m), View(m)')
<1>1. Moved /\ acts' >= acts /\ acts \in Nat /\ acts' \in Nat
  BY NextMoves, ActsGrow, StillCounted DEF Counted
<1>2. ASSUME NEW m \in Models
      PROVE  /\ act'[m].id <= acts' /\ last'[m].id <= acts'
             /\ act'[m] = NoAction \/ act'[m].at \in {"downloading", "cancelling"}
             /\ Follows(View(m), View(m)')
  <2>1. /\ act[m] \in Actions /\ last[m] \in Views
        /\ act'[m] \in Actions /\ last'[m] \in Views
    BY DEF Held, Typed
  <2>2. /\ act[m].id <= acts /\ last[m].id <= acts
        /\ act[m] = NoAction \/ act[m].at \in {"downloading", "cancelling"}
    BY DEF Dated
  <2>3. CASE act'[m] = act[m] /\ last'[m] = last[m]
    BY <1>1, <2>1, <2>2, <2>3, ViewAdvances DEF Actions, Views
  <2>4. CASE act[m] = NoAction /\ acts' = acts + 1 /\ last'[m] = NoView
             /\ act'[m] = [id |-> acts', at |-> "downloading",
                           cancelled |-> FALSE, committed |-> FALSE]
    <3>1. act'[m].id > last[m].id
      BY <1>1, <2>1, <2>2, <2>4 DEF Views
    <3> QED BY <1>1, <2>1, <2>2, <2>4, <3>1, ViewAdvances DEF NoView
  <2>5. CASE /\ act[m] # NoAction /\ act'[m] # NoAction /\ act'[m].id = act[m].id
             /\ act'[m].at \in {act[m].at, "cancelling"} /\ last'[m] = last[m]
    BY <1>1, <2>1, <2>2, <2>5, ViewAdvances DEF Actions, Views
  <2>6. CASE act[m] # NoAction /\ act'[m] = NoAction /\ last'[m].id = act[m].id
    <3>1. act'[m].id <= acts'
      BY <1>1, <2>6 DEF NoAction
    <3>2. last'[m].id <= acts'
      BY <1>1, <2>1, <2>2, <2>6 DEF Actions
    <3> QED BY <2>2, <2>6, <3>1, <3>2, ViewAdvances
  <2>7. CASE UNCHANGED <<act, last>>
    BY <2>3, <2>7
  <2>8. ASSUME NEW n \in Models, Begin(n), n \notin Running, acts' = acts + 1
        PROVE  \/ act'[m] = act[m] /\ last'[m] = last[m]
               \/ /\ act[m] = NoAction /\ last'[m] = NoView
                  /\ act'[m] = [id |-> acts', at |-> "downloading",
                                cancelled |-> FALSE, committed |-> FALSE]
    <3>1. CASE m = n
      BY <2>8, <3>1 DEF Begin, Running, Held, Typed
    <3>2. CASE m # n
      BY <2>8, <3>2 DEF Begin, Held, Typed
    <3> QED BY <3>1, <3>2
  <2>9. ASSUME NEW n \in Models, n \in Running, UNCHANGED last,
               act' = [act EXCEPT ![n].committed = TRUE]
        PROVE  \/ act'[m] = act[m] /\ last'[m] = last[m]
               \/ /\ act[m] # NoAction /\ act'[m] # NoAction /\ act'[m].id = act[m].id
                  /\ act'[m].at = act[m].at /\ last'[m] = last[m]
    <3>1. CASE m = n
      BY <2>1, <2>9, <3>1 DEF Running, NoAction, Held, Typed, Actions
    <3>2. CASE m # n
      BY <2>9, <3>2 DEF Held, Typed
    <3> QED BY <3>1, <3>2
  <2>10. ASSUME NEW n \in Models, n \in Running, act' = Gone(n), NEW at \in Places,
                last' = [last EXCEPT ![n] = Over(act[n], at)]
         PROVE  \/ act'[m] = act[m] /\ last'[m] = last[m]
                \/ act[m] # NoAction /\ act'[m] = NoAction /\ last'[m].id = act[m].id
    <3>1. CASE m = n
      BY <2>10, <3>1 DEF Running, Gone, Over, Held, Typed
    <3>2. CASE m # n
      BY <2>10, <3>2 DEF Gone, Held, Typed
    <3> QED BY <3>1, <3>2
  <2>11. ASSUME NEW S \in SUBSET Models, act' = Cancelled(S), UNCHANGED last
         PROVE  \/ act'[m] = act[m] /\ last'[m] = last[m]
                \/ /\ act[m] # NoAction /\ act'[m] # NoAction /\ act'[m].id = act[m].id
                   /\ act'[m].at = "cancelling" /\ last'[m] = last[m]
    <3>1. CASE m \in S \cap Running
      <4>1. act'[m] = [act[m] EXCEPT !.at = "cancelling", !.cancelled = TRUE]
        BY <2>11, <3>1 DEF Cancelled
      <4>2. act'[m].at = "cancelling" /\ act'[m].id = act[m].id
        BY <2>1, <4>1 DEF Actions
      <4>3. act'[m] # NoAction
        BY <4>2 DEF NoAction
      <4> QED BY <2>11, <3>1, <4>2, <4>3 DEF Running
    <3>2. CASE m \notin S \cap Running
      BY <2>11, <3>2 DEF Cancelled
    <3> QED BY <3>1, <3>2
  <2> QED BY <1>1, <2>3, <2>4, <2>5, <2>6, <2>7, <2>8, <2>9, <2>10, <2>11 DEF Moved
<1> QED BY <1>2 DEF Dated

\* A view that Main's has not gone back from is still not ahead of it.
LEMMA StillDrawn ==
    ASSUME Held, Held', NEW v, Drawn(v), \A m \in Models : Follows(View(m), View(m)')
    PROVE  Drawn(v)'
<1> SUFFICES ASSUME NEW m \in Models
             PROVE  v[m].action \in Views /\ Follows(v[m].action, View(m)')
  BY DEF Drawn
<1>1. v[m].action \in Views /\ Follows(v[m].action, View(m)) /\ Follows(View(m), View(m)')
  BY DEF Drawn
<1>2. View(m) \in Views
  BY ViewIs
<1>3. View(m)' \in Views
  BY DEF Held, Typed, View, Running, Over, Actions, Views
<1> QED BY <1>1, <1>2, <1>3, FollowsIsOrder

\* An overview shows the views of its moment.
LEMMA OverviewShows == \A m \in Models : Overview[m].action = View(m)
  BY DEF Overview, Entry

LEMMA OutdatedIs ==
    ASSUME Ordered, NEW r \in Outdated(reads)
    PROVE  r = [for |-> r.for, newest |-> FALSE, got |-> <<>>]
<1>1. PICK s \in reads : r = [s EXCEPT !.newest = FALSE, !.got = <<>>]
  BY DEF Outdated
<1>2. s = [for |-> s.for, newest |-> s.newest, got |-> s.got]
  BY DEF Ordered
<1> QED BY <1>1, <1>2

\* A read that is begun owns the view, and shows what Main has by now.
LEMMA AskOrders ==
    ASSUME Held, Held', Ordered, NEW for, Ask(for), Unread,
           \A m \in Models : Follows(View(m), View(m)')
    PROVE  Ordered'
<1> DEFINE n == [for |-> for, newest |-> TRUE, got |-> IF quitting' THEN <<>> ELSE Overview']
<1>1. reads' = Outdated(reads) \cup {n}
  BY DEF Ask
<1>2. \A m \in Models : /\ View(m)' \in Views /\ Follows(View(m)', View(m)')
                        /\ Overview'[m].action = View(m)'
  <2>1. \A m \in Models : View(m)' \in Views
    BY DEF Held, Typed, View, Running, Over, Actions, Views
  <2>2. \A m \in Models : Overview'[m].action = View(m)'
    BY DEF Overview, Entry, View, Running, Over
  <2> QED BY <2>1, <2>2, FollowsIsOrder
<1>3. n = [for |-> n.for, newest |-> n.newest, got |-> n.got] /\ n.newest
  OBVIOUS
<1>4. n.got # <<>> => n.got = Overview'
  OBVIOUS
<1> HIDE DEF n
<1>5. seen' # <<>> => Drawn(seen)' /\ seen' = seen
  BY StillDrawn DEF Unread, Ordered, Drawn
<1>6. ASSUME NEW r \in reads'
      PROVE  /\ r = [for |-> r.for, newest |-> r.newest, got |-> r.got]
             /\ r.got # <<>> => Drawn(r.got)'
             /\ r.newest /\ r.got # <<>> /\ seen' # <<>> =>
                  \A m \in Models : Follows(seen'[m].action, r.got[m].action)
             /\ r.newest => r = n
  <2>1. CASE r = n
    <3>1. r.got # <<>> => Drawn(r.got)'
      BY <1>2, <1>4, <2>1 DEF Drawn
    <3>2. r.got # <<>> /\ seen' # <<>> =>
                  \A m \in Models : Follows(seen'[m].action, r.got[m].action)
      BY <1>2, <1>4, <1>5, <2>1 DEF Drawn
    <3> QED BY <1>3, <2>1, <3>1, <3>2
  <2>2. CASE r \in Outdated(reads)
    BY <2>2, OutdatedIs
  <2> QED BY <1>1, <1>6, <2>1, <2>2
<1> QED BY <1>5, <1>6 DEF Ordered

\* Anything but a read that ends or begins leaves the reads alone, or forgets them.
LEMMA RestOrders ==
    ASSUME Held, Held', Ordered, Unread, reads' \subseteq reads,
           \A m \in Models : Follows(View(m), View(m)')
    PROVE  Ordered'
<1>1. seen' # <<>> => Drawn(seen)' /\ seen' = seen
  BY StillDrawn DEF Unread, Ordered, Drawn
<1>2. ASSUME NEW r \in reads'
      PROVE  /\ r = [for |-> r.for, newest |-> r.newest, got |-> r.got]
             /\ r.got # <<>> => Drawn(r.got)'
             /\ r.newest /\ r.got # <<>> /\ seen' # <<>> =>
                  \A m \in Models : Follows(seen'[m].action, r.got[m].action)
  <2>1. /\ r = [for |-> r.for, newest |-> r.newest, got |-> r.got]
        /\ r.got # <<>> => Drawn(r.got)
        /\ r.newest /\ r.got # <<>> /\ seen # <<>> =>
             \A m \in Models : Follows(seen[m].action, r.got[m].action)
    BY DEF Ordered
  <2> QED BY <1>1, <2>1, StillDrawn
<1>3. \A r, s \in reads' : r.newest /\ s.newest => r = s
  BY DEF Ordered
<1> QED BY <1>1, <1>2, <1>3 DEF Ordered

\* What the newest read brings follows what was shown.
LEMMA ShowsOrders ==
    ASSUME Held, Held', Ordered, NEW r \in reads, Shows(r), UNCHANGED <<act, last>>
    PROVE  /\ Ordered'
           /\ seen # <<>> /\ seen' # <<>> =>
                \A m \in Models : Follows(seen[m].action, seen'[m].action)
<1>1. \A m \in Models : /\ View(m)' = View(m) /\ View(m) \in Views
                        /\ Follows(View(m), View(m)')
  BY ViewStays, ViewIs, FollowsIsOrder
<1>2. seen # <<>> => \A m \in Models : Follows(seen[m].action, seen[m].action)
  BY FollowsIsOrder DEF Ordered, Drawn
<1>3. CASE r.newest /\ r.got # <<>>
  <2>1. seen' = r.got /\ reads' = reads \ {r}
    BY <1>3 DEF Shows
  <2>2. Drawn(seen)'
    BY <1>1, <1>3, <2>1 DEF Ordered, Drawn
  <2>3. \A s \in reads' : ~s.newest
    BY <1>3, <2>1 DEF Ordered
  <2>4. ASSUME NEW s \in reads'
        PROVE  /\ s = [for |-> s.for, newest |-> s.newest, got |-> s.got]
               /\ s.got # <<>> => Drawn(s.got)'
    BY <1>1, <2>1 DEF Ordered, Drawn
  <2>5. Ordered'
    BY <2>2, <2>3, <2>4 DEF Ordered
  <2>6. seen # <<>> => \A m \in Models : Follows(seen[m].action, seen'[m].action)
    BY <1>3, <2>1 DEF Ordered
  <2> QED BY <2>5, <2>6
<1>4. CASE ~(r.newest /\ r.got # <<>>)
  <2>1. seen' = seen /\ reads' \subseteq reads
    BY <1>4 DEF Shows
  <2> QED BY <1>1, <1>2, <2>1, RestOrders DEF Unread
<1> QED BY <1>3, <1>4

\* Every step keeps the order of what is shown.
LEMMA NextOrders ==
    ASSUME Held, Held', Counted, Dated, Ordered, [Next]_vars
    PROVE  /\ Ordered'
           /\ seen # <<>> /\ seen' # <<>> =>
                \A m \in Models : Follows(seen[m].action, seen'[m].action)
<1> DEFINE Goal == /\ Ordered'
                   /\ seen # <<>> /\ seen' # <<>> =>
                        \A m \in Models : Follows(seen[m].action, seen'[m].action)
<1>0. \A m \in Models : Follows(View(m), View(m)')
  BY ViewsAdvance
<1>1. seen # <<>> => \A m \in Models : Follows(seen[m].action, seen[m].action)
  BY FollowsIsOrder DEF Ordered, Drawn
<1>2. ASSUME NEW for, Ask(for), Unread PROVE Goal
  BY <1>0, <1>1, <1>2, AskOrders DEF Unread
<1>3. ASSUME reads' \subseteq reads, Unread PROVE Goal
  BY <1>0, <1>1, <1>3, RestOrders DEF Unread
<1>4. ASSUME NEW r \in reads, Delivered(r) PROVE Goal
  <2>1. Shows(r) /\ UNCHANGED <<act, last>>
    BY <1>4 DEF Delivered, mainVars
  <2> QED BY <2>1, ShowsOrders
<1> HIDE DEF Goal
<1>5. ASSUME Answers PROVE Goal
  <2>1. Unread /\ \E for : Ask(for)
    BY <1>5 DEF Answers, InstallAnswered, CancelAnswered, SelectAnswered, RemoveAnswered, Unread
  <2> QED BY <1>2, <2>1
<1>6. ASSUME Poll \/ Reload \/ Mount PROVE Goal
  <2>1. Unread /\ \E for : Ask(for)
    BY <1>6 DEF Poll, Reload, Mount, Fresh, Unread
  <2> QED BY <1>2, <2>1
<1>7. ASSUME \/ MainStep /\ UNCHANGED viewVars
             \/ \E m \in Models : ClickInstall(m) \/ ClickCancel(m) \/ ClickSelect(m)
                                  \/ ClickRemove(m)
             \/ Dispose \/ UNCHANGED vars
      PROVE  Goal
  <2>1. reads' \subseteq reads /\ Unread
    BY <1>7 DEF ClickInstall, ClickCancel, ClickSelect, ClickRemove, Dispose, Fresh, viewVars,
       vars, Unread
  <2> QED BY <1>3, <2>1
<1>8. Goal
  BY <1>4, <1>5, <1>6, <1>7 DEF Next, Clicks
<1> QED BY <1>8 DEF Goal

LEMMA InitOrders ==
    ASSUME Init, Held
    PROVE  Dated /\ Ordered
<1>1. Dated
  BY DEF Init, MainInit, Dated, NoAction, NoView
<1>2. \A m \in Models : View(m) \in Views /\ Follows(View(m), View(m))
  BY ViewIs, FollowsIsOrder
<1>3. Drawn(Overview)
  BY <1>2, OverviewShows DEF Drawn
<1>4. seen = <<>> /\ reads \subseteq {[for |-> <<"pane">>, newest |-> TRUE, got |-> Overview]}
  BY DEF Init
<1>5. ASSUME NEW r \in reads
      PROVE  /\ r = [for |-> <<"pane">>, newest |-> TRUE, got |-> Overview]
             /\ r = [for |-> r.for, newest |-> r.newest, got |-> r.got] /\ Drawn(r.got)
  BY <1>3, <1>4
<1>6. Ordered
  BY <1>4, <1>5 DEF Ordered
<1> QED BY <1>1, <1>6

LEMMA AlwaysOrdered == Spec => [](Held /\ Counted /\ Dated /\ Ordered)
<1>1. Init => Held /\ Counted /\ Dated /\ Ordered
  BY InitHolds, InitOrders
<1>2. Held /\ Counted /\ Dated /\ Ordered /\ [Next]_vars => (Held /\ Counted /\ Dated /\ Ordered)'
  BY StillHeld, StillCounted, ViewsAdvance, NextOrders
<1> QED BY <1>1, <1>2, PTL DEF Spec

\* However overviews overtake each other, and whatever installs, cancels, removes and
\* polls overlap, the pane never shows an action that was over, or replaced, as running
\* again: an older read that comes late is not looked at (refresh, readSequence).
THEOREM PaneNeverGoesBack == Spec => ViewNeverGoesBack
<1> DEFINE Forth == seen # <<>> /\ seen' # <<>> =>
                      \A m \in Models :
                          LET a == seen[m].action  b == seen'[m].action IN
                          /\ b.id >= a.id
                          /\ b.id = a.id /\ a.at \notin ActivePhases => b.at = a.at
<1>1. ASSUME Held, Counted, Dated, Ordered, [Next]_vars PROVE Forth
  <2>1. Held'
    BY <1>1, StillHeld, StillCounted
  <2> QED BY <1>1, <2>1, NextOrders DEF Follows
<1>2. (Held /\ Counted /\ Dated /\ Ordered) /\ [Next]_vars => [Forth]_vars
  BY <1>1
<1> QED BY <1>2, AlwaysOrdered, PTL DEF Spec, ViewNeverGoesBack
=============================================================================
