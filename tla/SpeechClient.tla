----------------------------- MODULE SpeechClient -----------------------------
(***************************************************************************)
(* The client that owns the speech sidecar process in the packaged app       *)
(* (sidecar-client.cjs): start intents, the start and its validation, the    *)
(* one barrier every stop shares, the receipts of operations, and the        *)
(* lifetime evidence with which the lease on the voice assets is released    *)
(* (bindClientAssets in managed-asset-lease.cjs, darwin-owned-lifetime.cjs). *)
(*                                                                         *)
(* The operating system is part of the model: a leader exits when it likes   *)
(* or never, on Windows its descendants outlive it, on macOS its pipes may   *)
(* be held after it exited.  taskkill reports success only of a whole tree,  *)
(* and a macOS leader cannot fork (the sandbox profile it is launched with). *)
(***************************************************************************)
EXTENDS Naturals, FiniteSets, Sequences

CONSTANTS
    Receipts,        \* calls made through createOperation
    Legacy,          \* calls that are not
    Starts,          \* those of start() alone, which sends nothing
    MaxGenerations,  \* 32: spawns a macOS producer authorises in its life
    MaxActs          \* bound: cancels, stops and aborts

ASSUME CallsAreApart == Receipts \cap Legacy = {} /\ Starts \subseteq Legacy
ASSUME BoundsArePositive == {MaxGenerations, MaxActs} \subseteq Nat \ {0}

VARIABLES
    acts,      \* cancels, stops and aborts so far
    platform,  \* "posix", "windows" or "darwin"
    intents,   \* the start intents; the last one is startIntent
    works,     \* what each start() began; the last one is startWork
    procs,     \* the processes spawned
    process,   \* client.process
    stop,      \* stopPromise: what the barrier waits for
    failed,    \* terminationFailure
    calls,     \* each call, and its receipt
    history,   \* the asset lifetime: records, attempts, unknown, authorisations
    lease      \* the binding of the assets to the client

vars == <<acts, platform, intents, works, procs, process, stop, failed, calls, history, lease>>

None == 0
Calls == Receipts \cup Legacy
Platforms == {"posix", "windows", "darwin"}
Now == Len(intents)
NewIntent == [error |-> FALSE, work |-> None, proc |-> None, conf |-> "none"]
NoStop == [on |-> FALSE, proc |-> None, work |-> None, intent |-> None, util |-> FALSE]
\* createDarwinProducer, and the history of the other platforms.
NoHistory == [records |-> {}, attempts |-> {}, unknown |-> FALSE, auths |-> 0, wasted |-> FALSE]
NewCall == [at |-> "new", intent |-> None, status |-> "none", denied |-> FALSE, to |-> None]

Init ==
    /\ acts = 0 /\ platform \in Platforms
    /\ intents = <<NewIntent>> /\ works = <<>> /\ procs = <<>>
    /\ process = None /\ stop = NoStop /\ failed = FALSE
    /\ calls = [c \in Calls |-> NewCall]
    /\ history = NoHistory
    /\ lease = [retired |-> FALSE, authorized |-> FALSE, released |-> FALSE]

----------------------------------------------------------------------------
(* What is still there                                                        *)

Over(w) == w # None => works[w].at = "over"
Starting == works # <<>> /\ ~Over(Len(works)) /\ ~works[Len(works)].cancelled
Preparing == \E w \in DOMAIN works : ~Over(w)

\* A macOS group is closed once exit, reaping and drained pipes were observed, or
\* the failed spawn was; on the other platforms the exit is all there is.
Closed(p) == procs[p].at \in {"drained", "nospawn"}
Gone(p) == p # None => IF platform = "darwin" THEN Closed(p) ELSE procs[p].at # "up"
\* A slip: the exit of the leader is enough on Windows too.
TerminatedAtExit(p) ==
    IF platform = "darwin" /\ p = None THEN \A q \in DOMAIN procs : Closed(q) ELSE Gone(p)
Terminated(p) ==
    CASE platform = "darwin" /\ p = None -> \A q \in DOMAIN procs : Closed(q)
      [] platform = "windows" -> Gone(p) /\ ~stop.util
      [] OTHER -> Gone(p)

\* The evidence a lease is released with, and that has to be sound at every spawn.
Fault == platform = "darwin" /\ \E p \in DOMAIN procs : ~procs[p].clean
Evidence == ~history.unknown /\ ~Fault
\* A slip: a record lasts until the leader exits.
UnresolvedUntilExit ==
    IF platform = "darwin" THEN history.wasted \/ \E p \in DOMAIN procs : ~Closed(p)
    ELSE \E p \in history.records : procs[p].at = "up"
Unresolved ==
    IF platform = "darwin" THEN history.wasted \/ \E p \in DOMAIN procs : ~Closed(p)
    ELSE history.records # {}

----------------------------------------------------------------------------
(* Calls                                                                      *)

Owned(c) == c \in Receipts /\ calls[c].status \notin {"none", "completed", "confirmed"}
Used(c) == calls[c].at # "made"

\* _checkOperation: the receipt is of this intent, and of this process if any.
Permitted(c) ==
    c \in Receipts =>
        /\ ~calls[c].denied /\ calls[c].intent = Now /\ ~failed
        /\ process # None =>
              intents[Now].proc = process \/ (stop.on /\ intents[Now].proc = None)

Ends(cs, why) ==
    [c \in Calls |-> IF c \notin cs THEN calls[c]
        ELSE [calls[c] EXCEPT !.at = "over", !.denied = @ \/ (why = "denied")]]

\* start(): calls that may go on join the start under way, or one of them begins it.
Begins(cs, cl) ==
    /\ calls' = [c \in Calls |-> IF c \in cs THEN [cl[c] EXCEPT !.at = "starting"] ELSE cl[c]]
    /\ IF Starting \/ cs = {} THEN UNCHANGED <<works, intents>>
       ELSE /\ works' = Append(works, [at |-> "validating", intent |-> Now, cancelled |-> FALSE])
            /\ intents' = [intents EXCEPT ![Now].work = Len(works) + 1]

\* createOperation fixes the receipt to the intent of now.
Create(r) ==
    /\ calls[r].at = "new"
    /\ calls' = [calls EXCEPT ![r] = [NewCall EXCEPT !.at = "made", !.intent = Now, !.status = "unused"]]
    /\ UNCHANGED <<acts, platform, intents, works, procs, process, stop, failed, history, lease>>

Sends(c, p) == [calls[c] EXCEPT !.at = IF c \in Starts THEN "over" ELSE "sent", !.to = p,
                                !.status = IF c \in Receipts THEN "running" ELSE @]

\* request(): behind the stop under way, refused, with the start, or sent.
Request(c) ==
    /\ calls[c].at = (IF c \in Receipts THEN "made" ELSE "new") /\ ~calls[c].denied
    /\ UNCHANGED <<acts, platform, procs, process, stop, failed, history, lease>>
    /\ LET used == [calls EXCEPT ![c].status = IF c \in Receipts /\ @ = "unused" THEN "starting" ELSE @,
                                 ![c].intent = IF c \in Receipts THEN @ ELSE Now]
       IN \/ /\ Permitted(c) /\ stop.on
             /\ calls' = [used EXCEPT ![c].at = "behind"]
             /\ UNCHANGED <<works, intents>>
          \/ /\ Permitted(c) /\ ~stop.on /\ ~failed /\ (Starting \/ process = None)
             /\ Begins({c}, used)
          \/ /\ Permitted(c) /\ ~stop.on /\ ~failed /\ ~Starting /\ process # None
             /\ calls' = IF procs[process].ready /\ procs[process].open
                         THEN [used EXCEPT ![c] = [Sends(c, process) EXCEPT !.intent = used[c].intent]]
                         ELSE [used EXCEPT ![c].at = "over"]
             /\ UNCHANGED <<works, intents>>
          \/ /\ ~Permitted(c) \/ (~stop.on /\ failed)
             /\ calls' = [used EXCEPT ![c].at = "over", ![c].denied = TRUE]
             /\ UNCHANGED <<works, intents>>

\* The answer of the process the call was sent to.
Answer(c) ==
    /\ calls[c].at = "sent" /\ calls[c].to = process
    /\ calls' = [calls EXCEPT ![c].at = "over",
                              ![c].status = IF c \in Receipts THEN "completed" ELSE @]
    /\ UNCHANGED <<acts, platform, intents, works, procs, process, stop, failed, history, lease>>

----------------------------------------------------------------------------
(* The start                                                                  *)

Waiting(w) == IF works[w].cancelled THEN {} ELSE {c \in Calls : calls[c].at = "starting"}

Fails(w) ==
    /\ works' = [works EXCEPT ![w].at = "over"]
    /\ calls' = Ends(Waiting(w), "failed")

\* A leader that runs, or one that could not be spawned; on Windows with descendants.
Launched(i, up) ==
    [at |-> IF up THEN "up" ELSE "nospawn", intent |-> i, ready |-> FALSE, open |-> TRUE,
     clean |-> up, tree |-> up /\ platform = "windows"]

\* spawn(): the process is the client's, and owed until its end is known.
Spawns(w, up) ==
    LET i == works[w].intent
        p == Len(procs) + 1
    IN /\ procs' = Append(procs, Launched(i, up))
       /\ IF up
          THEN /\ process' = p
               /\ works' = [works EXCEPT ![w].at = "starting"]
               /\ intents' = [intents EXCEPT ![i].proc = p]
               /\ history' = IF platform = "darwin" THEN [history EXCEPT !.auths = @ + 1]
                             ELSE [history EXCEPT !.records = @ \cup {p}]
               /\ UNCHANGED calls
          ELSE /\ Fails(w)
               /\ intents' = Append([intents EXCEPT ![i].proc = p, ![i].error = TRUE], NewIntent)
               /\ history' = [history EXCEPT !.auths = IF platform = "darwin" THEN @ + 1 ELSE @]
               /\ UNCHANGED process

\* authorizeDarwinDispatch: a producer authorises so many spawns in its life.
Authorisable == platform = "darwin" => history.auths < MaxGenerations

\* The binding's beforeSpawn, and its check at the launch, let this spawn pass.
Authorised == ~lease.retired /\ Evidence /\ Authorisable
MaySpawn == platform = "darwin" => \A p \in DOMAIN procs : Closed(p)

\* beforeSpawn ends, and with it the decision whether a process is spawned.
Validated(w) ==
    /\ works[w].at = "validating"
    /\ UNCHANGED <<acts, platform, stop, failed>>
    /\ \/ /\ Fails(w)                          \* the inventory, or the gate of the starter
          /\ UNCHANGED <<intents, procs, process, history, lease>>
       \/ /\ ~Authorised /\ Fails(w)
          /\ UNCHANGED <<intents, procs, process, history, lease>>
       \/ /\ Authorised
          /\ lease' = [lease EXCEPT !.authorized = TRUE]
          /\ \/ /\ works[w].cancelled \/ ~MaySpawn
                /\ Fails(w)
                /\ history' = IF platform # "darwin" THEN history
                              ELSE [history EXCEPT !.auths = @ + 1, !.wasted = TRUE]
                /\ UNCHANGED <<intents, procs, process>>
             \/ /\ ~works[w].cancelled /\ MaySpawn
                /\ \E up \in BOOLEAN : Spawns(w, up)

\* The process announces itself: what waited for it is sent, each through its gate.
Ready ==
    /\ process # None /\ procs[process].at = "up" /\ ~procs[process].ready
    /\ Starting /\ works[Len(works)].at = "starting"
    /\ procs' = [procs EXCEPT ![process].ready = TRUE]
    /\ works' = [works EXCEPT ![Len(works)].at = "over"]
    /\ calls' = [c \in Calls |-> IF calls[c].at # "starting" THEN calls[c]
                                 ELSE IF Permitted(c) THEN Sends(c, process)
                                 ELSE [calls[c] EXCEPT !.at = "over", !.denied = TRUE]]
    /\ UNCHANGED <<acts, platform, intents, process, stop, failed, history, lease>>

----------------------------------------------------------------------------
(* The stop                                                                   *)

\* _stop(): the intent is over and so is all that waits or was sent; what is left is
\* to see the process and the preparation end, or the stop under way.
Stops(alsoOver) ==
    LET struck == {r \in Receipts : Owned(r) /\ calls[r].intent = Now}
        fresh == ~failed /\ ~stop.on
        dies == fresh /\ process # None
    IN /\ intents' = Append([intents EXCEPT ![Now].error = TRUE,
                                            ![Now].conf = IF failed THEN "bad"
                                                          ELSE IF stop.on THEN "own" ELSE "open"],
                            NewIntent)
       /\ works' = [w \in DOMAIN works |->
                      IF w # Len(works) \/ ~Starting THEN works[w]
                      ELSE [works[w] EXCEPT !.cancelled = TRUE,
                                            !.at = IF @ = "starting" THEN "over" ELSE @]]
       /\ calls' = [c \in Calls |->
                      [calls[c] EXCEPT
                         !.at = IF @ \in {"starting", "sent"} \/ c \in alsoOver
                                   \/ (c \in struck /\ @ = "behind") THEN "over" ELSE @,
                         !.status = IF c \notin struck THEN @
                                    ELSE IF failed THEN "unconfirmed" ELSE "stopping",
                         !.denied = @ \/ c \in struck]]
       /\ stop' = IF fresh THEN [on |-> TRUE, proc |-> process, work |-> Len(works), intent |-> Now,
                                 util |-> process # None /\ platform = "windows"]
                  ELSE stop
       /\ procs' = [p \in DOMAIN procs |->
                      IF dies /\ p = process /\ platform # "windows"
                      THEN [procs[p] EXCEPT !.open = FALSE] ELSE procs[p]]
       /\ history' = IF ~dies \/ platform = "darwin" THEN history
                     ELSE IF process \in history.attempts THEN [history EXCEPT !.unknown = TRUE]
                     ELSE [history EXCEPT !.attempts = @ \cup {process}]
       /\ UNCHANGED <<platform, process, failed>>

Acts == acts < MaxActs /\ acts' = acts + 1

Cancel == Acts /\ Stops({}) /\ UNCHANGED lease

\* The abort of a call without receipt cancels whatever runs.
Abort(c) == Acts /\ calls[c].at \in {"behind", "starting", "sent"} /\ Stops({c}) /\ UNCHANGED lease

StartTimeout ==
    /\ Starting /\ works[Len(works)].at = "starting"
    /\ Stops({}) /\ UNCHANGED <<acts, lease>>

RequestTimeout(c) == calls[c].at = "sent" /\ Stops({}) /\ UNCHANGED <<acts, lease>>

\* A receipt is cancelled: alone when it sent nothing, by what its own intent left
\* behind when that has ended, else with the intent if it is still the current one.
Cancels(r) ==
    /\ UNCHANGED lease
    /\ LET i == calls[r].intent
           left == intents[i].proc # None /\
                   (procs[intents[i].proc].at = "nospawn" \/
                    (platform # "windows" /\ procs[intents[i].proc].at # "up"))
       IN \/ /\ calls[r].at = "made" /\ Owned(r)
             /\ calls' = [calls EXCEPT ![r].status = "confirmed", ![r].denied = TRUE]
             /\ UNCHANGED <<intents, works, procs, stop, history, platform, process, failed>>
          \/ /\ Owned(r) /\ Used(r) /\ intents[i].error /\ intents[i].conf = "none" /\ left
             /\ intents' = [intents EXCEPT ![i].conf = "own"]
             /\ calls' = [calls EXCEPT ![r].status = "stopping", ![r].denied = TRUE, ![r].at = "over"]
             /\ UNCHANGED <<works, procs, stop, history, platform, process, failed>>
          \/ /\ Owned(r) /\ Used(r) /\ i = Now /\ Stops({r})
CancelReceipt(r) == Acts /\ Cancels(r)

\* What a receipt was drained by its own preparation is confirmed without the stop.
Confirms(i) ==
    /\ intents[i].conf = "own" /\ Over(intents[i].work)
    /\ intents' = [intents EXCEPT ![i].conf = "ok"]
    /\ calls' = [c \in Calls |-> IF Owned(c) /\ calls[c].intent = i
                                 THEN [calls[c] EXCEPT !.status = "confirmed", !.denied = TRUE]
                                 ELSE calls[c]]
    /\ UNCHANGED <<acts, platform, works, procs, process, stop, failed, history, lease>>

\* taskkill ends the tree of a leader it still finds.
KillsTree ==
    /\ stop.on /\ stop.util /\ procs[stop.proc].at = "up"
    /\ stop' = [stop EXCEPT !.util = FALSE]
    /\ procs' = [procs EXCEPT ![stop.proc].tree = FALSE]
    /\ UNCHANGED <<acts, platform, intents, works, process, failed, calls, history, lease>>

Settled(how) ==
    [c \in Calls |-> IF c \in Receipts /\ calls[c].intent = stop.intent /\ calls[c].status = "stopping"
                     THEN [calls[c] EXCEPT !.status = how] ELSE calls[c]]
Queued == {c \in Calls : calls[c].at = "behind"}
\* A start that waited is asked again whether its intent was stopped meanwhile.
GoesOn == {c \in Queued : calls[c].intent = Now /\ ~calls[c].denied}
\* A slip: only taskkill has a deadline.
OverdueOnWindows == stop.on /\ platform = "windows" /\ ~Terminated(stop.proc)
Overdue == stop.on /\ ~Terminated(stop.proc)

\* The barrier resolves: its intent is confirmed, and what waited behind it goes on.
StopEnds ==
    /\ stop.on /\ Over(stop.work) /\ Terminated(stop.proc)
    /\ stop' = NoStop
    /\ history' = [history EXCEPT !.records = @ \ {stop.proc}]
    /\ LET done == Settled("confirmed")
           cl == [c \in Calls |-> IF c \in Queued \ GoesOn THEN [done[c] EXCEPT !.at = "over"] ELSE done[c]]
           confirmed == [intents EXCEPT ![stop.intent].conf = "ok"]
       IN IF GoesOn = {} THEN calls' = cl /\ intents' = confirmed /\ UNCHANGED works
          ELSE /\ calls' = [c \in Calls |-> IF c \in GoesOn THEN [cl[c] EXCEPT !.at = "starting"] ELSE cl[c]]
               /\ works' = Append(works, [at |-> "validating", intent |-> Now, cancelled |-> FALSE])
               /\ intents' = [confirmed EXCEPT ![Now].work = Len(works) + 1]
    /\ UNCHANGED <<acts, platform, procs, process, failed, lease>>

\* Its deadline passes, or taskkill fails: on Windows the client is not used again.
StopFails ==
    /\ Overdue
    /\ stop' = NoStop
    /\ failed' = (platform = "windows")
    /\ history' = [history EXCEPT !.unknown = TRUE]
    /\ intents' = [intents EXCEPT ![stop.intent].conf = "bad"]
    /\ calls' = [c \in Calls |-> IF c \in Queued THEN [Settled("unconfirmed")[c] EXCEPT !.at = "over"]
                                 ELSE Settled("unconfirmed")[c]]
    /\ UNCHANGED <<acts, platform, works, procs, process, lease>>

----------------------------------------------------------------------------
(* The process, and the lease                                                 *)

\* An exit that no attempt of ours explains: the history is not known any more.
Noted(p) == [history EXCEPT !.unknown = @ \/ p \in history.records \ history.attempts]

\* The leader exits. Unasked, its intent is over, and on Windows a receipt of it
\* can never be confirmed: its descendants are not accounted for.
Exits(p) ==
    /\ procs[p].at = "up"
    /\ \E clean \in BOOLEAN :
          /\ platform # "darwin" => clean
          /\ procs' = [procs EXCEPT ![p].at = "exited", ![p].clean = clean]
    /\ process' = IF process = p THEN None ELSE process
    /\ LET i == procs[p].intent
           unasked == ~intents[i].error
           lost == {r \in Receipts : Owned(r) /\ Used(r) /\ calls[r].intent = i}
           unsure == unasked /\ platform = "windows" /\ lost # {}
           begun == {c \in Calls : calls[c].at = "sent" \/
                                   (calls[c].at = "starting" /\ works[Len(works)].at = "starting")}
       IN /\ failed' = (failed \/ unsure)
          /\ intents' = IF ~unasked THEN intents
                        ELSE Append([intents EXCEPT ![i].error = TRUE,
                                                    ![i].conf = IF unsure THEN "bad" ELSE @], NewIntent)
          /\ works' = [v \in DOMAIN works |-> IF works[v].at = "starting" THEN [works[v] EXCEPT !.at = "over"]
                                              ELSE works[v]]
          /\ calls' = [c \in Calls |->
                         [calls[c] EXCEPT !.at = IF c \in begun THEN "over" ELSE @,
                                          !.status = IF unsure /\ c \in lost THEN "unconfirmed" ELSE @,
                                          !.denied = @ \/ (unsure /\ c \in lost)]]
    /\ history' = Noted(p)
    /\ UNCHANGED <<acts, platform, stop, lease>>

\* macOS: its pipes are read to their end and it is reaped.
Drains(p) ==
    /\ platform = "darwin" /\ procs[p].at = "exited"
    /\ procs' = [procs EXCEPT ![p].at = "drained"]
    /\ UNCHANGED <<acts, platform, intents, works, process, stop, failed, calls, history, lease>>

Retire ==
    /\ ~lease.retired
    /\ lease' = [lease EXCEPT !.retired = TRUE]
    /\ UNCHANGED <<acts, platform, intents, works, procs, process, stop, failed, calls, history>>

\* release(): only with a history that proves there is nothing left to use them.
\* A slip: what is unknown does not count.
MayReleaseOnceRetired == lease.retired /\ ~Preparing /\ ~\E p \in DOMAIN procs : procs[p].at = "up"
MayRelease ==
    /\ lease.retired /\ Evidence /\ ~Preparing /\ ~Unresolved
    /\ lease.authorized => platform # "posix"
Release ==
    /\ ~lease.released /\ MayRelease
    /\ lease' = [lease EXCEPT !.released = TRUE]
    /\ UNCHANGED <<acts, platform, intents, works, procs, process, stop, failed, calls, history>>

----------------------------------------------------------------------------

Settles == StopEnds \/ StopFails \/ \E i \in DOMAIN intents : Confirms(i)
Proceeds ==
    \/ \E w \in DOMAIN works : Validated(w)
    \/ Ready \/ StartTimeout
    \/ \E c \in Calls : Answer(c) \/ RequestTimeout(c)
System == KillsTree \/ \E p \in DOMAIN procs : Exits(p) \/ Drains(p)

Next ==
    \/ Settles \/ Proceeds \/ System \/ Cancel \/ Retire \/ Release
    \/ \E c \in Calls : Request(c)
    \/ \E c \in Legacy : Abort(c)
    \/ \E r \in Receipts : Create(r) \/ CancelReceipt(r)

Spec == Init /\ [][Next]_vars
FairSpec == Spec /\ WF_vars(Settles) /\ WF_vars(Proceeds)

----------------------------------------------------------------------------
(* Properties                                                                 *)

TypeOK ==
    /\ acts \in 0..MaxActs /\ platform \in Platforms /\ failed \in BOOLEAN
    /\ \A i \in DOMAIN intents :
          intents[i] \in [error : BOOLEAN, work : 0..Len(works), proc : 0..Len(procs),
                          conf : {"none", "open", "own", "ok", "bad"}]
    /\ \A w \in DOMAIN works :
          works[w] \in [at : {"validating", "starting", "over"}, intent : 1..Now, cancelled : BOOLEAN]
    /\ \A p \in DOMAIN procs :
          procs[p] \in [at : {"up", "exited", "drained", "nospawn"}, intent : 1..Now, ready : BOOLEAN,
                        open : BOOLEAN, clean : BOOLEAN, tree : BOOLEAN]
    /\ process \in 0..Len(procs)
    /\ stop \in [on : BOOLEAN, proc : 0..Len(procs), work : 0..Len(works), intent : 0..Now, util : BOOLEAN]
    /\ calls \in [Calls -> [at : {"new", "made", "behind", "starting", "sent", "over"}, intent : 0..Now,
                            status : {"none", "unused", "starting", "running", "completed", "stopping",
                                      "confirmed", "unconfirmed"},
                            denied : BOOLEAN, to : 0..Len(procs)]]
    /\ history \in [records : SUBSET DOMAIN procs, attempts : SUBSET DOMAIN procs, unknown : BOOLEAN,
                    auths : 0..MaxGenerations, wasted : BOOLEAN]
    /\ lease \in [retired : BOOLEAN, authorized : BOOLEAN, released : BOOLEAN]

Alive(p) == procs[p].at = "up" \/ procs[p].tree

\* A receipt that was used is only confirmed when the process of its intent is gone,
\* with its descendants, and the preparation it began is over (_stop, joined stops
\* and _cancelOperation alike).
ConfirmedIsTrue ==
    \A r \in Receipts : calls[r].status = "confirmed" /\ calls[r].at # "made" =>
        LET i == calls[r].intent IN
        /\ Over(intents[i].work)
        /\ intents[i].proc # None => ~Alive(intents[i].proc)

\* The assets are released when nothing uses them, and nothing does from then on: no
\* process, no descendant of one, no pipe of one (bindClientAssets, release).
ReleasedIsUnused ==
    lease.released => \A p \in DOMAIN procs : Gone(p) /\ ~Alive(p)

\* Every call and every stop comes to an end, whatever the process does.
Pending ==
    \/ stop.on
    \/ \E c \in Calls : calls[c].at \in {"behind", "starting", "sent"}
    \/ \E i \in DOMAIN intents : intents[i].conf \in {"open", "own"}
EverythingSettles == []<>~Pending
=============================================================================
