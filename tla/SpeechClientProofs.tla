--------------------------- MODULE SpeechClientProofs ---------------------------
(***************************************************************************)
(* The release of the voice assets and the confirmation of receipts, for any *)
(* number of calls, cancels, stops and processes, on every platform.         *)
(***************************************************************************)
EXTENDS SpeechClient, TLAPS, SequenceTheorems

---------------------------------------------------------------------------
(* Sequences whose elements are not typed.                                 *)

IsSeq(s) == \E S : s \in Seq(S)

LEMMA SeqDomain ==
    ASSUME NEW s, IsSeq(s)
    PROVE  Len(s) \in Nat /\ DOMAIN s = 1..Len(s)
  BY LenProperties DEF IsSeq

LEMMA Mapped ==
    ASSUME NEW s, IsSeq(s), NEW t, t = [i \in DOMAIN s |-> t[i]]
    PROVE  IsSeq(t)
<1> DEFINE T == {t[i] : i \in DOMAIN s}
<1>1. t \in [1..Len(s) -> T] /\ Len(s) \in Nat
  BY SeqDomain
<1>2. t \in Seq(T)
  BY <1>1, SeqDef
<1> QED BY <1>2 DEF IsSeq

LEMMA Appended ==
    ASSUME NEW s, IsSeq(s), NEW e
    PROVE  /\ IsSeq(Append(s, e)) /\ DOMAIN Append(s, e) = 1..Len(s) + 1
           /\ \A i \in DOMAIN s : Append(s, e)[i] = s[i]
           /\ Append(s, e)[Len(s) + 1] = e
<1>1. PICK S : s \in Seq(S)
  BY DEF IsSeq
<1> DEFINE T == S \cup {e}
<1>2. s \in Seq(T) /\ e \in T
  BY <1>1, SeqMonotonic
<1>3. /\ Append(s, e) \in Seq(T) /\ Len(Append(s, e)) = Len(s) + 1
      /\ \A i \in 1..Len(s) : Append(s, e)[i] = s[i]
      /\ Append(s, e)[Len(s) + 1] = e
  BY <1>2, AppendProperties
<1>4. DOMAIN Append(s, e) = 1..Len(s) + 1 /\ DOMAIN s = 1..Len(s)
  BY <1>2, <1>3, LenProperties
<1> QED BY <1>3, <1>4 DEF IsSeq

---------------------------------------------------------------------------
(* The invariant.                                                          *)

\* The record of a process; which intent it belongs to plays no part here.
Places == {"up", "exited", "drained", "nospawn"}
Shaped(r) ==
    \E N : r \in [at : Places, intent : N, ready : BOOLEAN, open : BOOLEAN,
                  clean : BOOLEAN, tree : BOOLEAN]
StopShaped(s) ==
    \E W, I : s \in [on : BOOLEAN, proc : Nat, work : W, intent : I, util : BOOLEAN]

Histories == [records : SUBSET Nat, attempts : SUBSET Nat, unknown : BOOLEAN,
              auths : Nat, wasted : BOOLEAN]
Leases == [retired : BOOLEAN, authorized : BOOLEAN, released : BOOLEAN]

Formed ==
    /\ platform \in Platforms /\ history \in Histories /\ lease \in Leases
    /\ IsSeq(procs) /\ \A p \in DOMAIN procs : Shaped(procs[p])
    /\ process \in {None} \cup DOMAIN procs
    /\ StopShaped(stop) /\ stop.proc \in {None} \cup DOMAIN procs
    /\ stop.on /\ stop.util => stop.proc # None

\* Nothing is spawned that was not authorised, and nothing of Windows is dropped from
\* the records while it, or a descendant of it, is there.
Accounted ==
    /\ \A p \in DOMAIN procs : lease.authorized
    /\ platform # "windows" => \A p \in DOMAIN procs : ~procs[p].tree
    /\ platform = "windows" => \A p \in DOMAIN procs : p \notin history.records => ~Alive(p)

\* taskkill has reported success: the tree that is being stopped is gone.
Killed ==
    platform = "windows" /\ stop.on /\ stop.proc # None /\ ~stop.util => ~procs[stop.proc].tree

Freed == lease.released => lease.retired /\ \A p \in DOMAIN procs : Gone(p) /\ ~Alive(p)

Owed == Formed /\ Accounted /\ Killed /\ Freed

\* The lease once it is retired, alone or in the step of a stop.
Withdrawn == [lease EXCEPT !.retired = TRUE]

---------------------------------------------------------------------------
(* A process that is there may end, and one that has ended stays so.       *)

Ages(p) ==
    /\ Shaped(procs'[p])
    /\ procs[p].at # "up" => procs'[p].at # "up"
    /\ Closed(p) => Closed(p)'
    /\ procs'[p].tree => procs[p].tree

LEMMA AgesHolds ==
    ASSUME Owed, IsSeq(procs'), DOMAIN procs' = DOMAIN procs,
           \A p \in DOMAIN procs : Ages(p),
           history' \in Histories, history'.records = history.records,
           process' \in {None, process}, UNCHANGED <<platform, lease, stop>>
    PROVE  Owed'
<1>1. Formed'
  BY DEF Owed, Formed, Ages
<1>2. \A p \in DOMAIN procs : ~Alive(p) => ~Alive(p)'
  BY DEF Ages, Alive
<1>3. Accounted'
  BY <1>2 DEF Owed, Accounted, Ages
<1>4. Killed'
  BY DEF Owed, Formed, Killed, Ages
<1>5. \A p \in DOMAIN procs : Gone(p) => Gone(p)'
  BY DEF Ages, Gone
<1>6. Freed'
  BY <1>2, <1>5 DEF Owed, Freed
<1> QED BY <1>1, <1>3, <1>4, <1>6 DEF Owed

LEMMA Same ==
    ASSUME Owed, UNCHANGED <<platform, procs, process, stop, history, lease>>
    PROVE  Owed'
  BY DEF Owed, Formed, Accounted, Killed, Freed, Alive, Gone, Closed

LEMMA NoStopShaped ==
    /\ StopShaped(NoStop) /\ NoStop.proc = None /\ NoStop.on = FALSE
<1>1. NoStop \in [on : BOOLEAN, proc : Nat, work : {None}, intent : {None}, util : BOOLEAN]
  BY DEF NoStop, None
<1> QED BY <1>1 DEF StopShaped, NoStop

LEMMA InitHolds == Init => Owed
<1> SUFFICES ASSUME Init PROVE Owed
  OBVIOUS
<1>1. IsSeq(procs) /\ DOMAIN procs = {}
  <2>1. procs = <<>> /\ <<>> \in Seq({})
    BY EmptySeq DEF Init
  <2> QED BY <2>1 DEF IsSeq
<1>2. history \in Histories /\ lease \in Leases
  BY DEF Init, NoHistory, Histories, Leases
<1>3. stop = NoStop /\ process = None /\ platform \in Platforms /\ ~lease.released
  BY DEF Init
<1> QED BY <1>1, <1>2, <1>3, NoStopShaped DEF Owed, Formed, Accounted, Killed, Freed

---------------------------------------------------------------------------
(* The actions.                                                            *)

\* What becomes of the record of a process when one field of it changes.
LEMMA Changed ==
    ASSUME NEW r, Shaped(r), NEW v \in BOOLEAN, NEW w \in Places
    PROVE  /\ LET s == [r EXCEPT !.ready = v] IN Shaped(s) /\ s.at = r.at /\ s.tree = r.tree
           /\ LET s == [r EXCEPT !.at = w] IN Shaped(s) /\ s.at = w /\ s.tree = r.tree
<1>1. PICK N : r \in [at : Places, intent : N, ready : BOOLEAN, open : BOOLEAN,
                      clean : BOOLEAN, tree : BOOLEAN]
  BY DEF Shaped
<1> DEFINE R == [at : Places, intent : N, ready : BOOLEAN, open : BOOLEAN,
                 clean : BOOLEAN, tree : BOOLEAN]
<1>2. \A s \in R : Shaped(s)
  BY DEF Shaped
<1>3. LET s == [r EXCEPT !.ready = v] IN s \in R /\ s.at = r.at /\ s.tree = r.tree
  BY <1>1
<1>4. LET s == [r EXCEPT !.at = w] IN s \in R /\ s.at = w /\ s.tree = r.tree
  BY <1>1
<1> HIDE DEF R
<1> QED BY <1>2, <1>3, <1>4

\* A change of one process.
LEMMA OneProcess ==
    ASSUME Owed, NEW p \in DOMAIN procs, NEW r, Shaped(r),
           procs' = [procs EXCEPT ![p] = r],
           procs[p].at # "up" => r.at # "up",
           procs[p].at \in {"drained", "nospawn"} => r.at \in {"drained", "nospawn"},
           r.tree => procs[p].tree
    PROVE  IsSeq(procs') /\ DOMAIN procs' = DOMAIN procs /\ \A q \in DOMAIN procs : Ages(q)
<1>1. IsSeq(procs) /\ \A q \in DOMAIN procs : Shaped(procs[q])
  BY DEF Owed, Formed
<1>2. procs' = [q \in DOMAIN procs |-> procs'[q]] /\ DOMAIN procs' = DOMAIN procs
  OBVIOUS
<1>3. IsSeq(procs')
  BY <1>1, <1>2, Mapped
<1>4. \A q \in DOMAIN procs : Ages(q)
  BY <1>1 DEF Ages, Closed
<1> QED BY <1>2, <1>3, <1>4

LEMMA ReadyHolds == ASSUME Owed, Ready PROVE Owed'
<1> DEFINE r == [procs[process] EXCEPT !.ready = TRUE]
<1>1. process \in DOMAIN procs /\ Shaped(procs[process]) /\ history \in Histories
  BY DEF Owed, Formed, Ready
<1>2. Shaped(r) /\ r.at = procs[process].at /\ r.tree = procs[process].tree
  BY <1>1, Changed DEF Places
<1>3. procs' = [procs EXCEPT ![process] = r]
  BY DEF Ready
<1> HIDE DEF r
<1>4. IsSeq(procs') /\ DOMAIN procs' = DOMAIN procs /\ \A q \in DOMAIN procs : Ages(q)
  BY <1>1, <1>2, <1>3, OneProcess
<1> QED BY <1>1, <1>4, AgesHolds DEF Ready

LEMMA DrainsHolds == ASSUME Owed, NEW p \in DOMAIN procs, Drains(p) PROVE Owed'
<1> DEFINE r == [procs[p] EXCEPT !.at = "drained"]
<1>1. Shaped(procs[p]) /\ history \in Histories
  BY DEF Owed, Formed
<1>2. Shaped(r) /\ r.at = "drained" /\ r.tree = procs[p].tree
  BY <1>1, Changed DEF Places
<1>3. procs' = [procs EXCEPT ![p] = r]
  BY DEF Drains
<1> HIDE DEF r
<1>4. IsSeq(procs') /\ DOMAIN procs' = DOMAIN procs /\ \A q \in DOMAIN procs : Ages(q)
  BY <1>2, <1>3, OneProcess
<1> QED BY <1>1, <1>4, AgesHolds DEF Drains

LEMMA ExitsHolds == ASSUME Owed, NEW p \in DOMAIN procs, Exits(p) PROVE Owed'
<1>1. PICK clean \in BOOLEAN : procs' = [procs EXCEPT ![p].at = "exited", ![p].clean = clean]
  BY DEF Exits
<1> DEFINE r == [procs[p] EXCEPT !.at = "exited", !.clean = clean]
<1>2. Shaped(procs[p]) /\ history \in Histories
  BY DEF Owed, Formed
<1>3. Shaped(r) /\ r.at = "exited" /\ r.tree = procs[p].tree
  <2>1. PICK N : procs[p] \in [at : Places, intent : N, ready : BOOLEAN, open : BOOLEAN,
                               clean : BOOLEAN, tree : BOOLEAN]
    BY <1>2 DEF Shaped
  <2>2. /\ r \in [at : Places, intent : N, ready : BOOLEAN, open : BOOLEAN,
                             clean : BOOLEAN, tree : BOOLEAN]
        /\ r.at = "exited" /\ r.tree = procs[p].tree
    BY <2>1 DEF Places
  <2> QED BY <2>2 DEF Shaped
<1>4. procs' = [procs EXCEPT ![p] = r] /\ procs[p].at = "up"
  BY <1>1 DEF Exits
<1> HIDE DEF r
<1>5. IsSeq(procs') /\ DOMAIN procs' = DOMAIN procs /\ \A q \in DOMAIN procs : Ages(q)
  BY <1>3, <1>4, OneProcess
<1>6. history' \in Histories /\ history'.records = history.records
  <2>1. \A v \in BOOLEAN : LET h == [history EXCEPT !.unknown = v]
                          IN h \in Histories /\ h.records = history.records
    BY <1>2 DEF Histories
  <2>2. (history.unknown \/ p \in history.records \ history.attempts) \in BOOLEAN
    BY <1>2 DEF Histories
  <2>3. history' = [history EXCEPT !.unknown =
                      (history.unknown \/ p \in history.records \ history.attempts)]
    BY DEF Exits, Noted
  <2> QED BY <2>1, <2>2, <2>3
<1>7. process' \in {None, process} /\ UNCHANGED <<platform, lease, stop>>
  BY DEF Exits
<1> QED BY <1>5, <1>6, <1>7, AgesHolds

LEMMA KillsHolds == ASSUME Owed, KillsTree PROVE Owed'
<1> DEFINE k == stop.proc
           r == [procs[k] EXCEPT !.tree = FALSE]
<1>1. k \in DOMAIN procs /\ Shaped(procs[k])
  BY DEF Owed, Formed, KillsTree
<1>2. Shaped(r) /\ r.at = procs[k].at /\ r.tree = FALSE
  <2>1. PICK N : procs[k] \in [at : Places, intent : N, ready : BOOLEAN, open : BOOLEAN,
                               clean : BOOLEAN, tree : BOOLEAN]
    BY <1>1 DEF Shaped
  <2>2. /\ r \in [at : Places, intent : N, ready : BOOLEAN, open : BOOLEAN,
                             clean : BOOLEAN, tree : BOOLEAN]
        /\ r.at = procs[k].at /\ r.tree = FALSE
    BY <2>1
  <2> QED BY <2>2 DEF Shaped
<1>3. procs' = [procs EXCEPT ![k] = r] /\ stop' = [stop EXCEPT !.util = FALSE]
  BY DEF KillsTree
<1> HIDE DEF r
<1>4. IsSeq(procs') /\ DOMAIN procs' = DOMAIN procs /\ \A q \in DOMAIN procs : Ages(q)
  BY <1>1, <1>2, <1>3, OneProcess
<1>5. StopShaped(stop)' /\ stop'.proc = k /\ ~stop'.util
  <2>1. PICK W, I : stop \in [on : BOOLEAN, proc : Nat, work : W, intent : I, util : BOOLEAN]
    BY DEF Owed, Formed, StopShaped
  <2>2. /\ stop' \in [on : BOOLEAN, proc : Nat, work : W, intent : I, util : BOOLEAN]
        /\ stop'.proc = k /\ stop'.util = FALSE
    BY <1>3, <2>1
  <2> QED BY <2>2 DEF StopShaped
<1>6. procs'[k].tree = FALSE
  BY <1>1, <1>2, <1>3
<1>7. UNCHANGED <<platform, process, history, lease>>
  BY DEF KillsTree
<1>8. Formed'
  BY <1>1, <1>4, <1>5, <1>7 DEF Owed, Formed, Ages
<1>9. \A q \in DOMAIN procs : (Gone(q) => Gone(q)') /\ (~Alive(q) => ~Alive(q)')
  BY <1>4, <1>7 DEF Ages, Gone, Alive
<1>10. Accounted' /\ Freed'
  BY <1>4, <1>7, <1>9 DEF Owed, Accounted, Freed, Ages
<1>11. Killed'
  BY <1>5, <1>6 DEF Killed
<1> QED BY <1>8, <1>10, <1>11 DEF Owed

\* A stop closes the input of the process at most, and waits for its end.
LEMMA StopsHolds ==
    ASSUME Owed, NEW over, Stops(over), lease' \in {lease, Withdrawn} PROVE Owed'
<1> DEFINE dies == (~failed /\ ~stop.on) /\ process # None
<1>1. IsSeq(procs) /\ (\A p \in DOMAIN procs : Shaped(procs[p])) /\ history \in Histories
      /\ process \in {None} \cup DOMAIN procs
  BY DEF Owed, Formed
<1>2. DOMAIN procs = 1..Len(procs) /\ Len(procs) \in Nat /\ process \in Nat
  BY <1>1, SeqDomain DEF None
<1>3. procs' = [p \in DOMAIN procs |->
                  IF dies /\ p = process /\ platform # "windows"
                  THEN [procs[p] EXCEPT !.open = FALSE] ELSE procs[p]]
  BY DEF Stops
<1>4. DOMAIN procs' = DOMAIN procs /\ IsSeq(procs')
  <2>1. DOMAIN procs' = DOMAIN procs /\ procs' = [p \in DOMAIN procs |-> procs'[p]]
    BY <1>3
  <2> QED BY <1>1, <2>1, Mapped
<1>5. \A p \in DOMAIN procs : /\ Shaped(procs'[p]) /\ procs'[p].at = procs[p].at
                              /\ procs'[p].tree = procs[p].tree
  <2>1. TAKE p \in DOMAIN procs
  <2>2. CASE dies /\ p = process /\ platform # "windows"
    <3>1. procs'[p] = [procs[p] EXCEPT !.open = FALSE]
      BY <1>3, <2>2
    <3>2. PICK N : procs[p] \in [at : Places, intent : N, ready : BOOLEAN, open : BOOLEAN,
                                 clean : BOOLEAN, tree : BOOLEAN]
      BY <1>1 DEF Shaped
    <3>3. /\ procs'[p] \in [at : Places, intent : N, ready : BOOLEAN, open : BOOLEAN,
                             clean : BOOLEAN, tree : BOOLEAN]
          /\ procs'[p].at = procs[p].at /\ procs'[p].tree = procs[p].tree
      BY <3>1, <3>2
    <3> QED BY <3>3 DEF Shaped
  <2>3. CASE ~(dies /\ p = process /\ platform # "windows")
    BY <1>1, <1>3, <2>3
  <2> QED BY <2>2, <2>3
<1>6. /\ StopShaped(stop') /\ stop'.proc \in {None} \cup DOMAIN procs
      /\ stop'.on /\ stop'.util => stop'.proc # None
      /\ stop' = stop \/ (platform = "windows" /\ stop'.proc # None => stop'.util)
  <2>1. CASE ~failed /\ ~stop.on
    <3> DEFINE u == process # None /\ platform = "windows"
               t == [on |-> TRUE, proc |-> process, work |-> Len(works), intent |-> Now, util |-> u]
    <3>1. stop' = t
      BY <2>1 DEF Stops
    <3>2. t \in [on : BOOLEAN, proc : Nat, work : {Len(works)}, intent : {Now}, util : BOOLEAN]
      BY <1>2
    <3>3. t.proc = process /\ t.util = (process # None /\ platform = "windows")
      OBVIOUS
    <3> HIDE DEF t
    <3> QED BY <1>1, <3>1, <3>2, <3>3 DEF StopShaped
  <2>2. CASE ~(~failed /\ ~stop.on)
    BY <2>2 DEF Stops, Owed, Formed
  <2> QED BY <2>1, <2>2
<1>7. history' \in Histories /\ history'.records = history.records
  <2>1. LET h == [history EXCEPT !.unknown = TRUE] IN h \in Histories /\ h.records = history.records
    BY <1>1 DEF Histories
  <2>2. LET h == [history EXCEPT !.attempts = @ \cup {process}]
        IN h \in Histories /\ h.records = history.records
    BY <1>1, <1>2 DEF Histories
  <2>3. \/ history' = history \/ history' = [history EXCEPT !.unknown = TRUE]
        \/ history' = [history EXCEPT !.attempts = @ \cup {process}]
    BY DEF Stops
  <2> QED BY <1>1, <2>1, <2>2, <2>3
<1>8. UNCHANGED <<platform, process>>
      /\ lease' \in Leases /\ lease'.authorized = lease.authorized
      /\ lease'.released = lease.released /\ (lease.retired => lease'.retired)
  BY DEF Stops, Owed, Formed, Leases, Withdrawn
<1>9. Formed'
  BY <1>1, <1>4, <1>5, <1>6, <1>7, <1>8 DEF Owed, Formed
<1>10. \A p \in DOMAIN procs : (Gone(p) => Gone(p)') /\ (Alive(p)' <=> Alive(p))
  BY <1>5, <1>8 DEF Gone, Closed, Alive
<1>11. Accounted' /\ Freed'
  BY <1>4, <1>5, <1>7, <1>8, <1>10 DEF Owed, Accounted, Freed
<1>12. Killed'
  BY <1>5, <1>6, <1>8 DEF Owed, Killed, Formed
<1> QED BY <1>9, <1>11, <1>12 DEF Owed

LEMMA CancelsHolds == ASSUME Owed, NEW r, Cancels(r) PROVE Owed'
<1>1. CASE Stops({r})
  BY <1>1, StopsHolds DEF Cancels
<1>2. CASE UNCHANGED <<platform, procs, process, stop, history, lease>>
  BY <1>2, Same
<1> QED BY <1>1, <1>2 DEF Cancels

\* What is dropped from the records has been seen to end, its descendants with it.
LEMMA StopEndsHolds == ASSUME Owed, StopEnds PROVE Owed'
<1>1. /\ stop' = NoStop /\ history' = [history EXCEPT !.records = @ \ {stop.proc}]
      /\ stop.on /\ Terminated(stop.proc) /\ UNCHANGED <<platform, procs, process, lease>>
  BY DEF StopEnds
<1>2. history' \in Histories /\ history'.records = history.records \ {stop.proc}
  BY <1>1 DEF Owed, Formed, Histories
<1>3. platform = "windows" /\ stop.proc \in DOMAIN procs => ~Alive(stop.proc)
  <2> SUFFICES ASSUME platform = "windows", stop.proc \in DOMAIN procs PROVE ~Alive(stop.proc)
    OBVIOUS
  <2>1. stop.proc # None
    BY SeqDomain DEF Owed, Formed, None
  <2>2. Gone(stop.proc) /\ ~stop.util
    BY <1>1 DEF Terminated
  <2>3. procs[stop.proc].at # "up"
    BY <2>1, <2>2 DEF Gone
  <2>4. ~procs[stop.proc].tree
    BY <1>1, <2>1, <2>2 DEF Owed, Killed
  <2> QED BY <2>3, <2>4 DEF Alive
<1>4. Formed'
  BY <1>1, <1>2, NoStopShaped DEF Owed, Formed
<1>5. Accounted'
  BY <1>1, <1>2, <1>3 DEF Owed, Accounted, Alive
<1>6. Killed' /\ Freed'
  BY <1>1, NoStopShaped DEF Owed, Killed, Freed, Gone, Closed, Alive
<1> QED BY <1>4, <1>5, <1>6 DEF Owed

LEMMA StopFailsHolds == ASSUME Owed, StopFails PROVE Owed'
<1>1. /\ stop' = NoStop /\ history' = [history EXCEPT !.unknown = TRUE]
      /\ UNCHANGED <<platform, procs, process, lease>>
  BY DEF StopFails
<1>2. history' \in Histories /\ history'.records = history.records
  BY <1>1 DEF Owed, Formed, Histories
<1>3. Formed'
  BY <1>1, <1>2, NoStopShaped DEF Owed, Formed
<1>4. Accounted' /\ Killed' /\ Freed'
  BY <1>1, <1>2, NoStopShaped DEF Owed, Accounted, Killed, Freed, Gone, Closed, Alive
<1> QED BY <1>3, <1>4 DEF Owed

\* A spawn adds a process that the records, or the macOS producer, account for.
LEMMA SpawnsHolds ==
    ASSUME Owed, NEW w, NEW up \in BOOLEAN, Spawns(w, up), ~lease.released,
           lease' = [lease EXCEPT !.authorized = TRUE], UNCHANGED <<platform, stop>>
    PROVE  Owed'
<1> DEFINE n == Len(procs) + 1
           e == Launched(works[w].intent, up)
<1>1. IsSeq(procs) /\ Len(procs) \in Nat /\ DOMAIN procs = 1..Len(procs)
  BY SeqDomain DEF Owed, Formed
<1>2. procs' = Append(procs, e) /\ process' \in {n, process}
  BY DEF Spawns
<1>3. /\ Shaped(e) /\ e.at = (IF up THEN "up" ELSE "nospawn")
      /\ (e.tree => up /\ platform = "windows")
  <2>1. e \in [at : Places, intent : {works[w].intent}, ready : BOOLEAN, open : BOOLEAN,
               clean : BOOLEAN, tree : BOOLEAN]
    BY DEF Launched, Places
  <2>2. e.at = (IF up THEN "up" ELSE "nospawn") /\ (e.tree => up /\ platform = "windows")
    BY DEF Launched
  <2> HIDE DEF e
  <2> QED BY <2>1, <2>2 DEF Shaped
<1> HIDE DEF e
<1>4. /\ IsSeq(procs') /\ DOMAIN procs' = 1..n
      /\ \A p \in DOMAIN procs : procs'[p] = procs[p]
      /\ procs'[n] = e
  BY <1>1, <1>2, Appended
<1>5. /\ history' \in Histories /\ history.records \subseteq history'.records
      /\ up /\ platform = "windows" => n \in history'.records
  <2>1. history \in Histories /\ n \in Nat
    BY <1>1 DEF Owed, Formed
  <2>2. LET h == [history EXCEPT !.auths = @ + 1] IN h \in Histories /\ h.records = history.records
    BY <2>1 DEF Histories
  <2>3. LET h == [history EXCEPT !.records = @ \cup {n}]
        IN h \in Histories /\ h.records = history.records \cup {n}
    BY <2>1 DEF Histories
  <2>4. LET h == [history EXCEPT !.auths = @] IN h = history
    BY <2>1 DEF Histories
  <2>5. CASE up /\ platform # "darwin"
    <3>1. history' = [history EXCEPT !.records = @ \cup {n}]
      BY <2>5 DEF Spawns
    <3> QED BY <2>3, <3>1
  <2>6. CASE platform = "darwin"
    <3>1. history' = [history EXCEPT !.auths = @ + 1]
      BY <2>6 DEF Spawns
    <3> QED BY <2>2, <2>6, <3>1
  <2>7. CASE ~up /\ platform # "darwin"
    <3>1. history' = [history EXCEPT !.auths = @]
      BY <2>7 DEF Spawns
    <3> QED BY <2>1, <2>4, <2>7, <3>1
  <2> QED BY <2>5, <2>6, <2>7
<1>6. lease' \in Leases /\ lease'.authorized /\ ~lease'.released
  BY DEF Owed, Formed, Leases
<1>7. DOMAIN procs' = DOMAIN procs \cup {n} /\ n \notin DOMAIN procs
  BY <1>1, <1>4
<1>8. Formed'
  <2>1. process' \in {None} \cup DOMAIN procs'
    BY <1>2, <1>7 DEF Owed, Formed
  <2>2. \A p \in DOMAIN procs' : Shaped(procs'[p])
    BY <1>3, <1>4, <1>7 DEF Owed, Formed
  <2> QED BY <1>4, <1>5, <1>6, <1>7, <2>1, <2>2 DEF Owed, Formed
<1>9. platform # "windows" => \A p \in DOMAIN procs' : ~procs'[p].tree
  BY <1>3, <1>4, <1>7 DEF Owed, Accounted
<1>10. platform = "windows" => \A p \in DOMAIN procs' : p \notin history'.records => ~Alive(p)'
  <2> SUFFICES ASSUME platform = "windows", NEW p \in DOMAIN procs', p \notin history'.records
               PROVE  ~Alive(p)'
    OBVIOUS
  <2>1. CASE p = n
    BY <1>3, <1>4, <1>5, <2>1 DEF Alive
  <2>2. CASE p \in DOMAIN procs
    BY <1>4, <1>5, <2>2 DEF Owed, Accounted, Alive
  <2> QED BY <1>7, <2>1, <2>2
<1>11. Accounted'
  BY <1>6, <1>9, <1>10 DEF Accounted
<1>12. Killed'
  BY <1>4 DEF Owed, Formed, Killed
<1> QED BY <1>6, <1>8, <1>11, <1>12 DEF Owed, Freed

LEMMA ValidatedHolds == ASSUME Owed, NEW w, Validated(w) PROVE Owed'
<1>1. CASE UNCHANGED <<procs, process, history, lease>>
  BY <1>1, Same DEF Validated
<1>2. CASE Authorised /\ lease' = [lease EXCEPT !.authorized = TRUE]
  <2>1. ~lease.released /\ UNCHANGED <<platform, stop>>
    BY <1>2 DEF Authorised, Owed, Freed, Validated
  <2>2. CASE \E up \in BOOLEAN : Spawns(w, up)
    BY <1>2, <2>1, <2>2, SpawnsHolds
  <2>3. CASE /\ UNCHANGED <<procs, process>>
             /\ \/ history' = history
                \/ history' = [history EXCEPT !.auths = @ + 1, !.wasted = TRUE]
    <3>1. history' \in Histories /\ history'.records = history.records
      <4>1. history \in Histories
        BY DEF Owed, Formed
      <4> DEFINE h == [history EXCEPT !.auths = @ + 1]
                 k == [h EXCEPT !.wasted = TRUE]
      <4>2. h \in Histories /\ h.records = history.records
        BY <4>1 DEF Histories
      <4>3. [history EXCEPT !.auths = @ + 1, !.wasted = TRUE] = k
        BY <4>1 DEF Histories
      <4> HIDE DEF h
      <4>4. k \in Histories /\ k.records = history.records
        BY <4>2 DEF Histories
      <4> QED BY <2>3, <4>1, <4>3, <4>4
    <3>2. lease' \in Leases /\ lease'.authorized /\ ~lease'.released
      BY <1>2, <2>1 DEF Owed, Formed, Leases
    <3>3. Formed' /\ Killed' /\ Freed'
      BY <2>1, <2>3, <3>1, <3>2 DEF Owed, Formed, Killed, Freed
    <3>4. Accounted'
      BY <2>1, <2>3, <3>1, <3>2 DEF Owed, Accounted, Alive
    <3> QED BY <3>3, <3>4 DEF Owed
  <2> QED BY <1>2, <2>2, <2>3 DEF Validated
<1> QED BY <1>1, <1>2 DEF Validated

LEMMA RetireHolds ==
    ASSUME Owed, lease' = Withdrawn, UNCHANGED <<platform, procs, process, stop, history>>
    PROVE  Owed'
<1>1. /\ lease' \in Leases /\ lease'.authorized = lease.authorized
      /\ lease'.retired /\ lease'.released = lease.released
  BY DEF Owed, Formed, Leases, Withdrawn
<1> QED BY <1>1 DEF Owed, Formed, Accounted, Killed, Freed, Alive, Gone, Closed

\* What a release is granted for: nothing of the client is there.
LEMMA Unused == ASSUME Owed, MayRelease PROVE \A p \in DOMAIN procs : Gone(p) /\ ~Alive(p)
<1> SUFFICES ASSUME NEW p \in DOMAIN procs PROVE Gone(p) /\ ~Alive(p)
  OBVIOUS
<1>1. p # None
  BY SeqDomain DEF Owed, Formed, None
<1>2. CASE platform = "darwin"
  <2>1. Closed(p) /\ ~procs[p].tree
    BY <1>2 DEF MayRelease, Unresolved, Owed, Accounted
  <2> QED BY <1>2, <2>1 DEF Gone, Alive, Closed
<1>3. CASE platform = "windows"
  <2>1. ~Alive(p)
    BY <1>3 DEF MayRelease, Unresolved, Owed, Accounted
  <2> QED BY <1>3, <2>1 DEF Gone, Alive
<1>4. CASE platform = "posix"
  BY <1>4 DEF MayRelease, Owed, Accounted
<1> QED BY <1>2, <1>3, <1>4 DEF Owed, Formed, Platforms

LEMMA ReleaseHolds ==
    ASSUME Owed, MayRelease, lease' = [lease EXCEPT !.released = TRUE],
           UNCHANGED <<platform, procs, process, stop, history>>
    PROVE  Owed'
<1>1. lease' \in Leases /\ lease'.authorized = lease.authorized /\ lease'.retired
  BY DEF Owed, Formed, Leases, MayRelease
<1>2. Freed'
  BY <1>1, Unused DEF Freed, Gone, Closed, Alive
<1> QED BY <1>1, <1>2 DEF Owed, Formed, Accounted, Killed, Alive

---------------------------------------------------------------------------
(* The theorem.                                                            *)

LEMMA NextHolds == ASSUME Owed, [Next]_vars PROVE Owed'
<1>1. CASE Settles
  <2>1. ASSUME NEW i, Confirms(i) PROVE Owed'
    BY <2>1, Same DEF Confirms
  <2> QED BY <1>1, <2>1, StopEndsHolds, StopFailsHolds DEF Settles
<1>2. CASE Proceeds
  <2>1. ASSUME StartTimeout PROVE Owed'
    BY <2>1, StopsHolds DEF StartTimeout
  <2>2. ASSUME NEW c, Answer(c) PROVE Owed'
    BY <2>2, Same DEF Answer
  <2>3. ASSUME NEW c, RequestTimeout(c) PROVE Owed'
    BY <2>3, StopsHolds DEF RequestTimeout
  <2> QED BY <1>2, <2>1, <2>2, <2>3, ValidatedHolds, ReadyHolds DEF Proceeds
<1>3. CASE System
  BY <1>3, KillsHolds, ExitsHolds, DrainsHolds DEF System
<1>4. CASE Cancel
  BY <1>4, StopsHolds DEF Cancel
<1>5. CASE Retire \/ Release
  BY <1>5, RetireHolds, ReleaseHolds DEF Retire, Release, Withdrawn
<1>6. ASSUME NEW c, Request(c) PROVE Owed'
  BY <1>6, Same DEF Request
<1>7. ASSUME NEW c, Abort(c) PROVE Owed'
  BY <1>7, StopsHolds DEF Abort
<1>8. ASSUME NEW r, Create(r) PROVE Owed'
  BY <1>8, Same DEF Create
<1>9. ASSUME NEW r, CancelReceipt(r) PROVE Owed'
  BY <1>9, CancelsHolds DEF CancelReceipt
<1>10. CASE UNCHANGED vars
  BY <1>10, Same DEF vars
<1> QED
  BY <1>1, <1>2, <1>3, <1>4, <1>5, <1>6, <1>7, <1>8, <1>9, <1>10 DEF Next

\* The assets are released when no process, no descendant and no pipe uses them, and
\* nothing does from then on: whatever the processes do, and however stops, timeouts,
\* late validations and the retirement of the lease meet (release of bindClientAssets).
THEOREM ReleaseIsSound == Spec => []ReleasedIsUnused
<1>1. Owed => ReleasedIsUnused
  BY DEF Owed, Freed, ReleasedIsUnused
<1>2. Owed /\ [Next]_vars => Owed'
  BY NextHolds
<1> QED BY InitHolds, <1>1, <1>2, PTL DEF Spec

---------------------------------------------------------------------------
(* What a receipt is told.  ConfirmedIsTrue speaks of the intent of a receipt, *)
(* which is closed by then; what makes it stay true is that only the current   *)
(* intent can still get a work or a process (Current, Busy), and that a stop    *)
(* waits for all that its intent ever had (Halting).                          *)

Confs == {"none", "open", "own", "ok", "bad"}
Intents == [error : BOOLEAN, work : Nat, proc : Nat, conf : Confs]
Works == [at : {"validating", "starting", "over"}, intent : Nat, cancelled : BOOLEAN]
CallRecords ==
    [at : {"new", "made", "behind", "starting", "sent", "over"}, intent : Nat,
     status : {"none", "unused", "starting", "running", "completed", "stopping",
               "confirmed", "unconfirmed"}, denied : BOOLEAN, to : Nat]
Barriers == [on : BOOLEAN, proc : Nat, work : Nat, intent : Nat, util : BOOLEAN]

Typed ==
    /\ intents \in Seq(Intents) /\ Now > 0 /\ works \in Seq(Works)
    /\ calls \in [Calls -> CallRecords] /\ stop \in Barriers

\* A process belongs to the intent it was spawned for.
Linked ==
    \A i \in DOMAIN intents :
        /\ intents[i].proc # None => /\ intents[i].proc \in DOMAIN procs
                                     /\ procs[intents[i].proc].intent = i
        /\ intents[i].work # None => intents[i].work \in DOMAIN works

\* Only the process of the client runs, and one that was not spawned has no descendants.
OneUp ==
    /\ \A p \in DOMAIN procs : procs[p].at = "up" => p = process
    /\ process # None => procs[process].at = "up"
    /\ \A p \in DOMAIN procs : procs[p].at = "nospawn" => ~procs[p].tree

\* The current intent is open; its process is the client's, its work the last one.
Current ==
    /\ ~intents[Now].error /\ intents[Now].conf = "none"
    /\ intents[Now].proc \in {None, process}
    /\ intents[Now].work \in {None, Len(works)}

\* Only the last work may still spawn, and only while nothing runs or is stopped.
Busy ==
    \A w \in DOMAIN works : works[w].at # "over" /\ ~works[w].cancelled =>
        /\ w = Len(works) /\ works[w].intent = Now /\ ~stop.on
        /\ works[w].at = "validating" => process = None

\* What a stop waits for is all its intent ever had.
Halting ==
    stop.on => /\ stop.intent \in DOMAIN intents /\ stop.intent # Now
               /\ intents[stop.intent].work \in {None, stop.work}
               /\ intents[stop.intent].proc \in {None, stop.proc}
               /\ process \in {None, stop.proc}
               /\ intents[Now].proc = None

Quiet(i) == intents[i].proc # None => ~Alive(intents[i].proc)
Done(i) == Over(intents[i].work) /\ Quiet(i)

\* An intent that waits for its own work alone has nothing that runs.
Lone == \A i \in DOMAIN intents : intents[i].conf = "own" => Quiet(i)

\* A receipt is sent to the process of its intent; one that was not used and is over
\* is denied; one that was used and is confirmed has an intent that is done.
Rightly(r) ==
    /\ calls[r].at # "new" => calls[r].intent \in DOMAIN intents
    /\ calls[r].at = "new" => calls[r].status = "none"
    /\ calls[r].at \in {"new", "made"} => calls[r].to = None
    /\ calls[r].to # None => calls[r].to = intents[calls[r].intent].proc
    /\ calls[r].at = "made" /\ calls[r].status # "unused" => calls[r].denied
    /\ calls[r].at # "made" /\ calls[r].status = "confirmed" =>
          calls[r].intent # Now /\ Done(calls[r].intent)

Told ==
    /\ Typed /\ Linked /\ OneUp /\ Current /\ Busy /\ Halting /\ Lone
    /\ \A r \in Receipts : Rightly(r)

---------------------------------------------------------------------------
(* How things stay as they are.                                            *)

LEMMA TypedFacts ==
    ASSUME Typed
    PROVE  /\ Now \in Nat /\ DOMAIN intents = 1..Now /\ Now \in DOMAIN intents
           /\ \A i \in DOMAIN intents : intents[i] \in Intents
           /\ Len(works) \in Nat /\ DOMAIN works = 1..Len(works)
           /\ \A w \in DOMAIN works : works[w] \in Works
           /\ \A c \in Calls : calls[c] \in CallRecords
           /\ None \notin DOMAIN intents /\ None \notin DOMAIN works
<1>1. Now \in Nat /\ DOMAIN intents = 1..Now /\ \A i \in 1..Now : intents[i] \in Intents
  BY LenProperties, ElementOfSeq DEF Typed, Now
<1>2. /\ Len(works) \in Nat /\ DOMAIN works = 1..Len(works)
      /\ \A w \in 1..Len(works) : works[w] \in Works
  BY LenProperties, ElementOfSeq DEF Typed
<1> QED BY <1>1, <1>2 DEF Typed, None

LEMMA ProcessFacts ==
    ASSUME Owed
    PROVE  /\ Len(procs) \in Nat /\ DOMAIN procs = 1..Len(procs) /\ None \notin DOMAIN procs
           /\ process \in {None} \cup DOMAIN procs /\ process \in Nat
           /\ \A p \in DOMAIN procs : Shaped(procs[p])
<1>1. Len(procs) \in Nat /\ DOMAIN procs = 1..Len(procs)
  BY SeqDomain DEF Owed, Formed
<1>2. process \in {None} \cup DOMAIN procs /\ \A p \in DOMAIN procs : Shaped(procs[p])
  BY DEF Owed, Formed
<1> QED BY <1>1, <1>2 DEF None

\* A sequence from the function that describes it.
LEMMA Listed ==
    ASSUME NEW n \in Nat, NEW T, NEW f \in [1..n -> T]
    PROVE  f \in Seq(T) /\ Len(f) = n
<1>1. f \in Seq(T)
  BY SeqDef
<1> QED BY <1>1, LenProperties

LEMMA Extended ==
    ASSUME NEW n \in Nat, NEW T, NEW f \in [1..n -> T], NEW e \in T
    PROVE  /\ Append(f, e) \in Seq(T) /\ Len(Append(f, e)) = n + 1
           /\ DOMAIN Append(f, e) = 1..n + 1
           /\ \A i \in 1..n : Append(f, e)[i] = f[i]
           /\ Append(f, e)[n + 1] = e
<1>1. f \in Seq(T) /\ Len(f) = n
  BY Listed
<1>2. /\ Append(f, e) \in Seq(T) /\ Len(Append(f, e)) = n + 1
      /\ \A i \in 1..n : Append(f, e)[i] = f[i]
      /\ Append(f, e)[n + 1] = e
  BY <1>1, AppendProperties
<1>3. DOMAIN Append(f, e) = 1..n + 1
  BY <1>2, LenProperties
<1> QED BY <1>2, <1>3

\* Only the current intent gets a work or a process, what is over stays so, and so
\* does what is not alive.
Moves ==
    /\ DOMAIN intents \subseteq DOMAIN intents' /\ Now' >= Now
    /\ \A i \in DOMAIN intents : i # Now => /\ intents'[i].work = intents[i].work
                                            /\ intents'[i].proc = intents[i].proc
    /\ \A i \in DOMAIN intents : intents[i].error => intents'[i].error
    /\ DOMAIN works \subseteq DOMAIN works'
    /\ \A w \in DOMAIN works : works[w].at = "over" => works'[w].at = "over"
    /\ DOMAIN procs \subseteq DOMAIN procs'
    /\ \A p \in DOMAIN procs : /\ procs'[p].intent = procs[p].intent
                               /\ ~Alive(p) => ~Alive(p)'

LEMMA DonePersists ==
    ASSUME Told, Moves, NEW i \in DOMAIN intents, i # Now
    PROVE  (Quiet(i) => Quiet(i)') /\ (Done(i) => Done(i)')
<1>1. Quiet(i) => Quiet(i)'
  BY DEF Told, Linked, Moves, Quiet
<1>2. Over(intents[i].work) => Over(intents[i].work)'
  BY DEF Told, Linked, Moves, Over
<1> QED BY <1>1, <1>2 DEF Done

\* A receipt of which no more is said than before.
Keeps(r) ==
    LET o == calls[r]  n == calls'[r] IN
    /\ n.intent = o.intent /\ n.to = o.to
    /\ n.at = "new" <=> o.at = "new"
    /\ n.at = "new" => n.status = "none"
    /\ n.at = "made" => o.at = "made"
    /\ n.at = "made" /\ n.status # "unused" => n.denied
Truthful(r) ==
    calls'[r].at # "made" /\ calls'[r].status = "confirmed" =>
        \/ calls[r].at # "made" /\ calls[r].status = "confirmed"
        \/ (calls[r].intent # Now /\ Done(calls[r].intent))'

\* What no step does to a call but its own creation and request: it is not begun, and
\* not sent, but to the process there is; what is over stays so, with its outcome.
Goes(c) ==
    LET o == calls[c]  n == calls'[c] IN
    /\ \/ n.at = o.at
       \/ o.at \in {"behind", "starting", "sent"} /\ n.at \in {"starting", "sent", "over"}
    /\ n.intent = o.intent
    /\ \/ n.to = o.to
       \/ /\ o.at = "starting" /\ n.to = process /\ process # None
          /\ c \in Receipts => n.status = "running"
    /\ \/ n.status \in {o.status, "running", "stopping", "confirmed", "unconfirmed"}
       \/ n.status = "completed" /\ n.at = "over"
    /\ o.at = "over" /\ o.status \in {"completed", "confirmed"} => n.status = o.status
Forward == Moves /\ \A c \in Calls : Goes(c)

LEMMA KeepsRight ==
    ASSUME Told, Moves, NEW r \in Receipts, Keeps(r), Truthful(r),
           intents'[Now].proc = intents[Now].proc \/ process = None
    PROVE  Rightly(r)'
<1> DEFINE o == calls[r]
           n == calls'[r]
<1>1. Rightly(r) /\ r \in Calls
  BY DEF Told, Calls
<1>2. /\ o.at # "new" => o.intent \in DOMAIN intents
      /\ o.at \in {"new", "made"} => o.to = None
      /\ o.to # None => o.to = intents[o.intent].proc
      /\ o.at # "made" /\ o.status = "confirmed" => o.intent # Now /\ Done(o.intent)
      /\ o.at = "new" => o.status = "none"
  BY <1>1 DEF Rightly
<1>3. /\ n.intent = o.intent /\ n.to = o.to /\ (n.at = "new" <=> o.at = "new")
      /\ (n.at = "new" => n.status = "none") /\ (n.at = "made" => o.at = "made")
      /\ (n.at = "made" /\ n.status # "unused" => n.denied)
  BY DEF Keeps
<1>4. Now \in Nat /\ DOMAIN intents = 1..Now
  BY TypedFacts DEF Told
<1>5. DOMAIN intents \subseteq DOMAIN intents' /\ Now' >= Now
  BY DEF Moves
<1>6. n.to # None => n.to = intents'[n.intent].proc
  <2> SUFFICES ASSUME n.to # None PROVE n.to = intents'[n.intent].proc
    OBVIOUS
  <2>1. o.to = intents[o.intent].proc /\ o.intent \in DOMAIN intents
    BY <1>2, <1>3
  <2>2. CASE o.intent # Now
    BY <1>3, <2>1, <2>2 DEF Moves
  <2>3. CASE o.intent = Now
    BY <1>3, <2>1, <2>3 DEF Told, Current
  <2> QED BY <2>2, <2>3
<1>7. n.at # "made" /\ n.status = "confirmed" => (calls[r].intent # Now /\ Done(calls[r].intent))'
  <2> SUFFICES ASSUME n.at # "made", n.status = "confirmed",
                      o.at # "made", o.status = "confirmed"
               PROVE  (calls[r].intent # Now /\ Done(calls[r].intent))'
    BY DEF Truthful
  <2>1. o.intent # Now /\ Done(o.intent) /\ o.intent \in DOMAIN intents
    BY <1>2
  <2>2. PICK i \in DOMAIN intents : i = o.intent
    BY <2>1
  <2>3. Done(i)' /\ i # Now
    BY <2>1, <2>2, DonePersists
  <2>4. i # Now'
    BY <1>4, <1>5, <2>3
  <2>5. calls'[r].intent = i
    BY <1>3, <2>2
  <2> QED BY <2>3, <2>4, <2>5 DEF Done, Quiet, Over, Alive
<1>8. /\ n.at # "new" => n.intent \in DOMAIN intents'
      /\ n.at \in {"new", "made"} => n.to = None
  BY <1>2, <1>3, <1>5
<1> QED BY <1>3, <1>6, <1>7, <1>8 DEF Rightly, o, n

---------------------------------------------------------------------------
(* Calls.                                                                  *)

LEMMA Stays == ASSUME Told, UNCHANGED <<intents, works, procs>> PROVE Moves
<1>1. Now \in Nat
  BY TypedFacts DEF Told
<1> QED BY <1>1 DEF Moves, Alive, Now

\* The rest, when only calls change.
LEMMA RestStays ==
    ASSUME Told, UNCHANGED <<intents, works, procs, process, stop>>
    PROVE  Linked' /\ OneUp' /\ Current' /\ Busy' /\ Halting' /\ Lone'
BY DEF Told, Linked, OneUp, Current, Busy, Halting, Lone, Quiet, Alive, Now

LEMMA OneCall ==
    ASSUME Told, UNCHANGED <<intents, works, procs, process, stop>>,
           NEW c \in Calls, NEW n \in CallRecords, calls' = [calls EXCEPT ![c] = n],
           c \in Receipts => Rightly(c)'
    PROVE  Told' /\ Moves
<1>1. Typed'
  BY DEF Told, Typed, Now
<1>2. ASSUME NEW r \in Receipts PROVE Rightly(r)'
  <2>1. CASE r = c
    BY <2>1
  <2>2. CASE r # c
    <3>1. calls'[r] = calls[r] /\ Rightly(r)
      BY <2>2 DEF Told, Typed, Calls
    <3>2. Keeps(r) /\ Truthful(r)
      BY <3>1 DEF Keeps, Truthful, Rightly
    <3> QED BY <3>2, Stays, KeepsRight
  <2> QED BY <2>1, <2>2
<1> QED BY <1>1, <1>2, Stays, RestStays DEF Told

LEMMA StartingFacts ==
    ASSUME Told
    PROVE  /\ Starting => /\ Len(works) \in DOMAIN works /\ works[Len(works)].at # "over"
                          /\ ~works[Len(works)].cancelled /\ ~stop.on
                          /\ works[Len(works)].intent = Now
           /\ ~Starting => \A w \in DOMAIN works : works[w].at = "over" \/ works[w].cancelled
<1>1. Len(works) \in Nat /\ DOMAIN works = 1..Len(works)
  BY TypedFacts DEF Told
<1>2. works # <<>> => Len(works) # 0
  BY EmptySeq DEF Told, Typed
<1>3. Starting => Len(works) \in DOMAIN works /\ works[Len(works)].at # "over"
  BY <1>1, <1>2 DEF Starting, Over, None
<1>4. ASSUME NEW w \in DOMAIN works, works[w].at # "over", ~works[w].cancelled PROVE Starting
  <2>1. w = Len(works) /\ w # None /\ works # <<>>
    BY <1>1, <1>4 DEF Told, Busy, None
  <2> QED BY <1>4, <2>1 DEF Starting, Over
<1>5. Starting => ~works[Len(works)].cancelled
  BY DEF Starting
<1> QED BY <1>3, <1>4, <1>5 DEF Told, Busy

\* A start begins: the current intent gets a work, and nothing runs yet.
LEMMA WorkBegins ==
    ASSUME Told, ~Starting, process = None, ~stop'.on, UNCHANGED <<procs, process>>,
           works' = Append(works, [at |-> "validating", intent |-> Now, cancelled |-> FALSE]),
           intents' \in [1..Now -> Intents],
           \A i \in DOMAIN intents : /\ intents'[i].proc = intents[i].proc
                                     /\ intents'[i].error = intents[i].error
                                     /\ intents'[i].conf = "own" => intents[i].conf = "own"
                                     /\ i # Now => intents'[i].work = intents[i].work,
           intents'[Now].work = Len(works) + 1, intents'[Now].conf = "none"
    PROVE  /\ intents' \in Seq(Intents) /\ Now' = Now /\ works' \in Seq(Works)
           /\ Moves /\ Linked' /\ OneUp' /\ Current' /\ Busy' /\ Halting' /\ Lone'
<1> DEFINE e == [at |-> "validating", intent |-> Now, cancelled |-> FALSE]
<1>1. /\ Now \in Nat /\ DOMAIN intents = 1..Now /\ Now \in DOMAIN intents
      /\ Len(works) \in Nat /\ DOMAIN works = 1..Len(works)
      /\ works \in [1..Len(works) -> Works]
  BY TypedFacts DEF Told, Typed
<1>2. e \in Works /\ e.at = "validating" /\ e.intent = Now /\ ~e.cancelled
  BY <1>1 DEF Works
<1>3. works' = Append(works, e)
  OBVIOUS
<1> HIDE DEF e
<1>4. /\ works' \in Seq(Works) /\ Len(works') = Len(works) + 1
      /\ DOMAIN works' = 1..Len(works) + 1
      /\ \A w \in DOMAIN works : works'[w] = works[w]
      /\ works'[Len(works) + 1] = e
  <2>1. /\ Append(works, e) \in Seq(Works) /\ Len(Append(works, e)) = Len(works) + 1
        /\ DOMAIN Append(works, e) = 1..Len(works) + 1
        /\ \A w \in 1..Len(works) : Append(works, e)[w] = works[w]
        /\ Append(works, e)[Len(works) + 1] = e
    <3>1. works \in Seq(Works)
      BY DEF Told, Typed
    <3>2. /\ Append(works, e) \in Seq(Works) /\ Len(Append(works, e)) = Len(works) + 1
          /\ \A w \in 1..Len(works) : Append(works, e)[w] = works[w]
          /\ Append(works, e)[Len(works) + 1] = e
      BY <1>2, <3>1, AppendProperties
    <3> QED BY <3>2, LenProperties
  <2> QED BY <1>1, <1>3, <2>1, Zenon
<1>5. intents' \in Seq(Intents) /\ Len(intents') = Now
  BY <1>1, Listed
<1>6. Now' = Now /\ DOMAIN intents' = DOMAIN intents
  BY <1>1, <1>5 DEF Now
<1>7. Moves
  BY <1>1, <1>4, <1>6 DEF Moves, Alive
<1>8. Linked'
  BY <1>1, <1>4, <1>6 DEF Told, Linked
<1>9. OneUp' /\ Current'
  BY <1>1, <1>4, <1>6 DEF Told, OneUp, Current
<1>10. Busy'
  <2>1. \A w \in DOMAIN works : works[w].at = "over" \/ works[w].cancelled
    BY StartingFacts
  <2> QED BY <1>1, <1>2, <1>4, <1>6, <2>1 DEF Busy
<1>11. Halting' /\ Lone'
  BY <1>6 DEF Halting, Told, Lone, Quiet, Alive
<1> QED BY <1>4, <1>5, <1>6, <1>7, <1>8, <1>9, <1>10, <1>11

LEMMA CreateTells == ASSUME Told, NEW r \in Receipts, Create(r) PROVE Told' /\ Moves
<1> DEFINE n == [NewCall EXCEPT !.at = "made", !.intent = Now, !.status = "unused"]
<1>1. Now \in Nat /\ Now \in DOMAIN intents /\ r \in Calls
  BY TypedFacts DEF Told, Calls
<1>2. /\ n \in CallRecords /\ n.at = "made" /\ n.intent = Now /\ n.status = "unused"
      /\ n.to = None
  BY <1>1 DEF NewCall, CallRecords, None
<1>3. calls' = [calls EXCEPT ![r] = n] /\ UNCHANGED <<intents, works, procs, process, stop>>
  BY DEF Create
<1> HIDE DEF n
<1>4. calls'[r] = n
  BY <1>1, <1>3 DEF Told, Typed
<1>5. Rightly(r)'
  BY <1>1, <1>2, <1>3, <1>4 DEF Rightly
<1> QED BY <1>1, <1>2, <1>3, <1>5, OneCall

\* A call that was not used and not denied: its receipt is unused, and sent nowhere.
LEMMA FreshCall ==
    ASSUME Told, NEW c \in Receipts, calls[c].at = "made", ~calls[c].denied
    PROVE  /\ calls[c].status = "unused" /\ calls[c].to = None
           /\ calls[c].intent \in DOMAIN intents
BY DEF Told, Rightly

LEMMA RequestTells ==
    ASSUME Owed, Told, NEW c \in Calls, Request(c) PROVE Told' /\ Moves
<1> DEFINE o == calls[c]
           used == [calls EXCEPT
                      ![c].status = IF c \in Receipts /\ @ = "unused" THEN "starting" ELSE @,
                      ![c].intent = IF c \in Receipts THEN @ ELSE Now]
           u == [o EXCEPT !.status = IF c \in Receipts /\ @ = "unused" THEN "starting" ELSE @,
                          !.intent = IF c \in Receipts THEN @ ELSE Now]
<1>1. /\ o \in CallRecords /\ Now \in Nat /\ Now \in DOMAIN intents
      /\ calls \in [Calls -> CallRecords]
  BY TypedFacts DEF Told, Typed
<1>2. /\ u \in CallRecords /\ u.at = o.at /\ u.to = o.to /\ u.denied = o.denied
      /\ c \in Receipts => u.intent = o.intent
      /\ c \in Receipts /\ o.status = "unused" => u.status = "starting"
  BY <1>1 DEF CallRecords
<1>3. used = [calls EXCEPT ![c] = u]
  BY <1>1
<1>4. o.at = (IF c \in Receipts THEN "made" ELSE "new") /\ ~o.denied
      /\ UNCHANGED <<procs, process, stop>>
  BY DEF Request
<1>5. c \in Receipts => /\ o.at = "made" /\ o.status = "unused" /\ o.to = None
                        /\ o.intent \in DOMAIN intents
  BY <1>4, FreshCall
<1> HIDE DEF o, u, used
<1>6. ASSUME NEW n \in CallRecords, calls' = [calls EXCEPT ![c] = n],
             UNCHANGED <<works, intents>>,
             c \in Receipts => /\ n.intent \in DOMAIN intents /\ n.at \notin {"new", "made"}
                               /\ n.status # "confirmed"
                               /\ n.to # None => n.to = intents[n.intent].proc
      PROVE  Told' /\ Moves
  <2>1. calls'[c] = n
    BY <1>1, <1>6
  <2>2. c \in Receipts => Rightly(c)'
    BY <1>6, <2>1 DEF Rightly
  <2> QED BY <1>4, <1>6, <2>2, OneCall
<1>7. CASE Permitted(c) /\ stop.on /\ calls' = [used EXCEPT ![c].at = "behind"]
           /\ UNCHANGED <<works, intents>>
  <2> DEFINE n == [u EXCEPT !.at = "behind"]
  <2>1. /\ n \in CallRecords /\ n.at = "behind" /\ n.intent = u.intent /\ n.to = u.to
        /\ n.status = u.status
    BY <1>2 DEF CallRecords
  <2>2. calls' = [calls EXCEPT ![c] = n]
    BY <1>1, <1>2, <1>3, <1>7
  <2> HIDE DEF n
  <2> QED BY <1>2, <1>5, <1>6, <1>7, <2>1, <2>2
<1>8. CASE /\ Permitted(c) /\ ~stop.on /\ ~failed /\ (Starting \/ process = None)
           /\ Begins({c}, used)
  <2> DEFINE n == [u EXCEPT !.at = "starting"]
  <2>1. /\ n \in CallRecords /\ n.at = "starting" /\ n.intent = u.intent /\ n.to = u.to
        /\ n.status = u.status
    BY <1>2 DEF CallRecords
  <2>2. calls' = [calls EXCEPT ![c] = n]
    BY <1>1, <1>2, <1>3, <1>8 DEF Begins
  <2> HIDE DEF n
  <2>3. CASE Starting
    BY <1>2, <1>5, <1>6, <1>8, <2>1, <2>2, <2>3 DEF Begins
  <2>4. CASE ~Starting
    <3>1. /\ works' = Append(works, [at |-> "validating", intent |-> Now, cancelled |-> FALSE])
          /\ intents' = [intents EXCEPT ![Now].work = Len(works) + 1]
          /\ process = None /\ ~stop'.on
      BY <1>4, <1>8, <2>4 DEF Begins
    <3>2. /\ intents \in [1..Now -> Intents] /\ Len(works) + 1 \in Nat
          /\ DOMAIN intents = 1..Now
      BY TypedFacts DEF Told, Typed
    <3>3. /\ intents' \in [1..Now -> Intents]
          /\ \A i \in DOMAIN intents : /\ intents'[i].proc = intents[i].proc
                                       /\ intents'[i].error = intents[i].error
                                       /\ intents'[i].conf = intents[i].conf
                                       /\ i # Now => intents'[i].work = intents[i].work
          /\ intents'[Now].work = Len(works) + 1
      BY <1>1, <3>1, <3>2 DEF Intents
    <3>4. intents'[Now].conf = "none"
      BY <1>1, <3>3 DEF Told, Current
    <3>5. /\ intents' \in Seq(Intents) /\ Now' = Now /\ works' \in Seq(Works)
          /\ Moves /\ Linked' /\ OneUp' /\ Current' /\ Busy' /\ Halting' /\ Lone'
      BY <1>4, <2>4, <3>1, <3>3, <3>4, WorkBegins
    <3>6. Typed'
      BY <1>1, <1>4, <2>1, <2>2, <3>5 DEF Told, Typed
    <3>7. ASSUME NEW r \in Receipts PROVE Rightly(r)'
      <4>1. CASE r # c
        <5>1. calls'[r] = calls[r] /\ Rightly(r)
          BY <1>1, <2>2, <4>1 DEF Told, Calls
        <5>2. Keeps(r) /\ Truthful(r)
          BY <5>1 DEF Keeps, Truthful, Rightly
        <5> QED BY <1>1, <3>3, <3>5, <5>2, KeepsRight
      <4>2. CASE r = c
        <5>1. calls'[c] = n /\ c \in Receipts
          BY <1>1, <2>2, <4>2
        <5>2. n.intent \in DOMAIN intents' /\ n.at = "starting" /\ n.status = "starting"
              /\ n.to = None
          BY <1>2, <1>5, <2>1, <3>2, <3>3, <5>1
        <5> QED BY <4>2, <5>1, <5>2 DEF Rightly
      <4> QED BY <4>1, <4>2
    <3> QED BY <3>5, <3>6, <3>7 DEF Told
  <2> QED BY <2>3, <2>4
<1>9. CASE /\ Permitted(c) /\ ~stop.on /\ ~failed /\ ~Starting /\ process # None
           /\ calls' = IF procs[process].ready /\ procs[process].open
                         THEN [used EXCEPT ![c] =
                                 [Sends(c, process) EXCEPT !.intent = used[c].intent]]
                         ELSE [used EXCEPT ![c].at = "over"]
           /\ UNCHANGED <<works, intents>>
  <2>1. CASE calls' = [used EXCEPT ![c].at = "over"]
    <3> DEFINE n == [u EXCEPT !.at = "over"]
    <3>1. /\ n \in CallRecords /\ n.at = "over" /\ n.intent = u.intent /\ n.to = u.to
          /\ n.status = u.status
      BY <1>2 DEF CallRecords
    <3>2. calls' = [calls EXCEPT ![c] = n]
      BY <1>1, <1>2, <1>3, <2>1
    <3> HIDE DEF n
    <3> QED BY <1>2, <1>5, <1>6, <1>9, <3>1, <3>2
  <2>2. CASE calls' = [used EXCEPT ![c] = [Sends(c, process) EXCEPT !.intent = used[c].intent]]
    <3> DEFINE s == Sends(c, process)
               n == [s EXCEPT !.intent = u.intent]
    <3>1. process \in Nat
      BY ProcessFacts
    <3>2. /\ s \in CallRecords /\ s.at \in {"over", "sent"} /\ s.to = process
          /\ c \in Receipts => s.status = "running"
      BY <1>1, <3>1 DEF Sends, CallRecords, o
    <3> HIDE DEF s
    <3>3. /\ n \in CallRecords /\ n.at = s.at /\ n.to = s.to /\ n.status = s.status
          /\ n.intent = u.intent
      BY <1>2, <3>2 DEF CallRecords
    <3>4. used[c] = u
      BY <1>1, <1>3
    <3>5. calls' = [calls EXCEPT ![c] = n]
      BY <1>1, <1>3, <2>2, <3>4 DEF s
    <3> HIDE DEF n
    <3>6. c \in Receipts => o.intent = Now /\ intents[Now].proc = process
      BY <1>9 DEF Permitted, o
    <3>7. c \in Receipts => /\ n.intent = Now /\ n.to = process /\ n.status = "running"
                             /\ n.at \notin {"new", "made"}
      BY <1>2, <3>2, <3>3, <3>6
    <3> QED BY <1>1, <1>6, <1>9, <3>3, <3>5, <3>6, <3>7
  <2> QED BY <1>9, <2>1, <2>2
<1>10. CASE /\ calls' = [used EXCEPT ![c].at = "over", ![c].denied = TRUE]
            /\ UNCHANGED <<works, intents>>
  <2> DEFINE n == [u EXCEPT !.at = "over", !.denied = TRUE]
  <2>1. /\ n \in CallRecords /\ n.at = "over" /\ n.intent = u.intent /\ n.to = u.to
        /\ n.status = u.status
    BY <1>2 DEF CallRecords
  <2>2. calls' = [calls EXCEPT ![c] = n]
    BY <1>1, <1>2, <1>3, <1>10
  <2> HIDE DEF n
  <2> QED BY <1>2, <1>5, <1>6, <1>10, <2>1, <2>2
<1> QED BY <1>7, <1>8, <1>9, <1>10 DEF Request, used

LEMMA AnswerTells == ASSUME Told, NEW c \in Calls, Answer(c) PROVE Told' /\ Forward
<1> DEFINE n == [calls[c] EXCEPT !.at = "over",
                                 !.status = IF c \in Receipts THEN "completed" ELSE @]
<1>1. calls[c] \in CallRecords /\ calls \in [Calls -> CallRecords]
  BY DEF Told, Typed
<1>2. /\ n \in CallRecords /\ n.at = "over" /\ n.intent = calls[c].intent
      /\ n.to = calls[c].to
      /\ n.status = (IF c \in Receipts THEN "completed" ELSE calls[c].status)
  BY <1>1 DEF CallRecords
<1>3. calls' = [calls EXCEPT ![c] = n] /\ UNCHANGED <<intents, works, procs, process, stop>>
      /\ calls[c].at = "sent"
  BY <1>1 DEF Answer
<1> HIDE DEF n
<1>4. calls'[c] = n
  BY <1>1, <1>3
<1>5. c \in Receipts => Rightly(c)'
  BY <1>2, <1>3, <1>4 DEF Told, Rightly
<1>6. Told' /\ Moves
  BY <1>2, <1>3, <1>5, OneCall
<1>7. \A d \in Calls : Goes(d)
  BY <1>1, <1>2, <1>3, <1>4 DEF Goes, CallRecords
<1> QED BY <1>6, <1>7 DEF Forward

---------------------------------------------------------------------------
(* Processes and works.                                                    *)

\* The receipts, when no call changes.
LEMMA CallsStay ==
    ASSUME Told, Moves, calls' = calls,
           intents'[Now].proc = intents[Now].proc \/ process = None
    PROVE  Forward /\ \A r \in Receipts : Rightly(r)'
<1>0. Forward
  BY DEF Forward, Goes
<1> SUFFICES ASSUME NEW r \in Receipts PROVE Rightly(r)'
  BY <1>0
<1>1. Rightly(r)
  BY DEF Told
<1>2. Keeps(r) /\ Truthful(r)
  BY <1>1 DEF Keeps, Truthful, Rightly
<1> QED BY <1>2, KeepsRight

\* One process changes, and it does not begin to run.
LEMMA OneMoves ==
    ASSUME Owed, Told, NEW p \in DOMAIN procs, NEW r, procs' = [procs EXCEPT ![p] = r],
           r.intent = procs[p].intent, r.tree => procs[p].tree,
           r.at = "up" => procs[p].at = "up"
    PROVE  /\ DOMAIN procs' = DOMAIN procs /\ procs'[p] = r
           /\ \A q \in DOMAIN procs : /\ procs'[q].intent = procs[q].intent
                                      /\ ~Alive(q) => ~Alive(q)'
                                      /\ procs'[q].at = "up" => procs[q].at = "up"
                                      /\ q # p => procs'[q] = procs[q]
BY DEF Alive

\* What such a change leaves to the process and to the stop.
LEMMA ProcessTells ==
    ASSUME Owed, Told, NEW p \in DOMAIN procs, NEW r, procs' = [procs EXCEPT ![p] = r],
           r.intent = procs[p].intent, r.tree => procs[p].tree,
           r.at = "up" <=> procs[p].at = "up", r.at = "nospawn" => procs[p].at = "nospawn",
           UNCHANGED <<intents, works, calls, process>>,
           stop' \in Barriers, stop'.on = stop.on, stop'.proc = stop.proc,
           stop'.work = stop.work, stop'.intent = stop.intent
    PROVE  Told' /\ Forward
<1>1. /\ DOMAIN procs' = DOMAIN procs /\ procs'[p] = r
      /\ \A q \in DOMAIN procs : /\ procs'[q].intent = procs[q].intent
                                 /\ ~Alive(q) => ~Alive(q)'
                                 /\ procs'[q].at = "up" => procs[q].at = "up"
                                 /\ q # p => procs'[q] = procs[q]
  BY OneMoves
<1>2. Now \in Nat /\ process \in {None} \cup DOMAIN procs
  BY TypedFacts DEF Told, Owed, Formed
<1>3. Moves
  BY <1>1, <1>2 DEF Moves, Now
<1>4. Typed' /\ Linked' /\ Current'
  BY <1>1 DEF Told, Typed, Linked, Current, Now
<1>5. OneUp'
  BY <1>1, <1>2 DEF Told, OneUp
<1>6. Busy' /\ Halting'
  BY DEF Told, Busy, Halting, Now
<1>7. Lone'
  BY <1>1 DEF Told, Lone, Linked, Quiet
<1>8. Forward /\ \A q \in Receipts : Rightly(q)'
  BY <1>3, CallsStay
<1> QED BY <1>4, <1>5, <1>6, <1>7, <1>8 DEF Told

LEMMA ShapedFields ==
    ASSUME NEW r, Shaped(r), NEW v \in BOOLEAN, NEW w \in Places
    PROVE  /\ LET s == [r EXCEPT !.tree = v] IN s.intent = r.intent /\ s.at = r.at /\ s.tree = v
           /\ LET s == [r EXCEPT !.at = w] IN s.intent = r.intent /\ s.at = w /\ s.tree = r.tree
           /\ LET s == [r EXCEPT !.ready = v]
              IN s.intent = r.intent /\ s.at = r.at /\ s.tree = r.tree
           /\ LET s == [r EXCEPT !.open = v]
              IN s.intent = r.intent /\ s.at = r.at /\ s.tree = r.tree
           /\ LET s == [r EXCEPT !.at = w, !.clean = v]
              IN s.intent = r.intent /\ s.at = w /\ s.tree = r.tree
BY DEF Shaped

LEMMA DrainsTells ==
    ASSUME Owed, Told, NEW p \in DOMAIN procs, Drains(p) PROVE Told' /\ Forward
<1> DEFINE r == [procs[p] EXCEPT !.at = "drained"]
<1>1. Shaped(procs[p])
  BY DEF Owed, Formed
<1>2. r.at = "drained" /\ r.intent = procs[p].intent /\ r.tree = procs[p].tree
  BY <1>1, ShapedFields DEF Places
<1>3. procs' = [procs EXCEPT ![p] = r] /\ procs[p].at = "exited"
      /\ UNCHANGED <<intents, works, calls, process, stop>>
  BY DEF Drains
<1> HIDE DEF r
<1> QED BY <1>2, <1>3, ProcessTells DEF Told, Typed

LEMMA KillsTells == ASSUME Owed, Told, KillsTree PROVE Told' /\ Forward
<1> DEFINE k == stop.proc
           r == [procs[k] EXCEPT !.tree = FALSE]
<1>1. k \in DOMAIN procs /\ Shaped(procs[k])
  BY DEF Owed, Formed, KillsTree
<1>2. r.at = procs[k].at /\ r.intent = procs[k].intent /\ r.tree = FALSE
  BY <1>1, ShapedFields DEF Places
<1>3. procs' = [procs EXCEPT ![k] = r] /\ UNCHANGED <<intents, works, calls, process>>
  BY DEF KillsTree
<1> HIDE DEF r
<1>4. /\ stop' \in Barriers /\ stop'.on = stop.on /\ stop'.proc = stop.proc
      /\ stop'.work = stop.work /\ stop'.intent = stop.intent
  BY DEF KillsTree, Told, Typed, Barriers
<1> QED BY <1>1, <1>2, <1>3, <1>4, ProcessTells

\* A work that is over or starts, for the sequence it is in.
LEMMA OneWork ==
    ASSUME Told, NEW w \in DOMAIN works, NEW at \in {"starting", "over"},
           works' = [works EXCEPT ![w].at = at]
    PROVE  /\ works' \in Seq(Works) /\ Len(works') = Len(works) /\ DOMAIN works' = DOMAIN works
           /\ works'[w].at = at /\ works'[w].cancelled = works[w].cancelled
           /\ works'[w].intent = works[w].intent
           /\ \A v \in DOMAIN works : v # w => works'[v] = works[v]
<1>1. /\ Len(works) \in Nat /\ DOMAIN works = 1..Len(works)
      /\ works \in [1..Len(works) -> Works]
  BY TypedFacts DEF Told, Typed
<1>2. /\ works' \in [1..Len(works) -> Works]
      /\ works'[w].at = at /\ works'[w].cancelled = works[w].cancelled
      /\ works'[w].intent = works[w].intent
      /\ \A v \in DOMAIN works : v # w => works'[v] = works[v]
  BY <1>1 DEF Works
<1>3. works' \in Seq(Works) /\ Len(works') = Len(works)
  BY <1>1, <1>2, Listed
<1> QED BY <1>1, <1>2, <1>3

\* The calls that waited for a start are over.
LEMMA FailsCalls ==
    ASSUME Told, NEW w, Fails(w)
    PROVE  /\ calls' \in [Calls -> CallRecords] /\ \A c \in Calls : Goes(c)
           /\ \A r \in Receipts : Keeps(r) /\ Truthful(r)
<1>1. \A c \in Calls : calls[c] \in CallRecords
  BY DEF Told, Typed
<1>2. calls' = [c \in Calls |-> IF c \notin Waiting(w) THEN calls[c]
                 ELSE [calls[c] EXCEPT !.at = "over", !.denied = @ \/ FALSE]]
  BY DEF Fails, Ends
<1>3. \A c \in Waiting(w) : calls[c].at = "starting"
  BY DEF Waiting
<1>4. \A c \in Calls : /\ calls'[c] \in CallRecords
                       /\ calls'[c].intent = calls[c].intent /\ calls'[c].to = calls[c].to
                       /\ calls'[c].status = calls[c].status
                       /\ \/ calls'[c] = calls[c]
                          \/ calls'[c].at = "over" /\ calls[c].at = "starting"
  BY <1>1, <1>2, <1>3 DEF CallRecords
<1>5. calls' \in [Calls -> CallRecords]
  BY <1>2, <1>4
<1>6. ASSUME NEW r \in Receipts PROVE Keeps(r) /\ Truthful(r)
  <2>1. Rightly(r) /\ r \in Calls
    BY DEF Told, Calls
  <2> QED BY <1>4, <2>1 DEF Rightly, Keeps, Truthful
<1>7. \A c \in Calls : Goes(c)
  BY <1>4 DEF Goes
<1> QED BY <1>5, <1>6, <1>7

LEMMA FailsTells ==
    ASSUME Told, NEW w \in DOMAIN works, Fails(w), UNCHANGED <<intents, procs, process, stop>>
    PROVE  Told' /\ Forward
<1>1. /\ works' \in Seq(Works) /\ Len(works') = Len(works) /\ DOMAIN works' = DOMAIN works
      /\ works'[w].at = "over" /\ works'[w].cancelled = works[w].cancelled
      /\ works'[w].intent = works[w].intent
      /\ \A v \in DOMAIN works : v # w => works'[v] = works[v]
  BY OneWork DEF Fails
<1>2. /\ calls' \in [Calls -> CallRecords] /\ \A c \in Calls : Goes(c)
      /\ \A r \in Receipts : Keeps(r) /\ Truthful(r)
  BY FailsCalls
<1>3. Moves
  BY <1>1, TypedFacts DEF Told, Moves, Alive, Now
<1>4. \A r \in Receipts : Rightly(r)'
  BY <1>2, <1>3, KeepsRight
<1>5. Typed' /\ Linked' /\ OneUp' /\ Current'
  BY <1>1, <1>2 DEF Told, Typed, Linked, OneUp, Current, Now
<1>6. Busy'
  BY <1>1 DEF Told, Busy, Now
<1>7. Halting' /\ Lone'
  BY DEF Told, Halting, Lone, Quiet, Alive, Now
<1> QED BY <1>2, <1>3, <1>4, <1>5, <1>6, <1>7 DEF Told, Forward

\* The work that spawns is the last one, and it is the current intent that gets the
\* process: nothing runs, and no stop is under way.
LEMMA SpawnsTells ==
    ASSUME Owed, Told, NEW w \in DOMAIN works, works[w].at = "validating", ~works[w].cancelled,
           NEW up \in BOOLEAN, Spawns(w, up), UNCHANGED stop
    PROVE  Told' /\ Forward
<1> DEFINE n == Len(procs) + 1
           e == Launched(works[w].intent, up)
<1>1. IsSeq(procs) /\ Len(procs) \in Nat /\ DOMAIN procs = 1..Len(procs)
  BY SeqDomain DEF Owed, Formed
<1>2. /\ Now \in Nat /\ DOMAIN intents = 1..Now /\ Now \in DOMAIN intents
      /\ intents \in [1..Now -> Intents] /\ Len(works) \in Nat
  BY TypedFacts DEF Told, Typed
<1>3. w = Len(works) /\ works[w].intent = Now /\ ~stop.on /\ process = None
  BY DEF Told, Busy
<1>4. procs' = Append(procs, e)
  BY DEF Spawns
<1>5. e.intent = Now /\ e.at = (IF up THEN "up" ELSE "nospawn") /\ (~up => ~e.tree)
  BY <1>3 DEF Launched
<1> HIDE DEF e
<1>6. /\ DOMAIN procs' = DOMAIN procs \cup {n} /\ n \notin DOMAIN procs /\ n # None /\ n \in Nat
      /\ \A p \in DOMAIN procs : procs'[p] = procs[p]
      /\ procs'[n] = e
  <2>1. /\ DOMAIN procs' = 1..n /\ \A p \in DOMAIN procs : procs'[p] = procs[p]
        /\ procs'[n] = e
    BY <1>1, <1>4, Appended
  <2> QED BY <1>1, <2>1 DEF None
<1>7. \A p \in DOMAIN procs : procs[p].at # "up"
  <2>1. None \notin DOMAIN procs
    BY <1>1 DEF None
  <2> QED BY <1>3, <2>1 DEF Told, OneUp
<1>8. \A i \in DOMAIN intents :
        Quiet(i) => i = Now \/ (intents'[i].proc = intents[i].proc => Quiet(i)')
  BY <1>6 DEF Told, Linked, Quiet, Alive
<1>9. CASE up
  <2>1. /\ process' = n /\ works' = [works EXCEPT ![w].at = "starting"]
        /\ intents' = [intents EXCEPT ![Now].proc = n] /\ calls' = calls
    BY <1>3, <1>9 DEF Spawns
  <2>2. /\ works' \in Seq(Works) /\ Len(works') = Len(works) /\ DOMAIN works' = DOMAIN works
        /\ works'[w].at = "starting" /\ works'[w].cancelled = works[w].cancelled
        /\ works'[w].intent = works[w].intent
        /\ \A v \in DOMAIN works : v # w => works'[v] = works[v]
    BY <2>1, OneWork
  <2>3. /\ intents' \in [1..Now -> Intents] /\ intents'[Now].proc = n
        /\ \A i \in DOMAIN intents : /\ intents'[i].work = intents[i].work
                                     /\ intents'[i].error = intents[i].error
                                     /\ intents'[i].conf = intents[i].conf
                                     /\ i # Now => intents'[i].proc = intents[i].proc
    BY <1>2, <1>6, <2>1 DEF Intents
  <2>4. intents' \in Seq(Intents) /\ Now' = Now /\ DOMAIN intents' = DOMAIN intents
    BY <1>2, <2>3, Listed DEF Now
  <2>5. Moves
    <3>1. \A p \in DOMAIN procs : procs'[p].intent = procs[p].intent /\ (~Alive(p) => ~Alive(p)')
      BY <1>6 DEF Alive
    <3>2. \A v \in DOMAIN works : works[v].at = "over" => works'[v].at = "over"
      BY <2>2
    <3>3. DOMAIN procs \subseteq DOMAIN procs' /\ Now' >= Now
          /\ DOMAIN intents \subseteq DOMAIN intents'
      BY <1>2, <1>6, <2>4
    <3>4. \A i \in DOMAIN intents : i # Now => /\ intents'[i].work = intents[i].work
                                               /\ intents'[i].proc = intents[i].proc
      BY <2>3
    <3>5. \A i \in DOMAIN intents : intents[i].error => intents'[i].error
      BY <2>3
    <3> QED BY <2>2, <3>1, <3>2, <3>3, <3>4, <3>5 DEF Moves
  <2>6. Typed'
    BY <1>2, <2>1, <2>2, <2>4 DEF Told, Typed
  <2>7. Linked'
    BY <1>5, <1>6, <2>2, <2>3, <2>4 DEF Told, Linked
  <2>8. OneUp' /\ Current'
    BY <1>2, <1>5, <1>6, <1>7, <1>9, <2>1, <2>2, <2>3, <2>4 DEF Told, OneUp, Current
  <2>9. Busy' /\ Halting'
    BY <1>3, <2>2, <2>4 DEF Told, Busy, Halting
  <2>10. Lone'
    BY <1>8, <2>3, <2>4 DEF Told, Lone, Current
  <2>11. Forward /\ \A r \in Receipts : Rightly(r)'
    BY <1>3, <2>1, <2>5, CallsStay
  <2> QED BY <2>6, <2>7, <2>8, <2>9, <2>10, <2>11 DEF Told
<1>10. CASE ~up
  <2> DEFINE f == [intents EXCEPT ![Now].proc = n, ![Now].error = TRUE]
  <2>1. Fails(w) /\ process' = process /\ intents' = Append(f, NewIntent)
    BY <1>3, <1>10 DEF Spawns
  <2>2. /\ works' \in Seq(Works) /\ Len(works') = Len(works) /\ DOMAIN works' = DOMAIN works
        /\ works'[w].at = "over" /\ works'[w].cancelled = works[w].cancelled
        /\ works'[w].intent = works[w].intent
        /\ \A v \in DOMAIN works : v # w => works'[v] = works[v]
    BY <2>1, OneWork DEF Fails
  <2>3. /\ f \in [1..Now -> Intents] /\ f[Now].proc = n
        /\ \A i \in DOMAIN intents : /\ f[i].work = intents[i].work
                                     /\ f[i].conf = intents[i].conf
                                     /\ intents[i].error => f[i].error
                                     /\ i # Now => f[i].proc = intents[i].proc
    <3> DEFINE t == [intents[Now] EXCEPT !.proc = n, !.error = TRUE]
    <3>1. intents[Now] \in Intents /\ f = [intents EXCEPT ![Now] = t]
      BY <1>2, ZenonT(60)
    <3>2. /\ t \in Intents /\ t.proc = n /\ t.work = intents[Now].work
          /\ t.conf = intents[Now].conf /\ t.error
      BY <1>6, <3>1 DEF Intents
    <3> HIDE DEF t, f
    <3> QED BY <1>2, <3>1, <3>2
  <2>4. /\ NewIntent \in Intents /\ ~NewIntent.error /\ NewIntent.conf = "none"
        /\ NewIntent.proc = None /\ NewIntent.work = None
    BY DEF NewIntent, Intents, Confs, None
  <2> HIDE DEF f
  <2>5. /\ intents' \in Seq(Intents) /\ Now' = Now + 1 /\ DOMAIN intents' = 1..Now + 1
        /\ \A i \in 1..Now : intents'[i] = f[i]
        /\ intents'[Now + 1] = NewIntent
    <3>1. /\ Append(f, NewIntent) \in Seq(Intents) /\ Len(Append(f, NewIntent)) = Now + 1
          /\ DOMAIN Append(f, NewIntent) = 1..Now + 1
          /\ \A i \in 1..Now : Append(f, NewIntent)[i] = f[i]
          /\ Append(f, NewIntent)[Now + 1] = NewIntent
      BY <1>2, <2>3, <2>4, Extended
    <3> QED BY <2>1, <3>1 DEF Now
  <2>6. DOMAIN intents' = DOMAIN intents \cup {Now'} /\ Now' \notin DOMAIN intents /\ Now' # Now
    BY <1>2, <2>5
  <2>7. Moves
    <3>1. \A p \in DOMAIN procs : procs'[p].intent = procs[p].intent /\ (~Alive(p) => ~Alive(p)')
      BY <1>6 DEF Alive
    <3>2. \A v \in DOMAIN works : works[v].at = "over" => works'[v].at = "over"
      BY <2>2
    <3>3. DOMAIN procs \subseteq DOMAIN procs' /\ Now' >= Now
          /\ DOMAIN intents \subseteq DOMAIN intents'
      BY <1>2, <1>6, <2>5, <2>6
    <3>4. \A i \in DOMAIN intents : i # Now => /\ intents'[i].work = intents[i].work
                                               /\ intents'[i].proc = intents[i].proc
      BY <1>2, <2>3, <2>5
    <3>5. \A i \in DOMAIN intents : intents[i].error => intents'[i].error
      BY <1>2, <2>3, <2>5
    <3> QED BY <2>2, <3>1, <3>2, <3>3, <3>4, <3>5 DEF Moves
  <2>8. Typed'
    <3>1. calls' \in [Calls -> CallRecords]
      BY <2>1, FailsCalls
    <3> QED BY <1>2, <2>2, <2>5, <3>1 DEF Told, Typed
  <2>9. Linked'
    <3> SUFFICES ASSUME NEW i \in DOMAIN intents'
                 PROVE  /\ intents'[i].proc # None => /\ intents'[i].proc \in DOMAIN procs'
                                                      /\ procs'[intents'[i].proc].intent = i
                        /\ intents'[i].work # None => intents'[i].work \in DOMAIN works'
      BY DEF Linked
    <3>1. CASE i = Now'
      BY <2>4, <2>5, <3>1
    <3>2. CASE i \in DOMAIN intents
      <4>1. intents'[i].work = intents[i].work /\ intents'[i].proc = f[i].proc
        BY <1>2, <2>3, <2>5, <3>2
      <4>2. i # Now => intents'[i].proc = intents[i].proc
        BY <2>3, <3>2, <4>1
      <4> QED BY <1>5, <1>6, <2>2, <2>3, <3>2, <4>1, <4>2 DEF Told, Linked
    <3> QED BY <2>6, <3>1, <3>2
  <2>10. OneUp' /\ Current'
    BY <1>3, <1>5, <1>6, <1>7, <1>10, <2>1, <2>4, <2>5, <2>6 DEF Told, OneUp, Current
  <2>11. Busy' /\ Halting'
    BY <1>3, <2>2, <2>5 DEF Told, Busy, Halting
  <2>12. Lone'
    <3> SUFFICES ASSUME NEW i \in DOMAIN intents', intents'[i].conf = "own" PROVE Quiet(i)'
      BY DEF Lone
    <3>1. i \in DOMAIN intents /\ i # Now'
      BY <2>4, <2>5, <2>6
    <3>2. intents'[i] = f[i]
      BY <1>2, <2>5, <3>1
    <3>3. intents[i].conf = "own"
      BY <2>3, <3>1, <3>2
    <3>4. i # Now
      BY <3>3 DEF Told, Current
    <3>5. intents'[i].proc = intents[i].proc
      BY <2>3, <3>1, <3>2, <3>4
    <3>6. Quiet(i)
      BY <3>1, <3>3 DEF Told, Lone
    <3> QED BY <1>8, <3>1, <3>4, <3>5, <3>6
  <2>13. Forward /\ \A r \in Receipts : Rightly(r)'
    <3>1. (\A c \in Calls : Goes(c)) /\ \A r \in Receipts : Keeps(r) /\ Truthful(r)
      BY <2>1, FailsCalls
    <3> QED BY <1>3, <2>7, <3>1, KeepsRight DEF Forward
  <2> QED BY <2>8, <2>9, <2>10, <2>11, <2>12, <2>13 DEF Told
<1> QED BY <1>9, <1>10

LEMMA ValidatedTells ==
    ASSUME Owed, Told, NEW w \in DOMAIN works, Validated(w) PROVE Told' /\ Forward
<1>1. CASE Fails(w) /\ UNCHANGED <<intents, procs, process>>
  BY <1>1, FailsTells DEF Validated
<1>2. CASE ~works[w].cancelled /\ \E up \in BOOLEAN : Spawns(w, up)
  BY <1>2, SpawnsTells DEF Validated
<1> QED BY <1>1, <1>2 DEF Validated

LEMMA ReadyTells == ASSUME Owed, Told, Ready PROVE Told' /\ Forward
<1> DEFINE r == [procs[process] EXCEPT !.ready = TRUE]
           last == Len(works)
<1>1. process \in DOMAIN procs /\ Shaped(procs[process]) /\ process # None /\ process \in Nat
  BY ProcessFacts DEF Ready
<1>2. r.at = procs[process].at /\ r.intent = procs[process].intent
      /\ r.tree = procs[process].tree
  BY <1>1, ShapedFields DEF Places
<1>3. procs' = [procs EXCEPT ![process] = r] /\ UNCHANGED <<intents, process, stop>>
  BY DEF Ready
<1> HIDE DEF r
<1>4. /\ DOMAIN procs' = DOMAIN procs /\ procs'[process] = r
      /\ \A q \in DOMAIN procs : /\ procs'[q].intent = procs[q].intent
                                 /\ ~Alive(q) => ~Alive(q)'
                                 /\ procs'[q].at = "up" => procs[q].at = "up"
                                 /\ q # process => procs'[q] = procs[q]
  BY <1>1, <1>2, <1>3, OneMoves
<1>5. last \in DOMAIN works /\ works[last].at = "starting" /\ ~stop.on
      /\ works' = [works EXCEPT ![last].at = "over"]
  BY StartingFacts DEF Ready
<1>6. /\ works' \in Seq(Works) /\ Len(works') = Len(works) /\ DOMAIN works' = DOMAIN works
      /\ works'[last].at = "over" /\ works'[last].cancelled = works[last].cancelled
      /\ works'[last].intent = works[last].intent
      /\ \A v \in DOMAIN works : v # last => works'[v] = works[v]
  BY <1>5, OneWork
<1>7. Now \in Nat /\ Now' = Now
  BY <1>3, TypedFacts DEF Told, Now
<1>8. Moves
  BY <1>3, <1>4, <1>6, <1>7 DEF Moves
<1>9. ASSUME NEW c \in Calls
      PROVE  /\ calls'[c] \in CallRecords
             /\ calls'[c].intent = calls[c].intent
             /\ \/ calls'[c] = calls[c]
                \/ /\ calls[c].at = "starting" /\ calls'[c].at = "over"
                   /\ calls'[c].status = calls[c].status /\ calls'[c].to = calls[c].to
                \/ /\ calls[c].at = "starting" /\ Permitted(c) /\ calls'[c].at \in {"over", "sent"}
                   /\ calls'[c].to = process
                   /\ calls'[c].status = IF c \in Receipts THEN "running" ELSE calls[c].status
  <2>1. calls[c] \in CallRecords
    BY DEF Told, Typed
  <2>2. CASE calls[c].at # "starting"
    <3>1. calls'[c] = calls[c]
      BY <2>2 DEF Ready
    <3> QED BY <2>1, <3>1
  <2>3. CASE calls[c].at = "starting" /\ Permitted(c)
    <3>1. calls'[c] = Sends(c, process)
      BY <2>3 DEF Ready
    <3>2. LET s == Sends(c, process)
          IN /\ s \in CallRecords /\ s.intent = calls[c].intent /\ s.at \in {"over", "sent"}
             /\ s.to = process
             /\ s.status = IF c \in Receipts THEN "running" ELSE calls[c].status
      BY <1>1, <2>1 DEF Sends, CallRecords
    <3> QED BY <2>3, <3>1, <3>2
  <2>4. CASE calls[c].at = "starting" /\ ~Permitted(c)
    <3>1. calls'[c] = [calls[c] EXCEPT !.at = "over", !.denied = TRUE]
      BY <2>4 DEF Ready
    <3> QED BY <2>1, <2>4, <3>1 DEF CallRecords
  <2> QED BY <2>2, <2>3, <2>4
<1>10. calls' \in [Calls -> CallRecords]
  <2>1. calls' = [c \in Calls |-> calls'[c]]
    BY DEF Ready
  <2> QED BY <1>9, <2>1
<1>11. ASSUME NEW c \in Receipts PROVE Rightly(c)'
  <2>0. c \in Calls /\ Rightly(c)
    BY DEF Told, Calls
  <2>1. CASE calls'[c] = calls[c] \/ (/\ calls[c].at = "starting" /\ calls'[c].at = "over"
                                      /\ calls'[c].status = calls[c].status
                                      /\ calls'[c].to = calls[c].to)
    <3>1. Keeps(c) /\ Truthful(c)
      BY <1>9, <2>0, <2>1 DEF Keeps, Truthful, Rightly
    <3> QED BY <1>3, <1>8, <3>1, KeepsRight
  <2>2. CASE /\ calls[c].at = "starting" /\ Permitted(c) /\ calls'[c].at \in {"over", "sent"}
             /\ calls'[c].to = process /\ calls'[c].status = "running"
    <3>1. calls[c].intent = Now /\ intents[Now].proc = process
      BY <1>1, <1>5, <2>2 DEF Permitted
    <3>2. calls'[c].intent = Now /\ Now \in DOMAIN intents
      BY <1>9, <2>0, <3>1, TypedFacts DEF Told
    <3> QED BY <1>3, <2>2, <3>1, <3>2 DEF Rightly
  <2> QED BY <1>9, <2>0, <2>1, <2>2
<1>12. Typed' /\ Linked' /\ Current'
  BY <1>3, <1>4, <1>6, <1>7, <1>10 DEF Told, Typed, Linked, Current
<1>16. Forward
  BY <1>1, <1>8, <1>9 DEF Forward, Goes
<1>13. OneUp'
  BY <1>1, <1>2, <1>3, <1>4 DEF Told, OneUp
<1>14. Busy' /\ Halting'
  BY <1>3, <1>5, <1>6, <1>7 DEF Told, Busy, Halting
<1>15. Lone'
  BY <1>3, <1>4 DEF Told, Lone, Linked, Quiet
<1> QED BY <1>11, <1>12, <1>13, <1>14, <1>15, <1>16 DEF Told

---------------------------------------------------------------------------
(* Stops.                                                                  *)

\* A new intent follows the ones there are, of which the works and processes stay.
LEMMA IntentFollows ==
    ASSUME Told, NEW f \in [1..Now -> Intents], intents' = Append(f, NewIntent),
           \A i \in DOMAIN intents : f[i].work = intents[i].work /\ f[i].proc = intents[i].proc
    PROVE  /\ intents' \in Seq(Intents) /\ Now' = Now + 1
           /\ DOMAIN intents' = DOMAIN intents \cup {Now'} /\ Now' \notin DOMAIN intents
           /\ \A i \in DOMAIN intents : /\ intents'[i] = f[i]
                                        /\ intents'[i].work = intents[i].work
                                        /\ intents'[i].proc = intents[i].proc
           /\ ~intents'[Now'].error /\ intents'[Now'].conf = "none"
           /\ intents'[Now'].proc = None /\ intents'[Now'].work = None
<1>1. Now \in Nat /\ DOMAIN intents = 1..Now
  BY TypedFacts DEF Told
<1>2. /\ NewIntent \in Intents /\ ~NewIntent.error /\ NewIntent.conf = "none"
      /\ NewIntent.proc = None /\ NewIntent.work = None
  BY DEF NewIntent, Intents, Confs, None
<1>3. /\ Append(f, NewIntent) \in Seq(Intents) /\ Len(Append(f, NewIntent)) = Now + 1
      /\ DOMAIN Append(f, NewIntent) = 1..Now + 1
      /\ \A i \in 1..Now : Append(f, NewIntent)[i] = f[i]
      /\ Append(f, NewIntent)[Now + 1] = NewIntent
  BY <1>1, <1>2, Extended
<1>4. /\ intents' \in Seq(Intents) /\ Now' = Now + 1 /\ DOMAIN intents' = 1..Now + 1
      /\ \A i \in 1..Now : intents'[i] = f[i]
      /\ intents'[Now + 1] = NewIntent
  BY <1>3 DEF Now
<1> QED BY <1>1, <1>2, <1>4

\* The stop closes the input of the process at most.
LEMMA StopsProcs ==
    ASSUME Owed, NEW over, Stops(over)
    PROVE  /\ DOMAIN procs' = DOMAIN procs
           /\ \A p \in DOMAIN procs : /\ procs'[p].intent = procs[p].intent
                                      /\ procs'[p].at = procs[p].at
                                      /\ procs'[p].tree = procs[p].tree
<1>1. procs' = [p \in DOMAIN procs |->
                  IF (~failed /\ ~stop.on /\ process # None) /\ p = process /\ platform # "windows"
                  THEN [procs[p] EXCEPT !.open = FALSE] ELSE procs[p]]
  BY DEF Stops
<1>2. \A p \in DOMAIN procs : LET s == [procs[p] EXCEPT !.open = FALSE]
                               IN /\ s.intent = procs[p].intent /\ s.at = procs[p].at
                                  /\ s.tree = procs[p].tree
  BY ShapedFields DEF Owed, Formed, Places
<1> QED BY <1>1, <1>2

\* The works that may not go on, and no other start is under way.
LEMMA StopsWorks ==
    ASSUME Told, NEW over, Stops(over)
    PROVE  /\ works' \in Seq(Works) /\ Len(works') = Len(works) /\ DOMAIN works' = DOMAIN works
           /\ \A w \in DOMAIN works : /\ works[w].at = "over" => works'[w].at = "over"
                                      /\ works'[w].at = "over" \/ works'[w].cancelled
<1>1. /\ Len(works) \in Nat /\ DOMAIN works = 1..Len(works)
      /\ \A w \in DOMAIN works : works[w] \in Works
  BY TypedFacts DEF Told
<1>2. works' = [w \in DOMAIN works |->
                  IF w # Len(works) \/ ~Starting THEN works[w]
                  ELSE [works[w] EXCEPT !.cancelled = TRUE,
                                        !.at = IF @ = "starting" THEN "over" ELSE @]]
  BY DEF Stops
<1>3. ASSUME NEW w \in DOMAIN works
      PROVE  /\ works'[w] \in Works /\ (works[w].at = "over" => works'[w].at = "over")
             /\ works'[w].at = "over" \/ works'[w].cancelled
  <2>1. CASE w # Len(works) \/ ~Starting
    <3>1. works'[w] = works[w]
      BY <1>2, <2>1
    <3>2. works[w].at = "over" \/ works[w].cancelled
      BY <2>1, StartingFacts DEF Told, Busy
    <3> QED BY <1>1, <3>1, <3>2
  <2>2. CASE w = Len(works) /\ Starting
    <3>1. works'[w] = [works[w] EXCEPT !.cancelled = TRUE,
                                        !.at = IF @ = "starting" THEN "over" ELSE @]
      BY <1>2, <2>2
    <3> QED BY <1>1, <3>1 DEF Works
  <2> QED BY <2>1, <2>2
<1>4. works' \in [1..Len(works) -> Works]
  BY <1>1, <1>2, <1>3
<1>5. works' \in Seq(Works) /\ Len(works') = Len(works)
  BY <1>1, <1>4, Listed
<1> QED BY <1>1, <1>3, <1>4, <1>5

LEMMA StopsCalls ==
    ASSUME Told, NEW over, Stops(over),
           \A c \in Calls \cap over : calls[c].at \notin {"new", "made"}
    PROVE  /\ calls' \in [Calls -> CallRecords] /\ \A c \in Calls : Goes(c)
           /\ \A r \in Receipts : Keeps(r) /\ Truthful(r)
<1> DEFINE struck == {r \in Receipts : Owned(r) /\ calls[r].intent = Now}
<1>1. \A c \in Calls : calls[c] \in CallRecords
  BY DEF Told, Typed
<1>2. calls' = [c \in Calls |->
                  [calls[c] EXCEPT
                     !.at = IF @ \in {"starting", "sent"} \/ c \in over
                               \/ (c \in struck /\ @ = "behind") THEN "over" ELSE @,
                     !.status = IF c \notin struck THEN @
                                ELSE IF failed THEN "unconfirmed" ELSE "stopping",
                     !.denied = @ \/ c \in struck]]
  BY DEF Stops
<1>3. \A c \in struck : calls[c].status \notin {"none", "completed", "confirmed"}
  BY DEF Owned
<1> HIDE DEF struck
<1>4. ASSUME NEW c \in Calls
      PROVE  /\ calls'[c] \in CallRecords
             /\ calls'[c].intent = calls[c].intent /\ calls'[c].to = calls[c].to
             /\ \/ calls'[c].at = calls[c].at
                \/ calls'[c].at = "over" /\ calls[c].at \in {"behind", "starting", "sent"}
             /\ \/ calls'[c].status = calls[c].status /\ calls'[c].denied = calls[c].denied
                \/ /\ c \in struck /\ calls'[c].status \in {"unconfirmed", "stopping"}
                   /\ calls'[c].denied
  <2>1. calls'[c] = [calls[c] EXCEPT
                       !.at = IF @ \in {"starting", "sent"} \/ c \in over
                                 \/ (c \in struck /\ @ = "behind") THEN "over" ELSE @,
                       !.status = IF c \notin struck THEN @
                                  ELSE IF failed THEN "unconfirmed" ELSE "stopping",
                       !.denied = @ \/ c \in struck]
    BY <1>2
  <2>2. CASE c \in struck
    BY <1>1, <2>1, <2>2 DEF CallRecords
  <2>3. CASE c \notin struck
    BY <1>1, <2>1, <2>3 DEF CallRecords
  <2> QED BY <2>2, <2>3
<1>5. calls' \in [Calls -> CallRecords]
  BY <1>2, <1>4
<1>6. ASSUME NEW r \in Receipts PROVE Keeps(r) /\ Truthful(r)
  <2>1. Rightly(r) /\ r \in Calls
    BY DEF Told, Calls
  <2> QED BY <1>3, <1>4, <2>1 DEF Rightly, Keeps, Truthful
<1>7. \A c \in Calls : Goes(c)
  BY <1>3, <1>4 DEF Goes
<1> QED BY <1>5, <1>6, <1>7

\* All that the intent of the stop had is what the stop waits for.
LEMMA StopsTells ==
    ASSUME Owed, Told, NEW over, Stops(over),
           \A c \in Calls \cap over : calls[c].at \notin {"new", "made"}
    PROVE  Told' /\ Forward /\ Now' = Now + 1 /\ intents'[Now].error
           /\ intents'[Now'].proc = None
<1> DEFINE conf == IF failed THEN "bad" ELSE IF stop.on THEN "own" ELSE "open"
           f == [intents EXCEPT ![Now].error = TRUE, ![Now].conf = conf]
<1>1. /\ Now \in Nat /\ DOMAIN intents = 1..Now /\ Now \in DOMAIN intents
      /\ intents \in [1..Now -> Intents] /\ Len(works) \in Nat
  BY TypedFacts DEF Told, Typed
<1>2. /\ f \in [1..Now -> Intents] /\ f[Now].conf = conf /\ f[Now].error
      /\ \A i \in DOMAIN intents : /\ f[i].work = intents[i].work /\ f[i].proc = intents[i].proc
                                   /\ i # Now => f[i].conf = intents[i].conf
                                   /\ intents[i].error => f[i].error
  <2>1. conf \in Confs
    BY DEF Confs
  <2> HIDE DEF conf
  <2> QED BY <1>1, <2>1 DEF Intents
<1>3. intents' = Append(f, NewIntent)
  BY DEF Stops
<1> HIDE DEF f
<1>4. /\ intents' \in Seq(Intents) /\ Now' = Now + 1
      /\ DOMAIN intents' = DOMAIN intents \cup {Now'} /\ Now' \notin DOMAIN intents
      /\ \A i \in DOMAIN intents : /\ intents'[i] = f[i]
                                   /\ intents'[i].work = intents[i].work
                                   /\ intents'[i].proc = intents[i].proc
      /\ ~intents'[Now'].error /\ intents'[Now'].conf = "none"
      /\ intents'[Now'].proc = None /\ intents'[Now'].work = None
  BY <1>2, <1>3, IntentFollows
<1>5. /\ DOMAIN procs' = DOMAIN procs
      /\ \A p \in DOMAIN procs : /\ procs'[p].intent = procs[p].intent
                                 /\ procs'[p].at = procs[p].at
                                 /\ procs'[p].tree = procs[p].tree
  BY StopsProcs
<1>6. /\ works' \in Seq(Works) /\ Len(works') = Len(works) /\ DOMAIN works' = DOMAIN works
      /\ \A w \in DOMAIN works : /\ works[w].at = "over" => works'[w].at = "over"
                                 /\ works'[w].at = "over" \/ works'[w].cancelled
  BY StopsWorks
<1>7. /\ calls' \in [Calls -> CallRecords] /\ \A c \in Calls : Goes(c)
      /\ \A r \in Receipts : Keeps(r) /\ Truthful(r)
  BY StopsCalls
<1>8. process' = process /\ process \in {None} \cup DOMAIN procs /\ process \in Nat
  BY ProcessFacts DEF Stops
<1>9. Moves
  BY <1>1, <1>2, <1>4, <1>5, <1>6 DEF Moves, Alive
<1>10. \/ /\ ~failed /\ ~stop.on /\ stop' \in Barriers /\ stop'.on /\ stop'.intent = Now
          /\ stop'.proc = process /\ stop'.work = Len(works)
       \/ (failed \/ stop.on) /\ stop' = stop
  <2>1. CASE ~failed /\ ~stop.on
    <3> DEFINE s == [on |-> TRUE, proc |-> process, work |-> Len(works), intent |-> Now,
                     util |-> process # None /\ platform = "windows"]
    <3>1. stop' = s
      BY <2>1 DEF Stops
    <3>2. s \in Barriers /\ s.on /\ s.intent = Now /\ s.proc = process /\ s.work = Len(works)
      BY <1>1, <1>8 DEF Barriers
    <3> HIDE DEF s
    <3> QED BY <2>1, <3>1, <3>2
  <2>2. CASE failed \/ stop.on
    BY <2>2 DEF Stops
  <2> QED BY <2>1, <2>2
<1>11. Typed'
  BY <1>1, <1>4, <1>6, <1>7, <1>10 DEF Told, Typed
<1>12. Linked'
  BY <1>4, <1>5, <1>6 DEF Told, Linked
<1>13. OneUp' /\ Current'
  BY <1>4, <1>5, <1>8 DEF Told, OneUp, Current
<1>14. Busy'
  BY <1>6 DEF Busy
<1>15. Halting'
  <2>1. CASE stop' = stop
    BY <1>4, <1>8, <2>1 DEF Told, Halting
  <2>2. CASE /\ stop'.intent = Now /\ stop'.proc = process /\ stop'.work = Len(works)
    <3>1. /\ intents'[Now].work \in {None, Len(works)} /\ intents'[Now].proc \in {None, process}
          /\ Now \in DOMAIN intents' /\ Now # Now'
      BY <1>1, <1>4 DEF Told, Current
    <3> QED BY <1>4, <1>8, <2>2, <3>1 DEF Halting
  <2> QED BY <1>10, <2>1, <2>2
<1>16. Lone'
  <2> SUFFICES ASSUME NEW i \in DOMAIN intents, intents'[i].conf = "own" PROVE Quiet(i)'
    BY <1>4 DEF Lone
  <2>1. CASE i = Now
    BY <1>2, <1>4, <2>1 DEF Told, Halting, Quiet
  <2>2. CASE i # Now
    BY <1>2, <1>4, <1>9, <2>2, DonePersists DEF Told, Lone
  <2> QED BY <2>1, <2>2
<1>17. \A r \in Receipts : Rightly(r)'
  BY <1>1, <1>4, <1>7, <1>9, KeepsRight
<1> QED BY <1>1, <1>2, <1>4, <1>7, <1>9, <1>11, <1>12, <1>13, <1>14, <1>15, <1>16, <1>17 DEF Told, Forward

\* Another word on an intent that is closed.
LEMMA ConfChanges ==
    ASSUME Told, NEW i \in DOMAIN intents, i # Now, NEW v \in Confs,
           intents' = [intents EXCEPT ![i].conf = v]
    PROVE  /\ intents' \in Seq(Intents) /\ intents' \in [1..Now -> Intents]
           /\ Now' = Now /\ DOMAIN intents' = DOMAIN intents
           /\ \A j \in DOMAIN intents : /\ intents'[j].work = intents[j].work
                                        /\ intents'[j].proc = intents[j].proc
                                        /\ intents'[j].error = intents[j].error
                                        /\ j # i => intents'[j].conf = intents[j].conf
           /\ intents'[i].conf = v
<1>1. Now \in Nat /\ DOMAIN intents = 1..Now /\ intents \in [1..Now -> Intents]
  BY TypedFacts DEF Told, Typed
<1>2. /\ intents' \in [1..Now -> Intents]
      /\ \A j \in DOMAIN intents : /\ intents'[j].work = intents[j].work
                                   /\ intents'[j].proc = intents[j].proc
                                   /\ intents'[j].error = intents[j].error
                                   /\ j # i => intents'[j].conf = intents[j].conf
      /\ intents'[i].conf = v
  BY <1>1 DEF Intents
<1>3. intents' \in Seq(Intents) /\ Len(intents') = Now
  BY <1>1, <1>2, Listed
<1> QED BY <1>1, <1>2, <1>3 DEF Now

LEMMA ConfTells ==
    ASSUME Told, NEW i \in DOMAIN intents, i # Now, NEW v \in Confs, v = "own" => Quiet(i),
           intents' = [intents EXCEPT ![i].conf = v], UNCHANGED <<works, procs, process>>,
           stop' = stop \/ stop'.on = FALSE
    PROVE  /\ intents' \in Seq(Intents) /\ Now' = Now /\ Moves
           /\ Linked' /\ OneUp' /\ Current' /\ Busy' /\ Halting' /\ Lone'
<1>1. /\ intents' \in Seq(Intents) /\ Now' = Now /\ DOMAIN intents' = DOMAIN intents
      /\ \A j \in DOMAIN intents : /\ intents'[j].work = intents[j].work
                                   /\ intents'[j].proc = intents[j].proc
                                   /\ intents'[j].error = intents[j].error
                                   /\ j # i => intents'[j].conf = intents[j].conf
  BY ConfChanges
<1>2. Now \in Nat /\ Now \in DOMAIN intents
  BY TypedFacts DEF Told
<1>3. Moves
  BY <1>1, <1>2 DEF Moves, Alive
<1>4. Linked' /\ OneUp' /\ Current'
  BY <1>1, <1>2 DEF Told, Linked, OneUp, Current
<1>5. Busy' /\ Halting'
  BY <1>1, <1>2 DEF Told, Busy, Halting
<1>6. Lone'
  <2>1. v = "own" \/ intents'[i].conf # "own"
    BY ConfChanges
  <2> QED BY <1>1, <2>1 DEF Told, Lone, Quiet, Alive
<1> QED BY <1>1, <1>3, <1>4, <1>5, <1>6

\* Cancelled before it was used, drained by its own intent, or stopped with it.
LEMMA CancelsTells ==
    ASSUME Owed, Told, NEW r \in Receipts, Cancels(r) PROVE Told' /\ Forward
<1> DEFINE o == calls[r]
           i == o.intent
<1>1. o \in CallRecords /\ calls \in [Calls -> CallRecords] /\ r \in Calls /\ Rightly(r)
  BY DEF Told, Typed, Calls
<1>2. CASE /\ o.at = "made" /\ Owned(r)
           /\ calls' = [calls EXCEPT ![r].status = "confirmed", ![r].denied = TRUE]
           /\ UNCHANGED <<intents, works, procs, stop, process>>
  <2> DEFINE n == [o EXCEPT !.status = "confirmed", !.denied = TRUE]
  <2>1. /\ n \in CallRecords /\ n.at = "made" /\ n.denied /\ n.intent = i /\ n.to = o.to
    BY <1>1, <1>2 DEF CallRecords
  <2>2. calls' = [calls EXCEPT ![r] = n]
    BY <1>1, <1>2
  <2> HIDE DEF n
  <2>3. calls'[r] = n
    BY <1>1, <2>2
  <2>4. Rightly(r)'
    BY <1>1, <1>2, <2>1, <2>3 DEF Rightly
  <2>5. \A c \in Calls : Goes(c)
    BY <1>1, <1>2, <2>1, <2>2, <2>3 DEF Goes
  <2> QED BY <1>1, <1>2, <2>1, <2>2, <2>4, <2>5, OneCall DEF Forward
<1>3. CASE /\ Owned(r) /\ Used(r) /\ intents[i].error
           /\ intents[i].proc # None
           /\ procs[intents[i].proc].at = "nospawn" \/
              (platform # "windows" /\ procs[intents[i].proc].at # "up")
           /\ intents' = [intents EXCEPT ![i].conf = "own"]
           /\ calls' = [calls EXCEPT ![r].status = "stopping", ![r].denied = TRUE, ![r].at = "over"]
           /\ UNCHANGED <<works, procs, stop, process>>
  <2> DEFINE n == [o EXCEPT !.status = "stopping", !.denied = TRUE, !.at = "over"]
  <2>1. o.at \notin {"new", "made"} /\ i \in DOMAIN intents /\ i # Now
    BY <1>1, <1>3 DEF Owned, Used, Rightly, Told, Current
  <2>2. Quiet(i)
    <3>1. intents[i].proc \in DOMAIN procs
      BY <1>3, <2>1 DEF Told, Linked
    <3> QED BY <1>3, <3>1 DEF Quiet, Alive, Owed, Accounted, Told, OneUp
  <2>3. /\ intents' \in Seq(Intents) /\ Now' = Now /\ Moves
        /\ Linked' /\ OneUp' /\ Current' /\ Busy' /\ Halting' /\ Lone'
    <3>1. PICK j \in DOMAIN intents : j = i
      BY <2>1
    <3>2. "own" \in Confs
      BY DEF Confs
    <3> QED BY <1>3, <2>1, <2>2, <3>1, <3>2, ConfTells
  <2>4. /\ n \in CallRecords /\ n.at = "over" /\ n.status = "stopping" /\ n.intent = i
        /\ n.to = o.to
    BY <1>1 DEF CallRecords
  <2>5. calls' = [calls EXCEPT ![r] = n]
    BY <1>1, <1>3
  <2> HIDE DEF n
  <2>6. Typed'
    <3>1. calls' \in [Calls -> CallRecords]
      BY <2>4, <2>5 DEF Told, Typed
    <3>2. works' \in Seq(Works) /\ stop' \in Barriers /\ Now > 0
      BY <1>3 DEF Told, Typed
    <3> QED BY <2>3, <3>1, <3>2 DEF Typed
  <2>7. ASSUME NEW q \in Receipts PROVE Rightly(q)'
    <3>1. Rightly(q) /\ q \in Calls
      BY DEF Told, Calls
    <3>2. q = r => Keeps(q) /\ Truthful(q)
      <4>1. calls'[r] = n
        BY <1>1, <2>5
      <4> QED BY <2>1, <2>4, <4>1 DEF Keeps, Truthful
    <3>3. q # r => Keeps(q) /\ Truthful(q)
      <4>1. q # r => calls'[q] = calls[q]
        BY <1>1, <2>5, <3>1
      <4> QED BY <3>1, <4>1 DEF Keeps, Truthful, Rightly
    <3>4. intents'[Now].proc = intents[Now].proc
      BY <1>3, <2>1, TypedFacts, ConfChanges DEF Told, Confs
    <3> QED BY <2>3, <3>2, <3>3, <3>4, KeepsRight
  <2>8. \A c \in Calls : Goes(c)
    <3>1. calls'[r] = n /\ \A c \in Calls \ {r} : calls'[c] = calls[c]
      BY <1>1, <2>5
    <3>2. o.at \in {"behind", "starting", "sent", "over"} /\ o.status \notin {"completed", "confirmed"}
      BY <1>1, <1>3, <2>1 DEF CallRecords, Owned
    <3> QED BY <2>4, <3>1, <3>2 DEF Goes
  <2> QED BY <2>3, <2>6, <2>7, <2>8 DEF Told, Forward
<1>4. CASE Owned(r) /\ Used(r) /\ Stops({r})
  <2>1. o.at \notin {"new", "made"}
    BY <1>1, <1>4 DEF Owned, Used, Rightly
  <2> QED BY <1>4, <2>1, StopsTells
<1> QED BY <1>2, <1>3, <1>4 DEF Cancels

LEMMA ConfirmsTells ==
    ASSUME Told, NEW i \in DOMAIN intents, Confirms(i) PROVE Told' /\ Forward
<1> DEFINE ends == [c \in Calls |-> IF Owned(c) /\ calls[c].intent = i
                                    THEN [calls[c] EXCEPT !.status = "confirmed", !.denied = TRUE]
                                    ELSE calls[c]]
<1>1. /\ intents[i].conf = "own" /\ Over(intents[i].work)
      /\ intents' = [intents EXCEPT ![i].conf = "ok"] /\ calls' = ends
      /\ UNCHANGED <<works, procs, process, stop>>
  BY DEF Confirms
<1>2. i # Now /\ Done(i)
  BY <1>1 DEF Told, Current, Lone, Done
<1>3. /\ intents' \in Seq(Intents) /\ Now' = Now /\ Moves
      /\ Linked' /\ OneUp' /\ Current' /\ Busy' /\ Halting' /\ Lone'
  BY <1>1, <1>2, ConfTells DEF Confs
<1>4. Done(i)' /\ i # Now'
  BY <1>2, <1>3, DonePersists
<1>5. intents'[Now].proc = intents[Now].proc
  BY <1>1, <1>2, TypedFacts, ConfChanges DEF Told, Confs
<1>6. ASSUME NEW c \in Calls
      PROVE  /\ calls'[c] \in CallRecords
             /\ \/ calls'[c] = calls[c]
                \/ /\ calls[c].intent = i /\ calls'[c].intent = i
                   /\ calls[c].status \notin {"none", "completed", "confirmed"}
                   /\ calls'[c].at = calls[c].at /\ calls'[c].to = calls[c].to
                   /\ calls'[c].status = "confirmed" /\ calls'[c].denied
  <2>1. calls[c] \in CallRecords
    BY DEF Told, Typed
  <2> QED BY <1>1, <2>1 DEF CallRecords, Owned
<1>7. calls' \in [Calls -> CallRecords]
  BY <1>1, <1>6
<1>8. ASSUME NEW r \in Receipts PROVE Rightly(r)'
  <2>1. Rightly(r) /\ r \in Calls
    BY DEF Told, Calls
  <2>2. Keeps(r)
    BY <1>6, <2>1 DEF Keeps, Rightly
  <2>3. Truthful(r)
    <3>1. calls'[r] = calls[r] \/ calls'[r].intent = i
      BY <1>6, <2>1
    <3> QED BY <1>4, <3>1 DEF Truthful
  <2> QED BY <1>3, <1>5, <2>2, <2>3, KeepsRight
<1>9. Typed'
  BY <1>1, <1>3, <1>7 DEF Told, Typed
<1>10. Forward
  BY <1>3, <1>6 DEF Forward, Goes
<1> QED BY <1>3, <1>8, <1>9, <1>10 DEF Told

\* When the barrier resolves, all that its intent had is over, with its descendants.
LEMMA BarrierDone ==
    ASSUME Owed, Told, stop.on, Over(stop.work), Terminated(stop.proc)
    PROVE  /\ Done(stop.intent) /\ process = None
           /\ stop.proc # None => ~procs[stop.proc].tree
<1>1. /\ stop.intent \in DOMAIN intents
      /\ intents[stop.intent].work \in {None, stop.work}
      /\ intents[stop.intent].proc \in {None, stop.proc}
      /\ process \in {None, stop.proc}
  BY DEF Told, Halting
<1>2. stop.proc \in {None} \cup DOMAIN procs /\ platform \in Platforms
  BY DEF Owed, Formed
<1>3. stop.proc # None => Gone(stop.proc) /\ (platform = "windows" => ~stop.util)
  BY <1>2 DEF Terminated, Platforms
<1>4. stop.proc # None => procs[stop.proc].at # "up"
  BY <1>3 DEF Gone, Closed
<1>5. stop.proc # None => ~procs[stop.proc].tree
  BY <1>2, <1>3 DEF Owed, Accounted, Killed
<1>6. Over(intents[stop.intent].work)
  BY <1>1 DEF Over
<1>7. Quiet(stop.intent)
  BY <1>1, <1>4, <1>5 DEF Quiet, Alive
<1>8. process = None
  BY <1>1, <1>4 DEF Told, OneUp
<1> QED BY <1>5, <1>6, <1>7, <1>8 DEF Done

\* What the end of a barrier says of a call, and whether it goes on.
LEMMA SettledCall ==
    ASSUME Told, NEW c \in Calls, NEW how \in {"confirmed", "unconfirmed"}, NEW at,
           at = calls[c].at \/ (calls[c].at = "behind" /\ at \in {"over", "starting"}),
           calls'[c] = [Settled(how)[c] EXCEPT !.at = at]
    PROVE  /\ calls'[c] \in CallRecords /\ Goes(c) /\ (c \in Receipts => Keeps(c))
           /\ calls[c].at = "made" => calls'[c].at = "made"
           /\ \/ calls'[c].status = calls[c].status
              \/ calls'[c].intent = stop.intent /\ calls'[c].status = how
<1> DEFINE s == Settled(how)[c]
<1>1. calls[c] \in CallRecords
  BY DEF Told, Typed
<1>2. /\ s \in CallRecords /\ s.intent = calls[c].intent /\ s.to = calls[c].to
      /\ s.at = calls[c].at /\ s.denied = calls[c].denied
      /\ \/ s.status = calls[c].status
         \/ /\ calls[c].status = "stopping" /\ s.status = how /\ calls[c].intent = stop.intent
  BY <1>1 DEF Settled, CallRecords
<1> HIDE DEF s
<1>3. at \in {"new", "made", "behind", "starting", "sent", "over"}
  BY <1>1 DEF CallRecords
<1>4. calls'[c] = [s EXCEPT !.at = at]
  BY DEF s
<1>5. /\ calls'[c] \in CallRecords /\ calls'[c].intent = s.intent /\ calls'[c].to = s.to
      /\ calls'[c].at = at /\ calls'[c].denied = s.denied /\ calls'[c].status = s.status
  BY <1>2, <1>3, <1>4 DEF CallRecords
<1>6. c \in Receipts => Keeps(c)
  BY <1>2, <1>5 DEF Told, Rightly, Keeps
<1>7. Goes(c)
  BY <1>2, <1>5 DEF Goes
<1> QED BY <1>2, <1>5, <1>6, <1>7

LEMMA StopEndsTells == ASSUME Owed, Told, StopEnds PROVE Told' /\ Forward
<1>0. PICK i : i = stop.intent
  OBVIOUS
<1>1. stop.on /\ Over(stop.work) /\ Terminated(stop.proc) /\ stop' = NoStop
      /\ UNCHANGED <<procs, process>>
  BY DEF StopEnds
<1>2. i \in DOMAIN intents /\ i # Now /\ Done(i) /\ process = None
  BY <1>0, <1>1, BarrierDone DEF Told, Halting
<1>3. NoStop \in Barriers /\ NoStop.on = FALSE
  BY DEF NoStop, Barriers, None
<1>4. ASSUME NEW c \in Calls
      PROVE  \E at : /\ at = calls[c].at \/ (calls[c].at = "behind" /\ at \in {"over", "starting"})
                     /\ calls'[c] = [Settled("confirmed")[c] EXCEPT !.at = at]
  <2> DEFINE s == Settled("confirmed")[c]
  <2>1. calls[c] \in CallRecords
    BY DEF Told, Typed
  <2>2. s = [s EXCEPT !.at = calls[c].at]
    BY <2>1 DEF Settled, CallRecords
  <2>3. [[s EXCEPT !.at = "over"] EXCEPT !.at = "starting"] = [s EXCEPT !.at = "starting"]
    BY <2>1 DEF Settled, CallRecords
  <2>4. c \in GoesOn \/ c \in Queued => calls[c].at = "behind"
    BY DEF GoesOn, Queued
  <2>5. \/ calls'[c] = s
        \/ c \in Queued \ GoesOn /\ calls'[c] = [s EXCEPT !.at = "over"]
        \/ c \in GoesOn /\ calls'[c] = [s EXCEPT !.at = "starting"]
    <3>1. CASE GoesOn = {}
      BY <3>1 DEF StopEnds
    <3>2. CASE GoesOn # {}
      BY <3>2 DEF StopEnds
    <3> QED BY <3>1, <3>2
  <2> HIDE DEF s
  <2>6. \/ calls'[c] = [s EXCEPT !.at = calls[c].at]
        \/ calls[c].at = "behind" /\ calls'[c] = [s EXCEPT !.at = "over"]
        \/ calls[c].at = "behind" /\ calls'[c] = [s EXCEPT !.at = "starting"]
    BY <2>2, <2>4, <2>5
  <2> QED BY <2>6 DEF s
<1>5. ASSUME NEW c \in Calls
      PROVE  /\ calls'[c] \in CallRecords /\ Goes(c) /\ (c \in Receipts => Keeps(c))
             /\ calls[c].at = "made" => calls'[c].at = "made"
             /\ \/ calls'[c].status = calls[c].status
                \/ calls'[c].intent = i /\ calls'[c].status = "confirmed"
  <2>1. PICK at : /\ at = calls[c].at \/ (calls[c].at = "behind" /\ at \in {"over", "starting"})
                  /\ calls'[c] = [Settled("confirmed")[c] EXCEPT !.at = at]
    BY <1>4
  <2> QED BY <1>0, <2>1, SettledCall
<1>6. calls' \in [Calls -> CallRecords]
  <2>1. calls' = [c \in Calls |-> calls'[c]]
    BY DEF StopEnds
  <2> QED BY <1>5, <2>1
<1>7. /\ intents' \in Seq(Intents) /\ works' \in Seq(Works) /\ Now' = Now /\ Moves
      /\ Linked' /\ OneUp' /\ Current' /\ Busy' /\ Halting' /\ Lone'
      /\ intents'[Now].proc = intents[Now].proc
  <2> DEFINE confirmed == [intents EXCEPT ![i].conf = "ok"]
  <2>1. CASE GoesOn = {}
    <3>1. intents' = confirmed /\ works' = works
      BY <1>0, <2>1 DEF StopEnds
    <3>2. "ok" \in Confs /\ Now \in DOMAIN intents /\ works \in Seq(Works)
      BY TypedFacts DEF Confs, Told, Typed
    <3>3. intents'[Now].proc = intents[Now].proc
      BY <1>2, <3>1, <3>2, ConfChanges
    <3> QED BY <1>1, <1>2, <1>3, <3>1, <3>2, <3>3, ConfTells
  <2>2. CASE GoesOn # {}
    <3>1. /\ works' = Append(works, [at |-> "validating", intent |-> Now, cancelled |-> FALSE])
          /\ intents' = [confirmed EXCEPT ![Now].work = Len(works) + 1]
      BY <1>0, <2>2 DEF StopEnds
    <3>2. /\ Now \in DOMAIN intents /\ DOMAIN intents = 1..Now /\ Len(works) + 1 \in Nat
          /\ intents \in [1..Now -> Intents]
      BY TypedFacts DEF Told, Typed
    <3>3. /\ confirmed \in [1..Now -> Intents]
          /\ \A j \in DOMAIN intents : /\ confirmed[j].work = intents[j].work
                                       /\ confirmed[j].proc = intents[j].proc
                                       /\ confirmed[j].error = intents[j].error
                                       /\ confirmed[j].conf = "own" => intents[j].conf = "own"
          /\ confirmed[Now].conf = intents[Now].conf
      BY <1>2, <3>2 DEF Intents, Confs
    <3> HIDE DEF confirmed
    <3>4. /\ intents' \in [1..Now -> Intents]
          /\ \A j \in DOMAIN intents : /\ intents'[j].proc = intents[j].proc
                                       /\ intents'[j].error = intents[j].error
                                       /\ intents'[j].conf = "own" => intents[j].conf = "own"
                                       /\ j # Now => intents'[j].work = intents[j].work
          /\ intents'[Now].work = Len(works) + 1 /\ intents'[Now].conf = "none"
      <4>1. intents[Now].conf = "none"
        BY DEF Told, Current
      <4>2. confirmed[Now] \in Intents
        BY <3>2, <3>3
      <4>3. intents'[Now] = [confirmed[Now] EXCEPT !.work = Len(works) + 1]
            /\ \A j \in DOMAIN intents : j # Now => intents'[j] = confirmed[j]
        BY <3>1, <3>2, <3>3
      <4>4. /\ intents'[Now] \in Intents /\ intents'[Now].work = Len(works) + 1
            /\ intents'[Now].proc = confirmed[Now].proc
            /\ intents'[Now].error = confirmed[Now].error
            /\ intents'[Now].conf = confirmed[Now].conf
        BY <3>2, <4>2, <4>3 DEF Intents
      <4>5. intents' \in [1..Now -> Intents]
        BY <3>1, <3>2, <3>3, <4>3, <4>4
      <4>6. intents'[Now].conf = "none"
        BY <3>3, <4>1, <4>4
      <4>7. \A j \in DOMAIN intents : /\ intents'[j].proc = intents[j].proc
                                      /\ intents'[j].error = intents[j].error
        BY <3>3, <4>3, <4>4
      <4>8. \A j \in DOMAIN intents : /\ intents'[j].conf = "own" => intents[j].conf = "own"
                                      /\ j # Now => intents'[j].work = intents[j].work
        BY <3>3, <4>3, <4>6
      <4> QED BY <4>4, <4>5, <4>6, <4>7, <4>8
    <3>5. ~Starting
      BY <1>1, StartingFacts
    <3> QED BY <1>1, <1>2, <1>3, <3>1, <3>2, <3>4, <3>5, WorkBegins
  <2> QED BY <2>1, <2>2
<1>8. Done(i)' /\ i # Now'
  BY <1>2, <1>7, DonePersists
<1>9. ASSUME NEW r \in Receipts PROVE Rightly(r)'
  <2>1. /\ Keeps(r) /\ (calls[r].at = "made" => calls'[r].at = "made")
        /\ calls'[r].status = calls[r].status \/ calls'[r].intent = i
    BY <1>5 DEF Calls
  <2>2. Truthful(r)
    BY <1>8, <2>1 DEF Truthful, Keeps
  <2> QED BY <1>7, <2>1, <2>2, KeepsRight
<1>10. Typed'
  BY <1>1, <1>3, <1>6, <1>7 DEF Told, Typed
<1> QED BY <1>5, <1>7, <1>9, <1>10 DEF Told, Forward

LEMMA StopFailsTells == ASSUME Owed, Told, StopFails PROVE Told' /\ Forward
<1>0. PICK i : i = stop.intent
  OBVIOUS
<1>1. stop.on /\ stop' = NoStop /\ UNCHANGED <<works, procs, process>>
      /\ intents' = [intents EXCEPT ![i].conf = "bad"]
  BY <1>0 DEF StopFails, Overdue
<1>2. i \in DOMAIN intents /\ i # Now
  BY <1>0, <1>1 DEF Told, Halting
<1>3. NoStop \in Barriers /\ NoStop.on = FALSE
  BY DEF NoStop, Barriers, None
<1>4. /\ intents' \in Seq(Intents) /\ Now' = Now /\ Moves
      /\ Linked' /\ OneUp' /\ Current' /\ Busy' /\ Halting' /\ Lone'
  <2>1. "bad" \in Confs
    BY DEF Confs
  <2> QED BY <1>1, <1>2, <1>3, <2>1, ConfTells
<1>5. intents'[Now].proc = intents[Now].proc
  BY <1>1, <1>2, TypedFacts, ConfChanges DEF Told, Confs
<1>6. ASSUME NEW c \in Calls
      PROVE  /\ calls'[c] \in CallRecords /\ Goes(c) /\ (c \in Receipts => Keeps(c))
             /\ calls[c].at = "made" => calls'[c].at = "made"
             /\ \/ calls'[c].status = calls[c].status
                \/ calls'[c].status = "unconfirmed"
  <2> DEFINE s == Settled("unconfirmed")[c]
  <2>1. calls[c] \in CallRecords
    BY DEF Told, Typed
  <2>2. s = [s EXCEPT !.at = calls[c].at]
    BY <2>1 DEF Settled, CallRecords
  <2>3. calls'[c] = IF c \in Queued THEN [s EXCEPT !.at = "over"] ELSE s
    BY DEF StopFails
  <2>4. c \in Queued => calls[c].at = "behind"
    BY DEF Queued
  <2> HIDE DEF s
  <2>5. PICK at : /\ at = calls[c].at \/ (calls[c].at = "behind" /\ at \in {"over", "starting"})
                  /\ calls'[c] = [s EXCEPT !.at = at]
    BY <2>2, <2>3, <2>4
  <2> QED BY <2>5, SettledCall DEF s
<1>7. calls' \in [Calls -> CallRecords]
  <2>1. calls' = [c \in Calls |-> calls'[c]]
    BY DEF StopFails
  <2> QED BY <1>6, <2>1
<1>8. ASSUME NEW r \in Receipts PROVE Rightly(r)'
  <2>1. /\ Keeps(r) /\ (calls[r].at = "made" => calls'[r].at = "made")
        /\ calls'[r].status = calls[r].status \/ calls'[r].status = "unconfirmed"
    BY <1>6 DEF Calls
  <2>2. Truthful(r)
    BY <2>1 DEF Truthful
  <2> QED BY <1>4, <1>5, <2>1, <2>2, KeepsRight
<1>9. Typed'
  BY <1>1, <1>3, <1>4, <1>7 DEF Told, Typed
<1> QED BY <1>4, <1>6, <1>8, <1>9 DEF Told, Forward

---------------------------------------------------------------------------
(* The exit of the process.                                                *)

LEMMA ExitsCalls ==
    ASSUME Told, NEW p, Exits(p)
    PROVE  /\ calls' \in [Calls -> CallRecords] /\ \A c \in Calls : Goes(c)
           /\ \A r \in Receipts : Keeps(r) /\ Truthful(r)
<1> DEFINE i == procs[p].intent
           lost == {r \in Receipts : Owned(r) /\ Used(r) /\ calls[r].intent = i}
           unsure == ~intents[i].error /\ platform = "windows" /\ lost # {}
           begun == {c \in Calls : calls[c].at = "sent" \/
                                   (calls[c].at = "starting" /\ works[Len(works)].at = "starting")}
<1>1. calls' = [c \in Calls |->
                  [calls[c] EXCEPT !.at = IF c \in begun THEN "over" ELSE @,
                                   !.status = IF unsure /\ c \in lost THEN "unconfirmed" ELSE @,
                                   !.denied = @ \/ (unsure /\ c \in lost)]]
  BY DEF Exits
<1>2. \A c \in begun : calls[c].at \in {"sent", "starting"}
  OBVIOUS
<1>3. \A c \in lost : calls[c].status \notin {"none", "completed", "confirmed"}
  BY DEF Owned
<1> HIDE DEF begun, lost, unsure
<1>4. ASSUME NEW c \in Calls
      PROVE  /\ calls'[c] \in CallRecords
             /\ calls'[c].intent = calls[c].intent /\ calls'[c].to = calls[c].to
             /\ \/ calls'[c].at = calls[c].at
                \/ calls'[c].at = "over" /\ calls[c].at \in {"sent", "starting"}
             /\ \/ calls'[c].status = calls[c].status /\ calls'[c].denied = calls[c].denied
                \/ /\ calls[c].status \notin {"none", "completed", "confirmed"}
                   /\ calls'[c].status = "unconfirmed"
                   /\ calls'[c].denied
  <2>1. calls[c] \in CallRecords
    BY DEF Told, Typed
  <2>2. calls'[c] = [calls[c] EXCEPT !.at = IF c \in begun THEN "over" ELSE @,
                                     !.status = IF unsure /\ c \in lost THEN "unconfirmed" ELSE @,
                                     !.denied = @ \/ (unsure /\ c \in lost)]
    BY <1>1
  <2>3. CASE unsure /\ c \in lost
    BY <1>2, <1>3, <2>1, <2>2, <2>3 DEF CallRecords
  <2>4. CASE ~(unsure /\ c \in lost)
    <3>1. calls'[c] = [calls[c] EXCEPT !.at = IF c \in begun THEN "over" ELSE @,
                                       !.status = @, !.denied = calls[c].denied \/ FALSE]
      BY <2>2, <2>4
    <3> QED BY <1>2, <2>1, <3>1 DEF CallRecords
  <2> QED BY <2>3, <2>4
<1>5. calls' \in [Calls -> CallRecords]
  BY <1>1, <1>4
<1>6. ASSUME NEW r \in Receipts PROVE Keeps(r) /\ Truthful(r)
  <2>1. Rightly(r) /\ r \in Calls
    BY DEF Told, Calls
  <2> QED BY <1>4, <2>1 DEF Rightly, Keeps, Truthful
<1>7. \A c \in Calls : Goes(c)
  BY <1>4 DEF Goes
<1> QED BY <1>5, <1>6, <1>7

\* The intent of the process is closed, by the exit if it was not before.
LEMMA ExitsIntents ==
    ASSUME Owed, Told, NEW p \in DOMAIN procs, Exits(p)
    PROVE  /\ intents' \in Seq(Intents) /\ Now' >= Now
           /\ DOMAIN intents' = DOMAIN intents \cup {Now'}
           /\ \A i \in DOMAIN intents : /\ intents'[i].work = intents[i].work
                                        /\ intents'[i].proc = intents[i].proc
                                        /\ intents'[i].conf = "own" => intents[i].conf = "own"
                                        /\ intents[i].error => intents'[i].error
           /\ ~intents'[Now'].error /\ intents'[Now'].conf = "none"
           /\ intents'[Now'].proc = None
           /\ intents'[Now'].work \in {None, Len(works)}
           /\ Now' = Now \/ intents'[Now'].work = None
<1> DEFINE i == procs[p].intent
<1>1. /\ Now \in Nat /\ DOMAIN intents = 1..Now /\ Now \in DOMAIN intents
      /\ intents \in [1..Now -> Intents]
  BY TypedFacts DEF Told, Typed
<1>2. p = process /\ p # None
  BY ProcessFacts DEF Exits, Told, OneUp
<1>3. CASE intents[i].error
  <2>1. intents' = intents
    BY <1>3 DEF Exits
  <2>2. intents[Now].proc = None
    BY <1>1, <1>2, <1>3 DEF Told, Current, Linked
  <2> QED BY <1>1, <2>1, <2>2 DEF Told, Typed, Current, Now
<1>4. CASE ~intents[i].error
  <2> DEFINE bad == platform = "windows" /\
                    {r \in Receipts : Owned(r) /\ Used(r) /\ calls[r].intent = i} # {}
             f == [intents EXCEPT ![i].error = TRUE, ![i].conf = IF bad THEN "bad" ELSE @]
  <2>1. intents' = Append(f, NewIntent)
    BY <1>4 DEF Exits
  <2> HIDE DEF bad
  <2>2. /\ f \in [1..Now -> Intents]
        /\ \A j \in DOMAIN intents : /\ f[j].work = intents[j].work /\ f[j].proc = intents[j].proc
                                     /\ f[j].conf = "own" => intents[j].conf = "own"
                                     /\ intents[j].error => f[j].error
    <3>1. CASE i \in DOMAIN intents
      <4> DEFINE t == [intents[i] EXCEPT !.error = TRUE, !.conf = IF bad THEN "bad" ELSE @]
      <4>1. f = [intents EXCEPT ![i] = t]
        BY <1>1, <3>1, ZenonT(60)
      <4>2. /\ t.work = intents[i].work /\ t.proc = intents[i].proc
            /\ t.conf = "own" => intents[i].conf = "own"
            /\ t.error
        BY <1>1, <3>1 DEF Intents
      <4>3. t \in Intents
        <5>1. CASE bad
          BY <1>1, <3>1, <5>1 DEF Intents, Confs
        <5>2. CASE ~bad
          BY <1>1, <3>1, <5>2 DEF Intents, Confs
        <5> QED BY <5>1, <5>2
      <4> HIDE DEF t, f
      <4> QED BY <1>1, <3>1, <4>1, <4>2, <4>3
    <3>2. CASE i \notin DOMAIN intents
      <4>1. f = intents
        BY <1>1, <3>2
      <4> HIDE DEF f
      <4> QED BY <1>1, <4>1
    <3> QED BY <3>1, <3>2
  <2> HIDE DEF f
  <2>3. /\ intents' \in Seq(Intents) /\ Now' = Now + 1
        /\ DOMAIN intents' = DOMAIN intents \cup {Now'} /\ Now' \notin DOMAIN intents
        /\ \A j \in DOMAIN intents : /\ intents'[j] = f[j]
                                     /\ intents'[j].work = intents[j].work
                                     /\ intents'[j].proc = intents[j].proc
        /\ ~intents'[Now'].error /\ intents'[Now'].conf = "none"
        /\ intents'[Now'].proc = None /\ intents'[Now'].work = None
    BY <2>1, <2>2, IntentFollows
  <2> QED BY <1>1, <2>2, <2>3
<1> QED BY <1>3, <1>4

LEMMA ExitsTells ==
    ASSUME Owed, Told, NEW p \in DOMAIN procs, Exits(p) PROVE Told' /\ Forward
<1>1. PICK clean \in BOOLEAN : procs' = [procs EXCEPT ![p].at = "exited", ![p].clean = clean]
  BY DEF Exits
<1> DEFINE r == [procs[p] EXCEPT !.at = "exited", !.clean = clean]
<1>2. r.intent = procs[p].intent /\ r.at = "exited" /\ r.tree = procs[p].tree
  BY ProcessFacts, ShapedFields DEF Places
<1>3. procs' = [procs EXCEPT ![p] = r] /\ procs[p].at = "up"
  BY <1>1 DEF Exits
<1> HIDE DEF r
<1>4. /\ DOMAIN procs' = DOMAIN procs /\ procs'[p] = r
      /\ \A q \in DOMAIN procs : /\ procs'[q].intent = procs[q].intent
                                 /\ ~Alive(q) => ~Alive(q)'
                                 /\ procs'[q].at = "up" => procs[q].at = "up"
                                 /\ q # p => procs'[q] = procs[q]
  BY <1>2, <1>3, OneMoves
<1>5. p = process /\ p # None /\ process' = None /\ stop' = stop
  BY <1>3, ProcessFacts DEF Exits, Told, OneUp
<1>6. /\ intents' \in Seq(Intents) /\ Now' >= Now
      /\ DOMAIN intents' = DOMAIN intents \cup {Now'}
      /\ \A i \in DOMAIN intents : /\ intents'[i].work = intents[i].work
                                   /\ intents'[i].proc = intents[i].proc
                                   /\ intents'[i].conf = "own" => intents[i].conf = "own"
                                   /\ intents[i].error => intents'[i].error
      /\ ~intents'[Now'].error /\ intents'[Now'].conf = "none"
      /\ intents'[Now'].proc = None
      /\ intents'[Now'].work \in {None, Len(works)}
      /\ Now' = Now \/ intents'[Now'].work = None
  BY ExitsIntents
<1>7. /\ works' \in Seq(Works) /\ Len(works') = Len(works) /\ DOMAIN works' = DOMAIN works
      /\ \A w \in DOMAIN works : /\ works[w].at = "over" => works'[w].at = "over"
                                 /\ works'[w].at = "over" \/ works'[w].cancelled
  <2>1. /\ Len(works) \in Nat /\ DOMAIN works = 1..Len(works)
        /\ \A w \in DOMAIN works : works[w] \in Works
    BY TypedFacts DEF Told
  <2>2. works' = [v \in DOMAIN works |-> IF works[v].at = "starting"
                                         THEN [works[v] EXCEPT !.at = "over"] ELSE works[v]]
    BY DEF Exits
  <2>3. \A w \in DOMAIN works : /\ works'[w] \in Works
                                /\ works[w].at = "over" => works'[w].at = "over"
                                /\ works'[w].at = "over" \/ works'[w].cancelled
    BY <1>5, <2>1, <2>2 DEF Works, Told, Busy
  <2>4. works' \in [1..Len(works) -> Works]
    BY <2>1, <2>2, <2>3
  <2>5. works' \in Seq(Works) /\ Len(works') = Len(works)
    BY <2>1, <2>4, Listed
  <2> QED BY <2>1, <2>3, <2>4, <2>5
<1>8. /\ calls' \in [Calls -> CallRecords] /\ \A c \in Calls : Goes(c)
      /\ \A c \in Receipts : Keeps(c) /\ Truthful(c)
  BY ExitsCalls
<1>9. /\ Now \in Nat /\ Now \in DOMAIN intents /\ Now' \in Nat /\ DOMAIN intents = 1..Now
  <2>1. Now' \in Nat
    BY <1>6, LenProperties DEF Now
  <2> QED BY <2>1, TypedFacts DEF Told
<1>10. Moves
  BY <1>4, <1>6, <1>7 DEF Moves
<1>11. Typed'
  BY <1>5, <1>6, <1>7, <1>8, <1>9 DEF Told, Typed
<1>12. Linked'
  <2> SUFFICES ASSUME NEW i \in DOMAIN intents'
               PROVE  /\ intents'[i].proc # None => /\ intents'[i].proc \in DOMAIN procs'
                                                    /\ procs'[intents'[i].proc].intent = i
                      /\ intents'[i].work # None => intents'[i].work \in DOMAIN works'
    BY DEF Linked
  <2>1. CASE i \in DOMAIN intents
    BY <1>4, <1>6, <1>7, <2>1 DEF Told, Linked
  <2>2. CASE i = Now' /\ Now' # Now
    BY <1>6, <2>2
  <2> QED BY <1>6, <1>9, <2>1, <2>2
<1>13. OneUp' /\ Current'
  BY <1>2, <1>4, <1>5, <1>6, <1>7 DEF Told, OneUp, Current
<1>14. Busy' /\ Halting'
  BY <1>5, <1>6, <1>7, <1>9 DEF Busy, Told, Halting
<1>15. Lone'
  <2> SUFFICES ASSUME NEW i \in DOMAIN intents', intents'[i].conf = "own" PROVE Quiet(i)'
    BY DEF Lone
  <2>1. i \in DOMAIN intents /\ intents[i].conf = "own" /\ i # Now
    BY <1>6, <1>9 DEF Told, Current
  <2> QED BY <1>10, <2>1, DonePersists DEF Told, Lone
<1>16. \A c \in Receipts : Rightly(c)'
  BY <1>6, <1>8, <1>9, <1>10, KeepsRight
<1> QED BY <1>8, <1>10, <1>11, <1>12, <1>13, <1>14, <1>15, <1>16 DEF Told, Forward

---------------------------------------------------------------------------
(* The theorem.                                                            *)

LEMMA InitTells == Init => Told
<1> SUFFICES ASSUME Init PROVE Told
  OBVIOUS
<1>1. /\ NewIntent \in Intents /\ ~NewIntent.error /\ NewIntent.conf = "none"
      /\ NewIntent.proc = None /\ NewIntent.work = None
  BY DEF NewIntent, Intents, Confs, None
<1>2. intents \in Seq(Intents) /\ Now = 1 /\ DOMAIN intents = {1} /\ intents[1] = NewIntent
  BY <1>1 DEF Init, Now
<1>3. works \in Seq(Works) /\ DOMAIN works = {} /\ procs = <<>> /\ DOMAIN procs = {}
  BY DEF Init
<1>4. NewCall \in CallRecords /\ NewCall.at = "new" /\ NewCall.status = "none" /\ NewCall.to = None
  BY DEF NewCall, CallRecords, None
<1>5. NoStop \in Barriers /\ ~NoStop.on /\ stop = NoStop /\ process = None
  BY DEF NoStop, Barriers, None, Init
<1>6. Typed
  BY <1>2, <1>3, <1>4, <1>5 DEF Init, Typed
<1>7. Linked /\ OneUp /\ Current /\ Busy /\ Halting /\ Lone
  BY <1>1, <1>2, <1>3, <1>5 DEF Linked, OneUp, Current, Busy, Halting, Lone
<1>8. \A r \in Receipts : Rightly(r)
  BY <1>4 DEF Init, Rightly, Calls
<1> QED BY <1>6, <1>7, <1>8 DEF Told

LEMMA SameTells ==
    ASSUME Told, UNCHANGED <<intents, works, procs, process, stop, calls>>
    PROVE  Told' /\ Forward
<1>1. Forward /\ \A r \in Receipts : Rightly(r)'
  BY Stays, CallsStay
<1>2. Typed'
  BY DEF Told, Typed, Now
<1> QED BY <1>1, <1>2, RestStays DEF Told

LEMMA NextTells == ASSUME Owed, Told, [Next]_vars PROVE Told'
<1>1. CASE Settles
  BY <1>1, StopEndsTells, StopFailsTells, ConfirmsTells DEF Settles
<1>2. CASE Proceeds
  <2>1. ASSUME StartTimeout PROVE Told'
    BY <2>1, StopsTells DEF StartTimeout
  <2>2. ASSUME NEW c \in Calls, RequestTimeout(c) PROVE Told'
    BY <2>2, StopsTells DEF RequestTimeout
  <2> QED BY <1>2, <2>1, <2>2, ValidatedTells, ReadyTells, AnswerTells DEF Proceeds
<1>3. CASE System
  BY <1>3, KillsTells, ExitsTells, DrainsTells DEF System
<1>4. CASE Cancel
  BY <1>4, StopsTells DEF Cancel
<1>5. CASE Retire \/ Release
  BY <1>5, SameTells DEF Retire, Release
<1>6. ASSUME NEW c \in Calls, Request(c) PROVE Told'
  BY <1>6, RequestTells
<1>7. ASSUME NEW c \in Legacy, Abort(c) PROVE Told'
  <2>1. c \in Calls /\ \A d \in Calls \cap {c} : calls[d].at \notin {"new", "made"}
    BY <1>7 DEF Abort, Calls
  <2> QED BY <1>7, <2>1, StopsTells DEF Abort
<1>8. ASSUME NEW r \in Receipts, Create(r) \/ CancelReceipt(r) PROVE Told'
  BY <1>8, CreateTells, CancelsTells DEF CancelReceipt
<1>9. CASE UNCHANGED vars
  BY <1>9, SameTells DEF vars
<1> QED BY <1>1, <1>2, <1>3, <1>4, <1>5, <1>6, <1>7, <1>8, <1>9 DEF Next

\* What a receipt is told, and the intent, work and process it is told of.
THEOREM ReceiptsAreSound == Spec => [](Owed /\ Told)
<1>1. Owed /\ Told /\ [Next]_vars => (Owed /\ Told)'
  BY NextHolds, NextTells
<1> QED BY InitHolds, InitTells, <1>1, PTL DEF Spec

\* A receipt that was used is confirmed only when the process of its intent is gone with
\* its descendants and its preparation is over: by the barrier of its own stop, by one it
\* joined, or by what its intent left behind (_stop, _cancelOperation).
THEOREM ConfirmationIsTrue == Spec => []ConfirmedIsTrue
<1>1. Told => ConfirmedIsTrue
  <2> SUFFICES ASSUME Told, NEW r \in Receipts, calls[r].status = "confirmed",
                      calls[r].at # "made"
               PROVE  Done(calls[r].intent)
    BY DEF ConfirmedIsTrue, Done, Quiet
  <2> QED BY DEF Told, Rightly
<1> QED BY <1>1, ReceiptsAreSound, PTL
=============================================================================
