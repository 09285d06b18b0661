----------------------- MODULE FoundationModelsProofs -----------------------
(***************************************************************************)
(* Proofs about FoundationModels, for any number of calls, processes and    *)
(* documents.  The inductive invariant has four parts: the types, what the  *)
(* client knows of its process, what a fault and Quit fence, and the intent *)
(* the process works for.                                                   *)
(***************************************************************************)
EXTENDS FoundationModels, TLAPS

\* The client's process: the one that runs, the one a stop is to end; while a
\* launch is resolved there is none.
Processes ==
    /\ Alive \subseteq {proc}
    /\ proc # NoHelper => helper[proc] = "alive"
    /\ Stopping => pending = NoCall /\ proc \in {NoHelper, stop.of}
    /\ stop.at \in {"quit", "term", "kill"} => stop.of \in Helpers /\ preparing = NoCall
    /\ preparing # NoCall => proc = NoHelper /\ (Stopping \/ pending = preparing)

\* What a lost process and Quit leave closed.
Latches ==
    /\ (\E h \in Helpers : helper[h] = "lost") => fault
    /\ quit # "no" => closed
    /\ closed => pending = NoCall
    /\ QuitIsClean

\* The intent in force: of the document shown, not revoked.
Holds(i) ==
    /\ i \in Calls
    /\ live /\ clientOwner = document
    /\ current[document] = i /\ <<document, i>> \notin revoked

StoppedFor(k) == call[k].kind = "cancel" /\ call[k].at \in {"stopping", "stopped", "unconfirmed"}

\* A session is one of the intent in force, and of no document yet to come.
Sessions ==
    /\ \A d \in Documents : session[d] # NoCall => session[d] = current[d] /\ d <= document
    /\ live /\ session[document] # NoCall => clientOwner = document

\* Of the calls: those that stopped the client have revoked their intent, and
\* those that are let in bring one.
CallKinds ==
    \A k \in Calls :
      /\ StoppedFor(k) => <<call[k].by, call[k].with>> \in revoked
      /\ call[k].at \in {"waiting", "entering"} => call[k].kind = "capabilities"

\* Slot and process work for the intent in force, until the process is told to
\* stop or lost.
Workers ==
    /\ pending # NoCall => Holds(Intent(pending, call[pending]))
    /\ proc # NoHelper => served[proc] # {}
    /\ proc # NoHelper /\ ~Stopping /\ ~fault => \A i \in served[proc] : Holds(i)

Intents == Sessions /\ CallKinds /\ Workers /\ OneIntent

-----------------------------------------------------------------------------
Verdicts == {"failed", "available", "unavailable", "answered"}

\* An answer is one of four.
LEMMA VerdictIsOne == ASSUME NEW c, NEW ok \in BOOLEAN PROVE Verdict(c, ok) \in Verdicts
<1>1. Verdict(c, ok) \in {"failed", "available", "unavailable", "answered"}
  <2> DEFINE wanted == StillWanted(c)
  <2> HIDE DEF wanted
  <2>1. Verdict(c, ok) = IF ~wanted THEN "failed"
                         ELSE IF call[c].kind = "capabilities"
                           THEN IF ok THEN "available" ELSE "unavailable"
                           ELSE IF ok THEN "answered" ELSE "failed"
    BY Zenon DEF Verdict, wanted
  <2>2. QED BY <2>1
<1>2. QED BY <1>1, Zenon DEF Verdicts

\* Settling with v changes where the call in the slot stands, and nothing else.
SlotSettles(new, v) ==
    /\ new \in [Calls -> CallType]
    /\ \A k \in Calls :
         /\ new[k].kind = call[k].kind /\ new[k].by = call[k].by /\ new[k].with = call[k].with
         /\ new[k].at = call[k].at \/ (k = pending /\ new[k].at = v)

LEMMA SlotMoves ==
    ASSUME TypeOK, pending # NoCall, NEW v \in Verdicts, NEW new,
           new = [call EXCEPT ![pending].at = v]
    PROVE  SlotSettles(new, v)
<1>1. pending \in Calls /\ call \in [Calls -> CallType] BY DEF TypeOK
<1>2. v \in Phases BY DEF Verdicts, Phases
<1>3. call[pending] \in CallType BY <1>1
<1> DEFINE k == [call[pending] EXCEPT !.at = v]
<1>4. k \in CallType /\ k.kind = call[pending].kind /\ k.by = call[pending].by
      /\ k.with = call[pending].with /\ k.at = v
  BY <1>2, <1>3 DEF CallType
<1>5. new = [call EXCEPT ![pending] = k] OBVIOUS
<1> HIDE DEF k
<1>6. QED BY <1>1, <1>4, <1>5 DEF SlotSettles

LEMMA SettledMoves ==
    ASSUME TypeOK, NEW ok \in BOOLEAN
    PROVE  \E v \in Verdicts : v = Verdict(pending, ok) /\ SlotSettles(Settled(ok), v)
<1> DEFINE v == Verdict(pending, ok)  new == Settled(ok)
<1>1. v \in Verdicts BY VerdictIsOne
<1>2. pending = NoCall => new = call BY Zenon DEF Settled
<1>3. pending # NoCall => new = [call EXCEPT ![pending].at = v] BY Zenon DEF Settled
<1>4. v = Verdict(pending, ok) OBVIOUS
<1> HIDE DEF v, new
<1>5. SlotSettles(call, v) BY DEF TypeOK, SlotSettles
<1>6. pending # NoCall => SlotSettles(new, v) BY <1>1, <1>3, SlotMoves
<1>7. SlotSettles(new, v) BY <1>2, <1>5, <1>6
<1>8. QED BY <1>1, <1>4, <1>7, Zenon DEF new

\* A call goes on to another phase.
LEMMA GoMoves ==
    ASSUME TypeOK, NEW c \in Calls, NEW phase \in Phases, Go(c, phase)
    PROVE  /\ call' \in [Calls -> CallType]
           /\ call'[c].at = phase
           /\ call'[c].kind = call[c].kind /\ call'[c].by = call[c].by /\ call'[c].with = call[c].with
           /\ \A k \in Calls \ {c} : call'[k] = call[k]
<1> DEFINE k == [call[c] EXCEPT !.at = phase]
<1>1. call[c] \in CallType BY DEF TypeOK
<1>2. /\ k \in CallType /\ k.at = phase /\ k.kind = call[c].kind
      /\ k.by = call[c].by /\ k.with = call[c].with
  BY <1>1 DEF CallType
<1>3. call' = [call EXCEPT ![c] = k] BY DEF Go
<1> HIDE DEF k
<1>4. QED BY <1>2, <1>3 DEF TypeOK

\* A call becomes the record k.
LEMMA CallBecomes ==
    ASSUME TypeOK, NEW c \in Calls, NEW k \in CallType, call' = [call EXCEPT ![c] = k]
    PROVE  /\ call' \in [Calls -> CallType]
           /\ call'[c] = k
           /\ \A d \in Calls \ {c} : call'[d] = call[d]
BY DEF TypeOK

LEMMA MadeTyped ==
    ASSUME TypeOK, NEW kind \in {"capabilities", "generate", "cancel"},
           NEW with \in Calls \cup {NoCall}, NEW phase \in Phases
    PROVE  [kind |-> kind, by |-> document, with |-> with, at |-> phase] \in CallType
<1>1. document \in 0..MaxDocuments BY DocumentsArePositive DEF TypeOK, Documents
<1>2. QED BY <1>1 DEF CallType

\* A call that is written to the helper, or waits for one, is in the slot.
LEMMA AskMoves ==
    ASSUME TypeOK, NEW c \in Calls, NEW k \in CallType, Ask(c, k)
    PROVE  /\ call' \in [Calls -> CallType] /\ pending' = c
           /\ call'[c].at \in {"resolving", "asked"}
           /\ call'[c].kind = k.kind /\ call'[c].by = k.by /\ call'[c].with = k.with
           /\ \A d \in Calls \ {c} : call'[d] = call[d]
<1> DEFINE r == [k EXCEPT !.at = "resolving"]  a == [k EXCEPT !.at = "asked"]
<1>1. /\ r \in CallType /\ r.at = "resolving" /\ r.kind = k.kind /\ r.by = k.by /\ r.with = k.with
      /\ a \in CallType /\ a.at = "asked" /\ a.kind = k.kind /\ a.by = k.by /\ a.with = k.with
  BY DEF CallType, Phases
<1>2. \/ call' = [call EXCEPT ![c] = r]
      \/ call' = [call EXCEPT ![c] = a]
  BY DEF Ask
<1>3. pending' = c BY DEF Ask
<1> HIDE DEF r, a
<1>4. CASE call' = [call EXCEPT ![c] = r] BY <1>1, <1>3, <1>4, CallBecomes
<1>5. CASE call' = [call EXCEPT ![c] = a] BY <1>1, <1>3, <1>5, CallBecomes
<1>6. QED BY <1>2, <1>4, <1>5

\* The end of a stop moves the calls that awaited it, and no other.
LEMMA StopEndsMoves ==
    ASSUME TypeOK, NEW ok \in BOOLEAN, StopEnds(ok)
    PROVE  /\ call' \in [Calls -> CallType]
           /\ \A k \in Calls : /\ call'[k].kind = call[k].kind /\ call'[k].by = call[k].by
                               /\ call'[k].with = call[k].with
                               /\ call'[k].at = Released(call[k].at, ok)
<1>1. \A p \in Phases : Released(p, ok) \in Phases
  BY DEF Released, Phases
<1>2. ASSUME NEW k \in Calls
      PROVE  /\ call'[k] \in CallType
             /\ call'[k].kind = call[k].kind /\ call'[k].by = call[k].by
             /\ call'[k].with = call[k].with /\ call'[k].at = Released(call[k].at, ok)
  <2> DEFINE p == Released(call[k].at, ok)
  <2>1. call[k] \in CallType /\ call[k].at \in Phases BY DEF TypeOK, CallType
  <2>2. p \in Phases BY <1>1, <2>1
  <2>3. call'[k] = [call[k] EXCEPT !.at = p] BY DEF StopEnds
  <2>4. p = Released(call[k].at, ok) OBVIOUS
  <2> HIDE DEF p
  <2>5. QED BY <2>1, <2>2, <2>3, <2>4 DEF CallType
<1>3. call' \in [Calls -> CallType]
  <2>1. call' = [k \in Calls |-> call'[k]] BY DEF StopEnds
  <2>2. QED BY <1>2, <2>1
<1>4. QED BY <1>2, <1>3

-----------------------------------------------------------------------------
\* The part of the type invariant that is not about calls.
Rest ==
    /\ revoked \subseteq Documents \X Calls
    /\ current \in [Documents -> Calls \cup {NoCall}]
    /\ session \in [Documents -> Calls \cup {NoCall}]
    /\ clientOwner \in 0..MaxDocuments /\ document \in Documents /\ live \in BOOLEAN
    /\ ready \in {"clear", "draining", "failed"}
    /\ pending \in Calls \cup {NoCall} /\ preparing \in Calls \cup {NoCall}
    /\ proc \in Helpers \cup {NoHelper}
    /\ stop \in [at : {"idle", "draining", "quit", "term", "kill"}, of : Helpers \cup {NoHelper}]
    /\ fault \in BOOLEAN /\ closed \in BOOLEAN
    /\ quit \in {"no", "signals", "closing", "allowed"}
    /\ helper \in [Helpers -> {"unborn", "alive", "gone", "lost"}]
    /\ served \in [Helpers -> SUBSET (Calls \cup {NoCall})]

\* An intent is a call, for calls that bring one.
InSlot(new, p) == p # NoCall => new[p].at \in {"resolving", "asked"}

LEMMA TypedParts == TypeOK <=> call \in [Calls -> CallType] /\ InSlot(call, pending) /\ Rest
BY DEF TypeOK, InSlot, Rest

\* A settled slot: the calls keep their type, whatever else the step does.
LEMMA SettledTyped ==
    ASSUME TypeOK, NEW ok \in BOOLEAN PROVE Settled(ok) \in [Calls -> CallType]
<1>1. PICK v \in Verdicts : SlotSettles(Settled(ok), v) BY SettledMoves
<1>2. QED BY <1>1 DEF SlotSettles

LEMMA StopTyped ==
    ASSUME TypeOK, BeginStop
    PROVE  /\ stop' \in [at : {"idle", "draining", "quit", "term", "kill"}, of : Helpers \cup {NoHelper}]
           /\ pending' = NoCall
BY DEF TypeOK, BeginStop

LEMMA TypedStep == TypeOK /\ [Next]_vars => TypeOK'
<1> SUFFICES ASSUME TypeOK, [Next]_vars PROVE TypeOK'
  OBVIOUS
<1> USE DEF documents, client, world
<1>0. /\ call \in [Calls -> CallType] /\ InSlot(call, pending) /\ Rest
      /\ (call' \in [Calls -> CallType] /\ InSlot(call', pending') /\ Rest' => TypeOK')
  BY DEF TypeOK, InSlot, Rest
<1>1. CASE Launched
  <2>1. CASE Unwanted
    BY <1>0, <1>1, <2>1, CallsAreDistinct DEF Launched, InSlot, Rest
  <2>2. CASE ~Unwanted
    <3>1. preparing \in Calls /\ pending = preparing /\ "asked" \in Phases
      BY <1>1, <2>2 DEF TypeOK, Launched, Unwanted, Phases
    <3>2. Go(preparing, "asked") BY <1>1, <2>2 DEF Launched
    <3>3. call' \in [Calls -> CallType] /\ call'[preparing].at = "asked"
      BY <3>1, <3>2, GoMoves
    <3>4. Intent(preparing, call[preparing]) \in Calls \cup {NoCall}
      BY <3>1 DEF Intent, TypeOK, CallType
    <3>5. QED BY <1>0, <1>1, <2>2, <3>1, <3>3, <3>4 DEF Launched, InSlot, Rest
  <2>3. QED BY <2>1, <2>2
<1>2. CASE LaunchFails
  <2>1. CASE pending = preparing
    BY <1>0, <1>2, <2>1, SettledTyped, StopTyped DEF LaunchFails, InSlot, Rest
  <2>2. CASE pending # preparing
    BY <1>0, <1>2, <2>2 DEF LaunchFails, InSlot, Rest
  <2>3. QED BY <2>1, <2>2
<1>3. ASSUME NEW ok \in BOOLEAN, Reply(ok) PROVE TypeOK'
  BY <1>0, <1>3, SettledTyped DEF Reply, InSlot, Rest
<1>4. ASSUME NEW c \in Calls, Timeout(c) PROVE TypeOK'
  BY <1>0, <1>4, SettledTyped, StopTyped DEF Timeout, InSlot, Rest
<1>5. CASE Break
  BY <1>0, <1>5, SettledTyped, StopTyped DEF Break, InSlot, Rest
<1>6. ASSUME NEW h \in Helpers, Close(h) PROVE TypeOK'
  <2>1. helper' \in [Helpers -> {"unborn", "alive", "gone", "lost"}]
    BY <1>0, <1>6 DEF Close, Rest
  <2>2. CASE proc = h
    <3>1. fault' \in BOOLEAN BY <1>6, <2>2, Zenon DEF Close, Latched
    <3>2. QED BY <1>0, <1>6, <2>1, <2>2, <3>1, SettledTyped DEF Close, InSlot, Rest
  <2>3. CASE proc # h
    BY <1>0, <1>6, <2>1, <2>3 DEF Close, InSlot, Rest
  <2>4. QED BY <2>2, <2>3
<1>7. ASSUME NEW ok \in BOOLEAN, StopEnds(ok), fault' \in BOOLEAN PROVE TypeOK'
  <2>1. \A k \in Calls : call[k].at \in {"resolving", "asked"} => call'[k].at = call[k].at
    BY <1>7, StopEndsMoves DEF Released
  <2>2. call' \in [Calls -> CallType] BY <1>7, StopEndsMoves
  <2>3. InSlot(call', pending')
    BY <1>0, <1>7, <2>1 DEF StopEnds, InSlot, Rest
  <2>4. Rest' BY <1>0, <1>7 DEF StopEnds, Rest, Idle
  <2>5. QED BY <1>0, <2>2, <2>3, <2>4
<1>8. CASE StopDrained
  <2>1. CASE stop.of = NoHelper
    BY <1>0, <1>7, <1>8, <2>1 DEF StopDrained, Rest
  <2>2. CASE stop.of # NoHelper
    BY <1>0, <1>8, <2>2 DEF StopDrained, InSlot, Rest
  <2>3. QED BY <2>1, <2>2
<1>9. CASE StopEscalates
  BY <1>0, <1>9 DEF StopEscalates, InSlot, Rest
<1>10. CASE StopConfirmed
  BY <1>0, <1>7, <1>10 DEF StopConfirmed, Rest
<1>11. CASE StopUnconfirmed
  BY <1>0, <1>7, <1>11 DEF StopUnconfirmed
<1>12. ASSUME NEW c \in Calls, Capabilities(c) PROVE TypeOK'
  <2>1. PICK phase \in Phases :
          call' = [call EXCEPT ![c] =
            [kind |-> "capabilities", by |-> document, with |-> NoCall, at |-> phase]]
        /\ call[c] = Unmade
    BY <1>0, <1>12 DEF Capabilities, Made, Phases, Rest
  <2>2. pending # c BY <1>0, <2>1, CallsAreDistinct DEF InSlot, Unmade
  <2>3. [kind |-> "capabilities", by |-> document, with |-> NoCall, at |-> phase] \in CallType
    BY MadeTyped
  <2>4. call' \in [Calls -> CallType] /\ \A d \in Calls \ {c} : call'[d] = call[d]
    BY <2>1, <2>3, CallBecomes
  <2>5. QED BY <1>0, <1>12, <2>2, <2>4 DEF Capabilities, InSlot, Rest
<1>13. ASSUME NEW c \in Calls, Enter(c) PROVE TypeOK'
  <2>1. call[c] \in CallType /\ call[c].at = "entering" BY <1>0, <1>13 DEF Enter
  <2>2. ASSUME NEW p \in {"failed", "unavailable"}, Go(c, p), pending' = pending
        PROVE  call' \in [Calls -> CallType] /\ InSlot(call', pending')
    <3>1. p \in Phases BY DEF Phases
    <3>2. pending # c BY <1>0, <2>1, CallsAreDistinct DEF InSlot
    <3>3. QED BY <1>0, <2>2, <3>1, <3>2, GoMoves DEF InSlot, Rest
  <2>3. CASE ~Admissible(c)
    BY <1>0, <1>13, <2>2, <2>3 DEF Enter, Rest
  <2>4. CASE Admissible(c)
    <3>1. call[c].by \in Documents BY <2>4, <1>0 DEF Admissible, Rest
    <3>2. /\ current' \in [Documents -> Calls \cup {NoCall}]
          /\ session' \in [Documents -> Calls \cup {NoCall}]
          /\ clientOwner' \in 0..MaxDocuments
      BY <1>0, <1>13, <2>1, <2>4, <3>1 DEF Enter, Rest, CallType
    <3>3. CASE fault
      BY <1>0, <1>13, <2>2, <2>4, <3>2, <3>3 DEF Enter, Rest
    <3>4. CASE ~fault
      <4>1. Ask(c, call[c]) BY <1>13, <2>4, <3>4 DEF Enter
      <4>2. call' \in [Calls -> CallType] /\ InSlot(call', pending')
        BY <2>1, <4>1, AskMoves DEF InSlot
      <4>3. Intent(c, call[c]) \in Calls \cup {NoCall} BY <2>1 DEF Intent, CallType
      <4>4. /\ served' \in [Helpers -> SUBSET (Calls \cup {NoCall})]
            /\ pending' \in Calls \cup {NoCall} /\ preparing' \in Calls \cup {NoCall}
        BY <1>0, <4>1, <4>3 DEF Ask, Rest
      <4>5. QED BY <1>0, <1>13, <3>2, <4>2, <4>4 DEF Enter, Rest
    <3>5. QED BY <3>3, <3>4
  <2>5. QED BY <2>3, <2>4
<1>14. ASSUME NEW c \in Calls, NEW s \in Calls, Generate(c, s) PROVE TypeOK'
  <2> DEFINE Rec(p) == [kind |-> "generate", by |-> document, with |-> s, at |-> p]
  <2>1. \A p \in Phases : Rec(p) \in CallType BY MadeTyped
  <2>2. "failed" \in Phases /\ "idle" \in Phases BY DEF Phases
  <2>3. pending # c BY <1>0, <1>14, CallsAreDistinct DEF Generate, InSlot, Unmade
  <2> DEFINE accepted == SessionHolds(s) /\ pending = NoCall /\ ~fault /\ ~Stopping
  <2>4. CASE accepted
    <3>1. Ask(c, Rec("idle")) BY <1>14, <2>4 DEF Generate
    <3>2. Rec("idle") \in CallType BY <2>1, <2>2
    <3>3. Intent(c, Rec("idle")) \in Calls \cup {NoCall} BY DEF Intent
    <3> DEFINE k == Rec("idle")
    <3> HIDE DEF k
    <3>4. Ask(c, k) /\ k \in CallType /\ Intent(c, k) \in Calls \cup {NoCall}
      BY <3>1, <3>2, <3>3 DEF k
    <3>5. call' \in [Calls -> CallType] /\ InSlot(call', pending')
      BY <3>4, AskMoves DEF InSlot
    <3>6. /\ served' \in [Helpers -> SUBSET (Calls \cup {NoCall})]
          /\ pending' \in Calls \cup {NoCall} /\ preparing' \in Calls \cup {NoCall}
      BY <1>0, <3>4 DEF Ask, Rest
    <3>7. QED BY <1>0, <1>14, <3>5, <3>6 DEF Generate, Rest
  <2>5. CASE ~accepted
    <3> DEFINE k == Rec("failed")
    <3>1. k \in CallType BY <2>1, <2>2
    <3>2. call' = [call EXCEPT ![c] = k] /\ UNCHANGED <<pending, preparing, served>>
      BY <1>14, <2>5 DEF Generate, Made
    <3> HIDE DEF k
    <3>3. call' \in [Calls -> CallType] /\ \A d \in Calls \ {c} : call'[d] = call[d]
      BY <3>1, <3>2, CallBecomes
    <3>4. QED BY <1>0, <1>14, <2>3, <3>2, <3>3 DEF Generate, InSlot, Rest
  <2>6. QED BY <2>4, <2>5
<1>15. ASSUME NEW k \in Calls, NEW i \in Calls, Cancel(k, i) PROVE TypeOK'
  <2>1. ASSUME NEW p \in Phases, Made(k, "cancel", i, p), UNCHANGED pending
        PROVE  call' \in [Calls -> CallType] /\ InSlot(call', pending')
    <3> DEFINE r == [kind |-> "cancel", by |-> document, with |-> i, at |-> p]
    <3>1. r \in CallType BY MadeTyped
    <3>2. call' = [call EXCEPT ![k] = r] /\ call[k].at = "idle" BY <2>1 DEF Made, Unmade
    <3> HIDE DEF r
    <3>3. call' \in [Calls -> CallType] /\ \A d \in Calls \ {k} : call'[d] = call[d]
      BY <3>1, <3>2, CallBecomes
    <3>4. QED BY <1>0, <2>1, <3>2, <3>3 DEF InSlot, Rest
  <2>2. {"failed", "exited", "stopping"} \subseteq Phases BY DEF Phases
  <2>3. CASE closed \/ ~live
    BY <1>0, <1>15, <2>1, <2>2, <2>3 DEF Cancel, Rest
  <2>4. CASE ~(closed \/ ~live)
    <3>1. revoked' \subseteq Documents \X Calls BY <1>0, <1>15, <2>4 DEF Cancel, Rest
    <3>2. CASE StopsFor(document, i) # {}
      <4>1. PICK e \in Calls : Made(k, "cancel", i, call[e].at)
        BY <1>15, <2>4, <3>2 DEF Cancel, StopsFor
      <4>2. call[e].at \in Phases BY <1>0 DEF CallType
      <4>3. UNCHANGED <<session, pending, stop>> BY <1>15, <2>4, <3>2 DEF Cancel
      <4>4. call' \in [Calls -> CallType] /\ InSlot(call', pending') BY <2>1, <4>1, <4>2, <4>3
      <4>5. QED BY <1>0, <1>15, <3>1, <4>3, <4>4 DEF Cancel, Rest
    <3>3. CASE StopsFor(document, i) = {} /\ current[document] # i
      <4>1. Made(k, "cancel", i, "exited") /\ UNCHANGED <<session, pending, stop>>
        BY <1>15, <2>4, <3>3 DEF Cancel
      <4>2. call' \in [Calls -> CallType] /\ InSlot(call', pending') BY <2>1, <2>2, <4>1
      <4>3. QED BY <1>0, <1>15, <3>1, <4>1, <4>2 DEF Cancel, Rest
    <3>4. CASE StopsFor(document, i) = {} /\ current[document] = i
      <4> DEFINE r == [kind |-> "cancel", by |-> document, with |-> i, at |-> "stopping"]
                 t == Settled(FALSE)
      <4>1. r \in CallType BY <2>2, MadeTyped
      <4>2. t \in [Calls -> CallType] BY SettledTyped
      <4>3. BeginStop /\ call' = [t EXCEPT ![k] = r] /\ session' = [session EXCEPT ![document] = NoCall]
        BY <1>15, <2>4, <3>4 DEF Cancel
      <4> HIDE DEF r, t
      <4>4. call' \in [Calls -> CallType] BY <4>1, <4>2, <4>3
      <4>5. QED BY <1>0, <1>15, <3>1, <4>3, <4>4, StopTyped DEF Cancel, InSlot, Rest
    <3>5. QED BY <3>2, <3>3, <3>4
  <2>5. QED BY <2>3, <2>4
<1>16. CASE CloseDocument
  BY <1>0, <1>16, SettledTyped, StopTyped DEF CloseDocument, InSlot, Rest
<1>17. CASE OpenDocument
  <2>1. document' \in Documents
    BY <1>0, <1>17, DocumentsArePositive DEF OpenDocument, Rest, Documents
  <2>2. QED BY <1>0, <1>17, <2>1 DEF OpenDocument, InSlot, Rest
<1>18. CASE Quit
  BY <1>0, <1>18, SettledTyped, StopTyped DEF Quit, InSlot, Rest
<1>19. CASE QuitEnds
  BY <1>0, <1>19 DEF QuitEnds, InSlot, Rest
<1>20. CASE UNCHANGED vars
  BY <1>0, <1>20 DEF vars, InSlot, Rest
<1>21. QED
  BY <1>1, <1>2, <1>3, <1>4, <1>5, <1>6, <1>8, <1>9, <1>10, <1>11, <1>12, <1>13, <1>14, <1>15,
     <1>16, <1>17, <1>18, <1>19, <1>20 DEF Next, ClientNext, PageNext

-----------------------------------------------------------------------------
\* Nothing is spawned while the client is being stopped, and a stop that ends
\* well leaves no process and no launch behind.
LEMMA StopEndsClean ==
    ASSUME TypeOK, Processes, (StopDrained /\ stop.of = NoHelper) \/ StopConfirmed
    PROVE  Alive = {} /\ proc = NoHelper /\ preparing = NoCall
<1>1. CASE StopDrained /\ stop.of = NoHelper
  BY <1>1, HelpersAreDistinct DEF StopDrained, LaunchIsOver, Processes, Stopping, Alive
<1>2. CASE StopConfirmed
  BY <1>2, HelpersAreDistinct DEF StopConfirmed, Processes, Stopping, Alive
<1>3. QED BY <1>1, <1>2

LEMMA ProcessesStep == TypeOK /\ Processes /\ [Next]_vars => Processes'
<1> SUFFICES ASSUME TypeOK, Processes, [Next]_vars PROVE Processes'
  OBVIOUS
<1> USE DEF documents, client, world
<1>0. UNCHANGED <<helper, proc, stop, preparing>> /\ (pending' = pending \/ (pending' = NoCall /\ (Stopping \/ preparing = NoCall)))
      => Processes'
  BY DEF Processes, Alive, Stopping
<1>s. BeginStop /\ UNCHANGED <<helper, proc, preparing>> => Processes'
  BY HelpersAreDistinct DEF BeginStop, Processes, Alive, Stopping
<1>1. CASE Launched
  <2>1. CASE Unwanted
    BY <1>1, <2>1 DEF Launched, Processes, Alive, Stopping
  <2>2. CASE ~Unwanted
    BY <1>1, <2>2, HelpersAreDistinct DEF Launched, Unwanted, Processes, Alive, Stopping, TypeOK
  <2>3. QED BY <2>1, <2>2
<1>2. CASE LaunchFails
  <2>1. CASE pending = preparing
    <3>1. BeginStop /\ preparing' = NoCall /\ UNCHANGED <<helper, proc>>
      BY <1>2, <2>1 DEF LaunchFails
    <3>2. QED BY <3>1, HelpersAreDistinct DEF BeginStop, Processes, Alive, Stopping
  <2>2. CASE pending # preparing
    BY <1>2, <2>2 DEF LaunchFails, Processes, Alive, Stopping
  <2>3. QED BY <2>1, <2>2
<1>3. ASSUME NEW ok \in BOOLEAN, Reply(ok) PROVE Processes'
  BY <1>0, <1>3 DEF Reply, Processes
<1>4. ASSUME NEW c \in Calls, Timeout(c) PROVE Processes'
  BY <1>s, <1>4 DEF Timeout
<1>5. CASE Break
  BY <1>s, <1>5 DEF Break
<1>6. ASSUME NEW h \in Helpers, Close(h) PROVE Processes'
  <2>1. proc = h /\ Alive = {h} BY <1>6 DEF Close, Processes
  <2>2. Alive' = {} BY <1>6, <2>1 DEF Close, Alive, TypeOK
  <2>3. /\ proc' = NoHelper /\ pending' = NoCall /\ UNCHANGED <<preparing, stop>>
    BY <1>6, <2>1 DEF Close
  <2>4. preparing = NoCall BY <2>1, HelpersAreDistinct DEF Processes
  <2>5. QED BY <2>2, <2>3, <2>4 DEF Processes, Stopping
<1>7. ASSUME NEW ok \in BOOLEAN, StopEnds(ok), preparing = NoCall PROVE Processes'
  BY <1>7 DEF StopEnds, Idle, Processes, Alive, Stopping
<1>8. CASE StopDrained
  <2>1. CASE stop.of = NoHelper
    BY <1>7, <1>8, <2>1 DEF StopDrained, LaunchIsOver
  <2>2. CASE stop.of # NoHelper
    BY <1>8, <2>2 DEF StopDrained, LaunchIsOver, Processes, Alive, Stopping, TypeOK
  <2>3. QED BY <2>1, <2>2
<1>9. CASE StopEscalates
  BY <1>9 DEF StopEscalates, Processes, Alive, Stopping, TypeOK
<1>10. CASE StopConfirmed
  BY <1>7, <1>10 DEF StopConfirmed, Processes
<1>11. CASE StopUnconfirmed
  BY <1>7, <1>11 DEF StopUnconfirmed, Processes
<1>12. ASSUME NEW c \in Calls, Capabilities(c) PROVE Processes'
  BY <1>0, <1>12 DEF Capabilities
<1>13. ASSUME NEW c \in Calls, NEW k, Ask(c, k), pending = NoCall, ~Stopping,
              UNCHANGED <<helper, proc, stop>>
       PROVE  Processes'
  BY <1>13, CallsAreDistinct DEF Ask, Processes, Alive, Stopping
<1>14. ASSUME NEW c \in Calls, Enter(c) PROVE Processes'
  <2>1. CASE Admissible(c) /\ ~fault
    BY <1>13, <1>14, <2>1 DEF Enter, Admissible
  <2>2. CASE ~(Admissible(c) /\ ~fault)
    BY <1>0, <1>14, <2>2 DEF Enter
  <2>3. QED BY <2>1, <2>2
<1>15. ASSUME NEW c \in Calls, NEW s \in Calls, Generate(c, s) PROVE Processes'
  <2> DEFINE accepted == SessionHolds(s) /\ pending = NoCall /\ ~fault /\ ~Stopping
  <2>1. CASE accepted
    BY <1>13, <1>15, <2>1 DEF Generate
  <2>2. CASE ~accepted
    BY <1>0, <1>15, <2>2 DEF Generate
  <2>3. QED BY <2>1, <2>2
<1>16. ASSUME NEW k \in Calls, NEW i \in Calls, Cancel(k, i) PROVE Processes'
  <2>1. \/ BeginStop
        \/ UNCHANGED <<pending, stop>>
    BY <1>16 DEF Cancel
  <2>2. QED BY <1>0, <1>s, <1>16, <2>1 DEF Cancel
<1>17. CASE CloseDocument
  BY <1>0, <1>s, <1>17 DEF CloseDocument
<1>18. CASE OpenDocument
  BY <1>0, <1>18 DEF OpenDocument
<1>19. CASE Quit
  BY <1>s, <1>19 DEF Quit
<1>20. CASE QuitEnds
  BY <1>0, <1>20 DEF QuitEnds
<1>21. CASE UNCHANGED vars
  BY <1>0, <1>21 DEF vars
<1>22. QED
  BY <1>1, <1>2, <1>3, <1>4, <1>5, <1>6, <1>8, <1>9, <1>10, <1>11, <1>12, <1>14, <1>15, <1>16,
     <1>17, <1>18, <1>19, <1>20, <1>21 DEF Next, ClientNext, PageNext

LEMMA LatchesStep == TypeOK /\ Processes /\ Latches /\ [Next]_vars => Latches'
<1> SUFFICES ASSUME TypeOK, Processes, Latches, [Next]_vars PROVE Latches'
  OBVIOUS
<1> USE DEF documents, client, world
\* A step that neither spawns, nor asks, nor moves Quit on.
<1>0. /\ UNCHANGED <<helper, quit, closed>> /\ (fault => fault')
      /\ (pending' = pending \/ pending' = NoCall)
      /\ (preparing' = preparing \/ preparing' = NoCall)
      => Latches'
  BY DEF Latches, QuitIsClean, Alive
<1>1. CASE Launched
  <2>1. CASE Unwanted
    BY <1>0, <1>1, <2>1 DEF Launched
  <2>2. CASE ~Unwanted
    BY <1>1, <2>2 DEF Launched, Unwanted, Latches, QuitIsClean, Alive, TypeOK
  <2>3. QED BY <2>1, <2>2
<1>2. CASE LaunchFails
  BY <1>0, <1>2 DEF LaunchFails, BeginStop
<1>3. ASSUME NEW ok \in BOOLEAN, Reply(ok) PROVE Latches'
  BY <1>0, <1>3 DEF Reply
<1>4. ASSUME NEW c \in Calls, Timeout(c) PROVE Latches'
  BY <1>0, <1>4 DEF Timeout, BeginStop
<1>5. CASE Break
  BY <1>0, <1>5 DEF Break, BeginStop
<1>6. ASSUME NEW h \in Helpers, Close(h) PROVE Latches'
  <2>1. proc = h BY <1>6 DEF Close, Processes
  <2>2. fault' = (fault \/ ~Stopping) BY <1>6, <2>1, Zenon DEF Close, Latched
  <2>3. (\E g \in Helpers : helper'[g] = "lost") => fault'
    BY <1>6, <2>2 DEF Close, Latches, TypeOK
  <2>4. Alive' \subseteq Alive BY <1>6 DEF Close, Alive, TypeOK
  <2>5. QED BY <1>6, <2>1, <2>3, <2>4 DEF Close, Latches, QuitIsClean
<1>7. ASSUME NEW ok \in BOOLEAN, StopEnds(ok), fault => fault',
             ok => Alive = {} /\ preparing = NoCall
      PROVE  Latches'
  <2>1. /\ quit' = quit \/ (quit # "no" /\ quit' = "no") \/ (quit # "no" /\ ok)
        /\ UNCHANGED <<helper, pending, preparing, closed>>
    BY <1>7 DEF StopEnds
  <2>2. QED BY <1>7, <2>1 DEF Latches, QuitIsClean, Alive
<1>8. CASE StopDrained
  <2>1. CASE stop.of = NoHelper
    BY <1>7, <1>8, <2>1, StopEndsClean DEF StopDrained
  <2>2. CASE stop.of # NoHelper
    BY <1>0, <1>8, <2>2 DEF StopDrained
  <2>3. QED BY <2>1, <2>2
<1>9. CASE StopEscalates
  BY <1>0, <1>9 DEF StopEscalates
<1>10. CASE StopConfirmed
  BY <1>7, <1>10, StopEndsClean DEF StopConfirmed
<1>11. CASE StopUnconfirmed
  BY <1>7, <1>11 DEF StopUnconfirmed
<1>12. ASSUME NEW c \in Calls, Capabilities(c) PROVE Latches'
  BY <1>0, <1>12 DEF Capabilities
<1>13. ASSUME ~closed, UNCHANGED <<helper, quit, closed, fault>> PROVE Latches'
  BY <1>13 DEF Latches, QuitIsClean
<1>14. ASSUME NEW c \in Calls, Enter(c) PROVE Latches'
  <2>1. CASE Admissible(c)
    BY <1>13, <1>14, <2>1 DEF Enter, Admissible
  <2>2. CASE ~Admissible(c)
    BY <1>0, <1>14, <2>2 DEF Enter
  <2>3. QED BY <2>1, <2>2
<1>15. ASSUME NEW c \in Calls, NEW s \in Calls, Generate(c, s) PROVE Latches'
  <2>1. CASE closed
    BY <1>0, <1>15, <2>1 DEF Generate, SessionHolds
  <2>2. CASE ~closed
    BY <1>13, <1>15, <2>2 DEF Generate
  <2>3. QED BY <2>1, <2>2
<1>16. ASSUME NEW k \in Calls, NEW i \in Calls, Cancel(k, i) PROVE Latches'
  <2>1. pending' = NoCall \/ UNCHANGED pending
    BY <1>16 DEF Cancel, BeginStop
  <2>2. QED BY <1>0, <1>16, <2>1 DEF Cancel
<1>17. CASE CloseDocument
  BY <1>0, <1>17 DEF CloseDocument, BeginStop
<1>18. CASE OpenDocument
  BY <1>0, <1>18 DEF OpenDocument
<1>19. CASE Quit
  BY <1>19 DEF Quit, BeginStop, Latches, QuitIsClean, Alive
<1>20. CASE QuitEnds
  BY <1>20 DEF QuitEnds, Latches, QuitIsClean, Alive
<1>21. CASE UNCHANGED vars
  BY <1>0, <1>21 DEF vars
<1>22. QED
  BY <1>1, <1>2, <1>3, <1>4, <1>5, <1>6, <1>8, <1>9, <1>10, <1>11, <1>12, <1>14, <1>15, <1>16,
     <1>17, <1>18, <1>19, <1>20, <1>21 DEF Next, ClientNext, PageNext

-----------------------------------------------------------------------------
\* What a step does to a call that is not new: it keeps its kind, its document
\* and its intent, and moves it to no phase that asks something of it.
Keeps(k) ==
    /\ call'[k].kind = call[k].kind /\ call'[k].by = call[k].by /\ call'[k].with = call[k].with
    /\ call'[k].at \in {"stopping", "stopped", "unconfirmed"}
         => call[k].at \in {"stopping", "stopped", "unconfirmed"}
    /\ call'[k].at \in {"waiting", "entering"} => call[k].at \in {"waiting", "entering"}

LEMMA KeepsKinds ==
    ASSUME CallKinds, revoked \subseteq revoked',
           \A k \in Calls : \/ Keeps(k)
                            \/ /\ StoppedFor(k)' => <<call'[k].by, call'[k].with>> \in revoked'
                               /\ call'[k].at \in {"waiting", "entering"} => call'[k].kind = "capabilities"
    PROVE  CallKinds'
BY DEF CallKinds, Keeps, StoppedFor

LEMMA SettledKeeps ==
    ASSUME TypeOK, NEW ok \in BOOLEAN, call' = Settled(ok)
    PROVE  \A k \in Calls : Keeps(k)
<1>1. PICK v \in Verdicts : SlotSettles(Settled(ok), v) BY SettledMoves
<1>2. SlotSettles(call', v) BY <1>1
<1>3. QED BY <1>2 DEF SlotSettles, Verdicts, Keeps

LEMMA GoKeeps ==
    ASSUME TypeOK, NEW c \in Calls, NEW phase \in {"asked", "failed", "unavailable"}, Go(c, phase)
    PROVE  \A k \in Calls : Keeps(k)
<1>1. phase \in Phases BY DEF Phases
<1>2. QED BY <1>1, GoMoves DEF Keeps

\* A step that leaves documents alone and gives the process no work.
LEMMA QuietStep ==
    ASSUME TypeOK, Intents, UNCHANGED <<documents, served>>,
           proc' \in {proc, NoHelper},
           \/ pending' = NoCall
           \/ /\ pending' = pending /\ call'[pending].kind = call[pending].kind
              /\ call'[pending].with = call[pending].with,
           proc' = NoHelper \/ fault' \/ Stopping' \/ (~Stopping /\ ~fault),
           \A k \in Calls : \/ Keeps(k)
                            \/ /\ StoppedFor(k)' => <<call'[k].by, call'[k].with>> \in revoked'
                               /\ call'[k].at \in {"waiting", "entering"} => call'[k].kind = "capabilities"
    PROVE  Intents'
<1>1. CallKinds' BY KeepsKinds DEF Intents, documents
<1>2. Sessions' /\ OneIntent' BY DEF Intents, Sessions, OneIntent, documents
<1>3. Workers' BY DEF Intents, Workers, Holds, Intent, documents
<1>4. QED BY <1>1, <1>2, <1>3 DEF Intents

\* A call that is made and refused, or joins a stop that revoked its intent.
LEMMA MadeQuiet ==
    ASSUME TypeOK, Intents, NEW c \in Calls, NEW kind \in {"generate", "cancel"},
           NEW with \in Calls, NEW phase \in Phases \ {"waiting", "entering"},
           Made(c, kind, with, phase), pending # c,
           \/ phase \notin {"stopping", "stopped", "unconfirmed"}
           \/ <<document, with>> \in revoked,
           UNCHANGED <<documents, served, proc, stop, fault, pending>>
    PROVE  Intents'
<1> DEFINE r == [kind |-> kind, by |-> document, with |-> with, at |-> phase]
<1>1. r.kind = kind /\ r.by = document /\ r.with = with /\ r.at = phase OBVIOUS
<1>2. call' = [call EXCEPT ![c] = r] BY DEF Made
<1> HIDE DEF r
<1>3. call'[c] = r /\ \A d \in Calls \ {c} : call'[d] = call[d] BY <1>2 DEF TypeOK
<1>4. \A d \in Calls : Keeps(d) \/ (/\ StoppedFor(d)' => <<call'[d].by, call'[d].with>> \in revoked'
                                    /\ call'[d].at \in {"waiting", "entering"} => call'[d].kind = "capabilities")
  BY <1>1, <1>3 DEF Keeps, StoppedFor, documents
<1>5. pending' = NoCall \/ (pending' = pending /\ call'[pending] = call[pending])
  BY <1>3 DEF TypeOK
<1>6. QED BY <1>4, <1>5, QuietStep DEF Stopping

\* The step that gives work: the process that is written to has worked for the
\* intent in force before, or for none.
LEMMA AskKeepsIntents ==
    ASSUME TypeOK, Processes, Intents, NEW c \in Calls, NEW k \in CallType, Ask(c, k),
           call[c] = Unmade \/ call[c] = k, k.kind \in {"capabilities", "generate"},
           ~Stopping, ~fault, UNCHANGED <<revoked, document, live, proc, stop, fault, helper>>,
           Sessions', NEW i, i = Intent(c, k), i \in Calls, Holds(i)',
           proc = NoHelper \/ Holds(i)
    PROVE  Intents'
<1>1. /\ pending' = c /\ call'[c].at \in {"resolving", "asked"}
      /\ call'[c].kind = k.kind /\ call'[c].by = k.by /\ call'[c].with = k.with
      /\ \A d \in Calls \ {c} : call'[d] = call[d]
  BY AskMoves
<1>2. CallKinds'
  BY <1>1, KeepsKinds DEF Intents, Keeps, StoppedFor
<1>3. Intent(pending', call'[pending']) = i
  BY <1>1 DEF Intent
<1>4. CASE proc = NoHelper
  <2>1. UNCHANGED served BY <1>4 DEF Ask
  <2>2. QED BY <1>2, <1>3, <1>4, <2>1 DEF Intents, Workers, OneIntent, Holds
<1>5. CASE proc # NoHelper
  <2>1. proc \in Helpers /\ served' = [served EXCEPT ![proc] = @ \cup {i}]
    BY <1>5 DEF Ask, TypeOK
  <2>2. \A j \in served[proc] : j = i
    BY <1>5 DEF Intents, Workers, Holds
  <2>3. served'[proc] = {i} /\ \A h \in Helpers \ {proc} : served'[h] = served[h]
    BY <2>1, <2>2 DEF TypeOK
  <2>4. OneIntent' BY <2>3 DEF Intents, OneIntent
  <2>5. Workers' BY <1>3, <1>5, <2>3 DEF Workers
  <2>6. QED BY <1>2, <2>4, <2>5 DEF Intents
<1>6. QED BY <1>4, <1>5

LEMMA IntentsStep == TypeOK /\ Processes /\ Latches /\ Intents /\ [Next]_vars => Intents'
<1> SUFFICES ASSUME TypeOK, Processes, Latches, Intents, [Next]_vars PROVE Intents'
  OBVIOUS
<1> USE DEF documents, client, world
<1>1. CASE Launched
  <2>1. CASE Unwanted
    BY <1>1, <2>1, QuietStep DEF Launched, Keeps, Stopping
  <2>2. CASE ~Unwanted
    <3>1. PICK h \in Helpers : /\ proc' = h
                               /\ served' = [served EXCEPT ![h] = {Intent(preparing, call[preparing])}]
      BY <1>1, <2>2 DEF Launched
    <3>2. /\ preparing \in Calls /\ pending = preparing /\ pending' = pending
          /\ Go(preparing, "asked") /\ UNCHANGED <<documents, stop, fault>>
      BY <1>1, <2>2 DEF Launched, Unwanted, TypeOK
    <3>3. "asked" \in Phases BY DEF Phases
    <3>4. Intent(preparing, call'[preparing]) = Intent(preparing, call[preparing])
      BY <3>2, <3>3, GoMoves DEF Intent
    <3> PICK i \in Calls : i = Intent(preparing, call[preparing]) /\ Holds(i)
      BY <3>2, CallsAreDistinct DEF Intents, Workers, Holds
    <3>5. Holds(i)' BY <3>2 DEF Holds
    <3>6. served'[h] = {i} /\ \A g \in Helpers \ {h} : served'[g] = served[g]
      BY <3>1 DEF TypeOK
    <3>7. Workers'
      <4>1. proc' = h /\ pending' = preparing /\ Intent(preparing, call'[preparing]) = i
        BY <3>1, <3>2, <3>4
      <4>2. QED BY <3>5, <3>6, <4>1 DEF Workers
    <3>8. OneIntent' BY <3>6 DEF Intents, OneIntent
    <3>9. CallKinds' BY <3>2, GoKeeps, KeepsKinds DEF Intents
    <3>10. QED BY <3>2, <3>7, <3>8, <3>9 DEF Intents, Sessions
  <2>3. QED BY <2>1, <2>2
<1>2. CASE LaunchFails
  <2>1. CASE pending = preparing
    BY <1>2, <2>1, SettledKeeps, QuietStep DEF LaunchFails, BeginStop, Stopping
  <2>2. CASE pending # preparing
    BY <1>2, <2>2, QuietStep DEF LaunchFails, Keeps, Stopping
  <2>3. QED BY <2>1, <2>2
<1>3. ASSUME NEW ok \in BOOLEAN, Reply(ok) PROVE Intents'
  BY <1>3, SettledKeeps, QuietStep DEF Reply, Stopping
<1>4. ASSUME NEW c \in Calls, Timeout(c) PROVE Intents'
  BY <1>4, SettledKeeps, QuietStep DEF Timeout, BeginStop, Stopping
<1>5. CASE Break
  BY <1>5, SettledKeeps, QuietStep DEF Break, BeginStop, Stopping
<1>6. ASSUME NEW h \in Helpers, Close(h) PROVE Intents'
  <2>1. proc = h BY <1>6 DEF Close, Processes
  <2>2. QED BY <1>6, <2>1, SettledKeeps, QuietStep DEF Close
<1>7. ASSUME NEW ok \in BOOLEAN, StopEnds(ok), proc = NoHelper \/ fault' PROVE Intents'
  <2>1. \A k \in Calls : Keeps(k) BY <1>7, StopEndsMoves DEF Keeps, Released
  <2>2. pending' = NoCall \/ (pending' = pending /\ call'[pending].kind = call[pending].kind
                                                /\ call'[pending].with = call[pending].with)
    BY <1>7, <2>1 DEF StopEnds, TypeOK, Keeps
  <2>3. QED BY <1>7, <2>1, <2>2, QuietStep DEF StopEnds
<1>8. CASE StopDrained
  <2>1. CASE stop.of = NoHelper
    BY <1>7, <1>8, <2>1, StopEndsClean DEF StopDrained
  <2>2. CASE stop.of # NoHelper
    <3>1. Stopping' BY <1>8, <2>2 DEF StopDrained, Stopping, TypeOK
    <3>2. QED BY <1>8, <2>2, <3>1, QuietStep DEF StopDrained, Keeps
  <2>3. QED BY <2>1, <2>2
<1>9. CASE StopEscalates
  <2>1. Stopping' BY <1>9 DEF StopEscalates, Stopping, TypeOK
  <2>2. QED BY <1>9, <2>1, QuietStep DEF StopEscalates, Keeps
<1>10. CASE StopConfirmed
  BY <1>7, <1>10, StopEndsClean DEF StopConfirmed
<1>11. CASE StopUnconfirmed
  BY <1>7, <1>11 DEF StopUnconfirmed
<1>12. ASSUME NEW c \in Calls, Capabilities(c) PROVE Intents'
  <2>1. PICK p \in {"entering", "waiting", "failed"} :
          /\ call' = [call EXCEPT ![c] =
               [kind |-> "capabilities", by |-> document, with |-> NoCall, at |-> p]]
          /\ call[c] = Unmade
    BY <1>12 DEF Capabilities, Made, TypeOK
  <2>2. pending # c BY <2>1, CallsAreDistinct DEF TypeOK, Unmade
  <2>3. /\ call'[c] = [kind |-> "capabilities", by |-> document, with |-> NoCall, at |-> p]
        /\ \A d \in Calls \ {c} : call'[d] = call[d]
    BY <2>1 DEF TypeOK
  <2>4. \A d \in Calls : Keeps(d) \/ (/\ StoppedFor(d)' => <<call'[d].by, call'[d].with>> \in revoked'
                                      /\ call'[d].at \in {"waiting", "entering"} => call'[d].kind = "capabilities")
    BY <2>3 DEF Keeps, StoppedFor
  <2>5. pending' = NoCall \/ (pending' = pending /\ call'[pending] = call[pending])
    BY <1>12, <2>2, <2>3 DEF Capabilities, TypeOK
  <2>6. QED BY <1>12, <2>4, <2>5, QuietStep DEF Capabilities, Stopping
<1>13. ASSUME NEW c \in Calls, Enter(c) PROVE Intents'
  <2>1. call[c] \in CallType /\ call[c].at = "entering" /\ call[c].kind = "capabilities"
    BY <1>13 DEF Enter, TypeOK, Intents, CallKinds
  <2>2. pending # c BY <2>1, CallsAreDistinct DEF TypeOK
  <2>3. CASE ~Admissible(c)
    <3>1. Go(c, "failed") BY <1>13, <2>3 DEF Enter
    <3>2. "failed" \in Phases BY DEF Phases
    <3>3. pending' = NoCall \/ (pending' = pending /\ call'[pending] = call[pending])
      BY <1>13, <2>2, <2>3, <3>1, <3>2, GoMoves DEF Enter, TypeOK
    <3>4. QED BY <1>13, <2>3, <3>1, <3>3, GoKeeps, QuietStep DEF Enter, Stopping
  <2>4. CASE Admissible(c)
    <3>1. /\ call[c].by = document /\ document \in Documents /\ live /\ pending = NoCall /\ ~Stopping
          /\ <<document, c>> \notin revoked
          /\ current[document] = NoCall \/ <<document, current[document]>> \in revoked
      BY <2>4 DEF Admissible, TypeOK
    <3>2. /\ current' = [current EXCEPT ![document] = c]
          /\ session' = [session EXCEPT ![document] = c]
          /\ clientOwner' = document
          /\ UNCHANGED <<revoked, document, live, proc, stop, fault, helper>>
      BY <1>13, <2>4, <3>1 DEF Enter
    <3>3. Sessions'
      BY <3>1, <3>2, CallsAreDistinct DEF Intents, Sessions, TypeOK, Documents
    <3>4. CASE fault
      <4>1. Go(c, "unavailable") /\ UNCHANGED <<pending, served>>
        BY <1>13, <2>4, <3>4 DEF Enter
      <4>2. CallKinds' BY <3>2, <4>1, GoKeeps, KeepsKinds DEF Intents
      <4>3. QED BY <3>1, <3>2, <3>3, <3>4, <4>1, <4>2 DEF Intents, Workers, OneIntent
    <3>5. CASE ~fault
      <4>1. Ask(c, call[c]) BY <1>13, <2>4, <3>5 DEF Enter
      <4>2. Intent(c, call[c]) = c BY <2>1 DEF Intent
      <4>3. Holds(c)' BY <3>1, <3>2 DEF Holds, TypeOK
      <4>4. proc = NoHelper
        <5>1. SUFFICES ASSUME proc # NoHelper PROVE FALSE
          OBVIOUS
        <5>2. PICK i \in served[proc] : Holds(i)
          BY <3>1, <3>5, <5>1 DEF Intents, Workers
        <5>3. QED BY <3>1, <5>2, CallsAreDistinct DEF Holds
      <4>5. QED BY <2>1, <3>1, <3>2, <3>3, <3>5, <4>1, <4>2, <4>3, <4>4, AskKeepsIntents
    <3>6. QED BY <3>4, <3>5
  <2>5. QED BY <2>3, <2>4
<1>14. ASSUME NEW c \in Calls, NEW s \in Calls, Generate(c, s) PROVE Intents'
  <2>1. call[c] = Unmade /\ pending # c
    BY <1>14, CallsAreDistinct DEF Generate, TypeOK, Unmade
  <2>2. CASE SessionHolds(s) /\ pending = NoCall /\ ~fault /\ ~Stopping
    <3> DEFINE k == [kind |-> "generate", by |-> document, with |-> s, at |-> "idle"]
    <3>1. k \in CallType BY MadeTyped DEF Phases
    <3>2. k.kind = "generate" /\ Intent(c, k) = s BY DEF Intent
    <3>3. Ask(c, k) BY <1>14, <2>2 DEF Generate
    <3> HIDE DEF k
    <3>4. UNCHANGED <<documents, proc, stop, fault, helper>> BY <1>14 DEF Generate
    <3>5. Holds(s)
      BY <2>2, CallsAreDistinct DEF SessionHolds, Holds, Intents, Sessions, TypeOK
    <3>6. Holds(s)' BY <3>4, <3>5 DEF Holds
    <3>7. Sessions' BY <3>4 DEF Intents, Sessions
    <3>8. QED BY <2>1, <2>2, <3>1, <3>2, <3>3, <3>4, <3>5, <3>6, <3>7, AskKeepsIntents
  <2>3. CASE ~(SessionHolds(s) /\ pending = NoCall /\ ~fault /\ ~Stopping)
    <3>1. /\ Made(c, "generate", s, "failed")
          /\ UNCHANGED <<documents, proc, stop, fault, served, pending>>
      BY <1>14, <2>3 DEF Generate
    <3>2. QED BY <2>1, <3>1, MadeQuiet DEF Phases
  <2>4. QED BY <2>2, <2>3
<1>15. ASSUME NEW k \in Calls, NEW i \in Calls, Cancel(k, i) PROVE Intents'
  <2>1. call[k] = Unmade /\ pending # k /\ document \in Documents
    BY <1>15, CallsAreDistinct DEF Cancel, TypeOK, Unmade
  <2>2. UNCHANGED <<current, clientOwner, document, live, proc, fault, served>>
    BY <1>15 DEF Cancel
  <2>3. CASE closed \/ ~live
    <3>1. Made(k, "cancel", i, "failed") /\ UNCHANGED <<revoked, session, pending, stop>>
      BY <1>15, <2>3 DEF Cancel
    <3>2. QED BY <2>1, <2>2, <3>1, MadeQuiet DEF Phases
  <2>4. CASE ~(closed \/ ~live) /\ StopsFor(document, i) # {}
    <3>1. PICK e \in StopsFor(document, i) : Made(k, "cancel", i, call[e].at)
      BY <1>15, <2>4 DEF Cancel
    <3>2. <<document, i>> \in revoked
      BY <2>4 DEF StopsFor, StoppedFor, Intents, CallKinds
    <3>3. UNCHANGED <<revoked, session, pending, stop>>
      BY <1>15, <2>4, <3>2 DEF Cancel
    <3>4. call[e].at \in {"stopping", "stopped", "unconfirmed"} BY DEF StopsFor
    <3>5. QED BY <2>1, <2>2, <3>1, <3>2, <3>3, <3>4, MadeQuiet DEF Phases
  <2>5. CASE ~(closed \/ ~live) /\ StopsFor(document, i) = {} /\ current[document] # i
    <3>1. Made(k, "cancel", i, "exited") /\ UNCHANGED <<session, pending, stop>>
          /\ revoked' = revoked \cup {<<document, i>>}
      BY <1>15, <2>5 DEF Cancel
    <3>2. /\ call'[k] = [kind |-> "cancel", by |-> document, with |-> i, at |-> "exited"]
          /\ \A d \in Calls \ {k} : call'[d] = call[d]
      BY <3>1 DEF Made, TypeOK
    <3>3. CallKinds'
      BY <3>1, <3>2, KeepsKinds DEF Intents, Keeps, StoppedFor
    <3>4. \A j : Holds(j) => Holds(j)' BY <2>2, <2>5, <3>1 DEF Holds
    <3>5. pending # NoCall => call'[pending] = call[pending]
      BY <2>1, <3>2 DEF TypeOK
    <3>6. Workers'
      BY <2>2, <3>1, <3>4, <3>5 DEF Intents, Workers, Stopping, Intent
    <3>7. QED BY <2>2, <3>1, <3>3, <3>6 DEF Intents, Sessions, OneIntent
  <2>6. CASE ~(closed \/ ~live) /\ StopsFor(document, i) = {} /\ current[document] = i
    <3>1. /\ session' = [session EXCEPT ![document] = NoCall]
          /\ revoked' = revoked \cup {<<document, i>>} /\ BeginStop
      BY <1>15, <2>6 DEF Cancel
    <3> DEFINE r == [kind |-> "cancel", by |-> document, with |-> i, at |-> "stopping"]
    <3>2. call' = [Settled(FALSE) EXCEPT ![k] = r] BY <1>15, <2>6 DEF Cancel
    <3>3. r.kind = "cancel" /\ r.by = document /\ r.with = i /\ r.at = "stopping" OBVIOUS
    <3> HIDE DEF r
    <3>4. PICK v \in Verdicts : SlotSettles(Settled(FALSE), v) BY SettledMoves
    <3>5. call'[k] = r /\ \A d \in Calls \ {k} : Keeps(d)
      BY <3>2, <3>4 DEF SlotSettles, Keeps, Verdicts
    <3>6. CallKinds'
      BY <2>2, <3>1, <3>3, <3>5, KeepsKinds DEF Intents, StoppedFor
    <3>7. pending' = NoCall /\ Stopping' BY <3>1 DEF BeginStop, Stopping
    <3>8. Workers' BY <2>2, <3>7 DEF Intents, Workers
    <3>9. Sessions' BY <2>1, <2>2, <3>1 DEF Intents, Sessions, TypeOK
    <3>10. QED BY <2>2, <3>6, <3>8, <3>9 DEF Intents, OneIntent
  <2>7. QED BY <2>3, <2>4, <2>5, <2>6
<1>16. CASE CloseDocument
  <2>1. /\ live' = FALSE /\ session' = [session EXCEPT ![document] = NoCall]
        /\ UNCHANGED <<revoked, current, document, proc, fault, served>>
    BY <1>16 DEF CloseDocument
  <2>2. Sessions' BY <2>1 DEF Intents, Sessions, TypeOK
  <2>3. \A d \in Calls : Keeps(d)
    BY <1>16, SettledKeeps DEF CloseDocument, Keeps
  <2>4. CallKinds' BY <2>1, <2>3, KeepsKinds DEF Intents
  <2>5. CASE UsesClient
    <3>1. pending' = NoCall /\ Stopping' BY <1>16, <2>5 DEF CloseDocument, BeginStop, Stopping
    <3>2. Workers' BY <2>1, <3>1 DEF Intents, Workers
    <3>3. QED BY <2>1, <2>2, <2>4, <3>2 DEF Intents, OneIntent
  <2>6. CASE ~UsesClient
    <3>1. UNCHANGED <<pending, stop>> BY <1>16, <2>6 DEF CloseDocument
    <3>2. \A j : ~Holds(j) BY <2>6 DEF Holds, UsesClient
    <3>3. Workers' BY <2>1, <3>1, <3>2 DEF Intents, Workers, Stopping
    <3>4. QED BY <2>1, <2>2, <2>4, <3>3 DEF Intents, OneIntent
  <2>7. QED BY <2>5, <2>6
<1>17. CASE OpenDocument
  <2>1. \A j : ~Holds(j) BY <1>17 DEF OpenDocument, Holds
  <2>2. Workers' BY <1>17, <2>1 DEF OpenDocument, Intents, Workers, Stopping
  <2>3. \A k \in Calls : Keeps(k) BY <1>17 DEF OpenDocument, Keeps
  <2>4. CallKinds' BY <1>17, <2>3, KeepsKinds DEF OpenDocument, Intents
  <2>5. session[document'] = NoCall
    <3>1. document \in Nat /\ document' = document + 1 /\ document' \in Documents
      BY <1>17, DocumentsArePositive DEF OpenDocument, TypeOK, Documents
    <3>2. QED BY <3>1 DEF Intents, Sessions
  <2>6. Sessions'
    <3>1. document \in Nat /\ document' = document + 1 /\ Documents \subseteq Nat
      BY <1>17, DocumentsArePositive DEF OpenDocument, TypeOK, Documents
    <3>2. UNCHANGED <<session, current, clientOwner>> BY <1>17 DEF OpenDocument
    <3>3. QED BY <2>5, <3>1, <3>2 DEF Intents, Sessions
  <2>7. QED BY <1>17, <2>2, <2>4, <2>6 DEF OpenDocument, Intents, OneIntent
<1>18. CASE Quit
  BY <1>18, SettledKeeps, QuietStep DEF Quit, BeginStop, Stopping
<1>19. CASE QuitEnds
  BY <1>19, QuietStep DEF QuitEnds, Keeps, Stopping
<1>20. CASE UNCHANGED vars
  BY <1>20, QuietStep DEF vars, Keeps, Stopping
<1>21. QED
  BY <1>1, <1>2, <1>3, <1>4, <1>5, <1>6, <1>8, <1>9, <1>10, <1>11, <1>12, <1>13, <1>14, <1>15,
     <1>16, <1>17, <1>18, <1>19, <1>20 DEF Next, ClientNext, PageNext

-----------------------------------------------------------------------------
IInv == TypeOK /\ Processes /\ Latches /\ Intents

LEMMA InitIsGood == Init => IInv
<1> SUFFICES ASSUME Init PROVE IInv
  OBVIOUS
<1>1. document \in Documents /\ 0 \in 0..MaxDocuments /\ 1 # 0
  BY DocumentsArePositive DEF Init, Documents
<1>2. Unmade \in CallType BY <1>1 DEF Unmade, CallType, Phases
<1>3. Idle \in [at : {"idle", "draining", "quit", "term", "kill"}, of : Helpers \cup {NoHelper}]
      /\ Idle.at = "idle"
  BY DEF Idle
<1>4. TypeOK BY <1>1, <1>2, <1>3 DEF Init, TypeOK
<1>5. Alive = {} BY DEF Init, Alive
<1>6. Processes BY <1>3, <1>5 DEF Init, Processes, Stopping
<1>7. Latches BY <1>5 DEF Init, Latches, QuitIsClean
<1>8. Sessions /\ Workers /\ OneIntent
  <2>1. Sessions BY <1>1 DEF Init, Sessions
  <2>2. Workers /\ OneIntent BY DEF Init, Workers, OneIntent
  <2>3. QED BY <2>1, <2>2
<1>9. CallKinds BY DEF Init, CallKinds, StoppedFor, Unmade
<1>10. QED BY <1>4, <1>6, <1>7, <1>8, <1>9 DEF IInv, Intents

LEMMA Inductive == IInv /\ [Next]_vars => IInv'
BY TypedStep, ProcessesStep, LatchesStep, IntentsStep DEF IInv

LEMMA Invariant == Spec => []IInv
BY InitIsGood, Inductive, PTL DEF Spec

\* The variables keep their types, and the call in the slot is on its way.
THEOREM Typed == Spec => []TypeOK
<1>1. IInv => TypeOK BY DEF IInv
<1>2. QED BY <1>1, Invariant, PTL

\* The client never has two helpers, nor one it has lost sight of.
THEOREM NeverTwoHelpers == Spec => []OneHelper
<1>1. IInv => OneHelper BY DEF IInv, Processes, OneHelper
<1>2. QED BY <1>1, Invariant, PTL

\* A helper only ever works for one intent: no conversation, and no document,
\* is answered by a process that heard another.
THEOREM NoSharedHelper == Spec => []OneIntent
<1>1. IInv => OneIntent BY DEF IInv, Intents
<1>2. QED BY <1>1, Invariant, PTL

\* Once Quit has heard from every stop no process runs and none will.
THEOREM QuitLeavesNothing == Spec => []QuitIsClean
<1>1. IInv => QuitIsClean BY DEF IInv, Latches
<1>2. QED BY <1>1, Invariant, PTL

-----------------------------------------------------------------------------
\* A step that ends a stop well, or tells nobody that one ended.
Tells ==
    \/ ready = "draining" /\ ready' = "clear"
    \/ \E k \in Calls : call[k].at = "stopping" /\ call'[k].at = "stopped"

LEMMA SettledTellsNobody ==
    ASSUME TypeOK, NEW ok \in BOOLEAN, NEW k \in Calls, call[k].at = "stopping"
    PROVE  Settled(ok)[k].at # "stopped"
<1>1. PICK v \in Verdicts : SlotSettles(Settled(ok), v) BY SettledMoves
<1>2. QED BY <1>1 DEF SlotSettles, Verdicts

LEMMA QuietTellsNobody ==
    ASSUME TypeOK, ready' = ready \/ ready' # "clear",
           call' = call \/ (\E ok \in BOOLEAN : call' = Settled(ok))
    PROVE  ~Tells
BY SettledTellsNobody DEF Tells

\* A call that was not stopping moves, and no other.
LEMMA OneMoveTellsNobody ==
    ASSUME TypeOK, UNCHANGED ready, NEW c \in Calls, call[c].at # "stopping",
           \A d \in Calls \ {c} : call'[d] = call[d]
    PROVE  ~Tells
BY DEF Tells

LEMMA EndOfStopTells ==
    ASSUME TypeOK, NEW ok \in BOOLEAN, StopEnds(ok), Tells
    PROVE  ok
<1>1. \A k \in Calls : call'[k].at = Released(call[k].at, ok) BY StopEndsMoves
<1>2. ready' = IF ready # "draining" THEN ready ELSE IF ok THEN "clear" ELSE "failed"
  BY DEF StopEnds
<1>3. QED BY <1>1, <1>2 DEF Tells, Released

\* What the page and the next document learn from the end of a stop.
LEMMA StopStep ==
    ASSUME TypeOK, Processes, CallKinds, [Next]_vars, Tells
    PROVE  Alive' = {} /\ preparing' = NoCall
<1> USE DEF documents, client, world
<1>1. ASSUME NEW ok \in BOOLEAN, StopEnds(ok), (Alive = {} /\ preparing = NoCall) \/ ~ok
      PROVE  Alive' = {} /\ preparing' = NoCall
  <2>1. ok BY <1>1, EndOfStopTells
  <2>2. UNCHANGED <<helper, preparing>> BY <1>1 DEF StopEnds
  <2>3. QED BY <1>1, <2>1, <2>2 DEF Alive
<1>2. ~ Launched
  <2> SUFFICES ASSUME Launched PROVE FALSE
    OBVIOUS
  <2>1. CASE UNCHANGED call BY <2>1, QuietTellsNobody DEF Launched
  <2>2. CASE ~UNCHANGED call
    <3>1. preparing \in Calls /\ pending = preparing /\ Go(preparing, "asked") /\ UNCHANGED ready
      BY <2>2 DEF Launched, Unwanted, TypeOK
    <3>2. call[preparing].at # "stopping" BY <3>1, CallsAreDistinct DEF TypeOK
    <3>3. "asked" \in Phases BY DEF Phases
    <3>4. \A d \in Calls \ {preparing} : call'[d] = call[d] BY <3>1, <3>3, GoMoves
    <3>5. QED BY <3>1, <3>2, <3>4, OneMoveTellsNobody
  <2>3. QED BY <2>1, <2>2
<1>3. ~ LaunchFails /\ ~ Break /\ (\A ok \in BOOLEAN : ~ Reply(ok)) /\ (\A c \in Calls : ~ Timeout(c))
  BY QuietTellsNobody DEF LaunchFails, Break, Reply, Timeout
<1>4. ~ \E h \in Helpers : Close(h)
  BY QuietTellsNobody DEF Close
<1>5. CASE StopDrained
  <2>1. CASE stop.of = NoHelper
    BY <1>1, <1>5, <2>1, StopEndsClean DEF StopDrained
  <2>2. CASE stop.of # NoHelper
    BY <1>5, <2>2, QuietTellsNobody DEF StopDrained
  <2>3. QED BY <2>1, <2>2
<1>6. ~ StopEscalates
  BY QuietTellsNobody DEF StopEscalates
<1>7. CASE StopConfirmed
  BY <1>1, <1>7, StopEndsClean DEF StopConfirmed
<1>8. CASE StopUnconfirmed
  BY <1>1, <1>8 DEF StopUnconfirmed
<1>9. ASSUME NEW c \in Calls, NEW r \in CallType, call' = [call EXCEPT ![c] = r],
             call[c] = Unmade, UNCHANGED ready
      PROVE  FALSE
  <2>1. call[c].at # "stopping" BY <1>9 DEF Unmade
  <2>2. QED BY <1>9, <2>1, CallBecomes, OneMoveTellsNobody
<1>10. ASSUME NEW c \in Calls, NEW kind \in {"capabilities", "generate", "cancel"},
              NEW with \in Calls \cup {NoCall}, NEW phase \in Phases,
              Made(c, kind, with, phase), UNCHANGED ready
       PROVE  FALSE
  <2>1. [kind |-> kind, by |-> document, with |-> with, at |-> phase] \in CallType
    BY MadeTyped
  <2>2. QED BY <1>9, <1>10, <2>1 DEF Made
<1>11. ~ \E c \in Calls : Capabilities(c)
  <2> SUFFICES ASSUME NEW c \in Calls, Capabilities(c) PROVE FALSE
    OBVIOUS
  <2>1. PICK phase \in Phases : Made(c, "capabilities", NoCall, phase)
    BY DEF Capabilities, Phases, TypeOK
  <2>2. QED BY <1>10, <2>1 DEF Capabilities
<1>12. ~ \E c \in Calls : Enter(c)
  <2> SUFFICES ASSUME NEW c \in Calls, Enter(c) PROVE FALSE
    OBVIOUS
  <2>1. call[c] \in CallType /\ call[c].at # "stopping" /\ UNCHANGED ready
    BY DEF Enter, TypeOK
  <2>2. {"failed", "unavailable"} \subseteq Phases BY DEF Phases
  <2>3. Go(c, "failed") \/ Go(c, "unavailable") \/ Ask(c, call[c]) BY DEF Enter
  <2>4. \A d \in Calls \ {c} : call'[d] = call[d]
    BY <2>1, <2>2, <2>3, GoMoves, AskMoves
  <2>5. QED BY <2>1, <2>4, OneMoveTellsNobody
<1>13. ~ \E c, s \in Calls : Generate(c, s)
  <2> SUFFICES ASSUME NEW c \in Calls, NEW s \in Calls, Generate(c, s) PROVE FALSE
    OBVIOUS
  <2> DEFINE k == [kind |-> "generate", by |-> document, with |-> s, at |-> "idle"]
  <2>1. k \in CallType BY MadeTyped DEF Phases
  <2>2. Ask(c, k) \/ Made(c, "generate", s, "failed") BY DEF Generate
  <2> HIDE DEF k
  <2>3. call[c].at # "stopping" /\ UNCHANGED ready BY DEF Generate, Unmade
  <2>4. CASE Ask(c, k) BY <2>1, <2>3, <2>4, AskMoves, OneMoveTellsNobody
  <2>5. CASE Made(c, "generate", s, "failed") BY <1>10, <2>3, <2>5 DEF Phases
  <2>6. QED BY <2>2, <2>4, <2>5
<1>14. ~ \E k, i \in Calls : Cancel(k, i)
  <2> SUFFICES ASSUME NEW k \in Calls, NEW i \in Calls, Cancel(k, i) PROVE FALSE
    OBVIOUS
  <2>1. UNCHANGED ready /\ call[k] = Unmade BY DEF Cancel
  <2>2. ASSUME NEW phase \in Phases, Made(k, "cancel", i, phase) PROVE FALSE
    BY <1>10, <2>1, <2>2
  <2>3. CASE closed \/ ~live BY <2>2, <2>3 DEF Cancel, Phases
  <2>4. CASE ~(closed \/ ~live) /\ StopsFor(document, i) # {}
    <3>1. PICK e \in StopsFor(document, i) : Made(k, "cancel", i, call[e].at)
      BY <2>4 DEF Cancel
    <3>2. call[e].at \in Phases BY DEF StopsFor, TypeOK, CallType
    <3>3. QED BY <2>2, <3>1, <3>2
  <2>5. CASE ~(closed \/ ~live) /\ StopsFor(document, i) = {} /\ current[document] # i
    BY <2>2, <2>5 DEF Cancel, Phases
  <2>6. CASE ~(closed \/ ~live) /\ StopsFor(document, i) = {} /\ current[document] = i
    <3> DEFINE r == [kind |-> "cancel", by |-> document, with |-> i, at |-> "stopping"]
               t == Settled(FALSE)
    <3>1. call' = [t EXCEPT ![k] = r] BY <2>6 DEF Cancel
    <3>2. r.at = "stopping" OBVIOUS
    <3>3. t \in [Calls -> CallType] BY SettledTyped
    <3>4. \A d \in Calls : call[d].at = "stopping" => t[d].at # "stopped"
      BY SettledTellsNobody
    <3> HIDE DEF r, t
    <3>5. \A d \in Calls : call[d].at = "stopping" => call'[d].at # "stopped"
      BY <3>1, <3>2, <3>3, <3>4
    <3>6. QED BY <2>1, <3>5 DEF Tells
  <2>7. QED BY <2>3, <2>4, <2>5, <2>6
<1>15. ~ CloseDocument
  BY QuietTellsNobody DEF CloseDocument, TypeOK
<1>16. ~ OpenDocument /\ ~ QuitEnds /\ ~ UNCHANGED vars
  BY QuietTellsNobody DEF OpenDocument, QuitEnds, vars
<1>17. ~ Quit
  BY QuietTellsNobody DEF Quit
<1>18. QED
  BY <1>2, <1>3, <1>4, <1>5, <1>6, <1>7, <1>8, <1>11, <1>12, <1>13, <1>14, <1>15, <1>16, <1>17
     DEF Next, ClientNext, PageNext

\* Stop says that the helper exited, and lets the next document in, only when no
\* process runs and none is about to.
THEOREM StopTellsTheTruth == Spec => StopIsTrue
<1>1. IInv /\ [Next]_vars
        => [\/ ready = "draining" /\ ready' = "clear"
            \/ \E k \in Calls : call[k].at = "stopping" /\ call'[k].at = "stopped"
            => Alive' = {} /\ preparing' = NoCall]_vars
  BY StopStep DEF IInv, Intents, Tells
<1>2. QED BY <1>1, Invariant, PTL DEF Spec, StopIsTrue

\* After a process was lost no other is ever started.
THEOREM LostIsTheLast == Spec => NoSecondStart
<1>1. ASSUME TypeOK, Latches, [Next]_vars, NEW g \in Helpers, helper[g] = "lost",
             NEW h \in Helpers, helper[h] = "unborn"
      PROVE  helper'[h] = "unborn"
  <2> USE DEF documents, client, world
  <2>1. fault BY <1>1 DEF Latches
  <2>2. CASE Launched BY <1>1, <2>1, <2>2 DEF Launched, Unwanted
  <2>3. ASSUME NEW k \in Helpers, Close(k) PROVE helper'[h] = "unborn"
    BY <1>1, <2>3 DEF Close, Alive, TypeOK
  <2>4. CASE ~Launched /\ \A k \in Helpers : ~Close(k)
    <3>1. UNCHANGED helper
      BY <1>1, <2>4 DEF Next, ClientNext, PageNext, vars, LaunchFails, Reply, Timeout, Break,
         StopDrained, StopEscalates, StopConfirmed, StopUnconfirmed, StopEnds, Capabilities,
         Enter, Generate, Cancel, CloseDocument, OpenDocument, Quit, QuitEnds
    <3>2. QED BY <1>1, <3>1
  <2>5. QED BY <2>2, <2>3, <2>4
<1>2. IInv /\ [Next]_vars
        => [(\E h \in Helpers : helper[h] = "lost")
            => \A h \in Helpers : helper[h] = "unborn" => helper'[h] = "unborn"]_vars
  BY <1>1 DEF IInv
<1>3. QED BY <1>2, Invariant, PTL DEF Spec, NoSecondStart

-----------------------------------------------------------------------------
Answers == {"available", "unavailable", "answered"}

\* If the step answers call c, with a model or with the fact that there is none,
\* then the page still wants it.
WantedStep(c) ==
    call'[c].at # call[c].at /\ call'[c].at \in Answers
    => /\ live' /\ ~closed' /\ call'[c].by = document'
       /\ <<document', Intent(c, call'[c])>> \notin revoked'

\* The slot answers only for an intent in force: of a capabilities call the code
\* looks at the intent itself, of a generate call at the session, which ends with it.
LEMMA SettledIsWanted ==
    ASSUME TypeOK, Workers, NEW ok \in BOOLEAN, NEW c \in Calls, call'[c] = Settled(ok)[c],
           UNCHANGED document, UNCHANGED revoked \/ session'[document] = NoCall
    PROVE  WantedStep(c)
<1> SUFFICES ASSUME call'[c].at # call[c].at, call'[c].at \in Answers
             PROVE  /\ live' /\ ~closed' /\ call'[c].by = document'
                    /\ <<document', Intent(c, call'[c])>> \notin revoked'
  BY DEF WantedStep
<1>1. PICK v \in Verdicts : v = Verdict(pending, ok) /\ SlotSettles(Settled(ok), v)
  BY SettledMoves
<1>2. /\ c = pending /\ v \in Answers
      /\ call'[c].kind = call[c].kind /\ call'[c].by = call[c].by /\ call'[c].with = call[c].with
  BY <1>1 DEF SlotSettles
<1>3. Verdict(pending, ok) # "failed" BY <1>1, <1>2 DEF Answers
<1>4. StillWanted(pending) BY <1>3, Zenon DEF Verdict
<1>5. Holds(Intent(c, call[c])) BY <1>2, CallsAreDistinct DEF Workers
<1>6. live' /\ ~closed' /\ call'[c].by = document'
  BY <1>2, <1>4 DEF StillWanted
<1>7. CASE call[c].kind = "capabilities"
  <2>1. <<call[c].by, c>> \notin revoked' BY <1>2, <1>4, <1>7 DEF StillWanted
  <2>2. QED BY <1>2, <1>6, <1>7, <2>1 DEF Intent
<1>8. CASE call[c].kind # "capabilities"
  <2>1. session'[document'] = call[c].with BY <1>2, <1>4, <1>6, <1>8 DEF StillWanted
  <2>2. call[c].with \in Calls /\ <<document, call[c].with>> \notin revoked
    BY <1>5, <1>8 DEF Intent, Holds
  <2>3. UNCHANGED revoked BY <2>1, <2>2, CallsAreDistinct
  <2>4. QED BY <1>2, <1>6, <1>8, <2>2, <2>3 DEF Intent
<1>9. QED BY <1>7, <1>8

LEMMA SettlingIsWanted ==
    ASSUME TypeOK, Workers, NEW ok \in BOOLEAN, call' = Settled(ok),
           UNCHANGED document, UNCHANGED revoked \/ session'[document] = NoCall
    PROVE  \A c \in Calls : WantedStep(c)
BY SettledIsWanted

\* A call that is made, or moves, without an answer.
LEMMA NoAnswer ==
    ASSUME NEW c \in Calls, \A d \in Calls \ {c} : call'[d] = call[d], call'[c].at \notin Answers
    PROVE  \A d \in Calls : WantedStep(d)
BY DEF WantedStep

LEMMA MadeNoAnswer ==
    ASSUME TypeOK, NEW c \in Calls, NEW kind \in {"capabilities", "generate", "cancel"},
           NEW with \in Calls \cup {NoCall}, NEW phase \in Phases \ Answers,
           Made(c, kind, with, phase)
    PROVE  \A d \in Calls : WantedStep(d)
<1> DEFINE r == [kind |-> kind, by |-> document, with |-> with, at |-> phase]
<1>1. r \in CallType BY MadeTyped
<1>2. r.at \notin Answers OBVIOUS
<1>3. call' = [call EXCEPT ![c] = r] BY DEF Made
<1> HIDE DEF r
<1>4. QED BY <1>1, <1>2, <1>3, CallBecomes, NoAnswer

LEMMA AnswerStep ==
    ASSUME TypeOK, Processes, Intents, [Next]_vars
    PROVE  \A c \in Calls : WantedStep(c)
<1> USE DEF documents, client, world, Intents
<1>0. UNCHANGED call => \A c \in Calls : WantedStep(c) BY DEF WantedStep
<1>1. ASSUME Launched PROVE \A c \in Calls : WantedStep(c)
  <2>1. CASE ~UNCHANGED call
    <3>1. preparing \in Calls /\ Go(preparing, "asked")
      BY <1>1, <2>1 DEF Launched, TypeOK
    <3>2. "asked" \in Phases /\ "asked" \notin Answers BY DEF Phases, Answers
    <3>3. call'[preparing].at = "asked" /\ \A d \in Calls \ {preparing} : call'[d] = call[d]
      BY <3>1, <3>2, GoMoves
    <3>4. QED BY <3>1, <3>2, <3>3, NoAnswer
  <2>2. QED BY <1>0, <2>1
<1>2. ASSUME LaunchFails PROVE \A c \in Calls : WantedStep(c)
  BY <1>0, <1>2, SettlingIsWanted DEF LaunchFails
<1>3. ASSUME NEW ok \in BOOLEAN, Reply(ok) PROVE \A c \in Calls : WantedStep(c)
  BY <1>3, SettlingIsWanted DEF Reply
<1>4. ASSUME NEW k \in Calls, Timeout(k) PROVE \A c \in Calls : WantedStep(c)
  BY <1>4, SettlingIsWanted DEF Timeout
<1>5. ASSUME Break PROVE \A c \in Calls : WantedStep(c)
  BY <1>5, SettlingIsWanted DEF Break
<1>6. ASSUME NEW h \in Helpers, Close(h) PROVE \A c \in Calls : WantedStep(c)
  BY <1>0, <1>6, SettlingIsWanted DEF Close
<1>7. ASSUME NEW ok \in BOOLEAN, StopEnds(ok) PROVE \A c \in Calls : WantedStep(c)
  <2>1. \A k \in Calls : call'[k].at = Released(call[k].at, ok) BY <1>7, StopEndsMoves
  <2>2. QED BY <2>1 DEF WantedStep, Released, Answers
<1>8. ASSUME StopDrained \/ StopEscalates \/ StopConfirmed \/ StopUnconfirmed
      PROVE  \A c \in Calls : WantedStep(c)
  BY <1>0, <1>7, <1>8 DEF StopDrained, StopEscalates, StopConfirmed, StopUnconfirmed
<1>9. ASSUME NEW k \in Calls, Capabilities(k) PROVE \A c \in Calls : WantedStep(c)
  <2>1. PICK phase \in {"entering", "waiting", "failed"} : Made(k, "capabilities", NoCall, phase)
    BY <1>9 DEF Capabilities, TypeOK
  <2>2. phase \in Phases \ Answers BY DEF Phases, Answers
  <2>3. QED BY <2>1, <2>2, MadeNoAnswer
<1>10. ASSUME NEW k \in Calls, Enter(k) PROVE \A c \in Calls : WantedStep(c)
  <2>1. call[k] \in CallType /\ call[k].kind = "capabilities"
    BY <1>10 DEF Enter, TypeOK, CallKinds
  <2>2. {"failed", "unavailable"} \subseteq Phases BY DEF Phases
  <2>3. CASE Go(k, "failed")
    <3>1. call'[k].at = "failed" /\ \A d \in Calls \ {k} : call'[d] = call[d]
      BY <2>2, <2>3, GoMoves
    <3>2. QED BY <3>1, NoAnswer DEF Answers
  <2>4. CASE Admissible(k) /\ Go(k, "unavailable")
    <3>1. call'[k].kind = call[k].kind /\ call'[k].by = call[k].by
          /\ \A d \in Calls \ {k} : call'[d] = call[d]
      BY <2>2, <2>4, GoMoves
    <3>2. UNCHANGED <<revoked, document, live, closed>> BY <1>10 DEF Enter
    <3>3. WantedStep(k)
      BY <2>1, <2>4, <3>1, <3>2 DEF Admissible, WantedStep, Intent
    <3>4. QED BY <3>1, <3>3 DEF WantedStep
  <2>5. CASE Ask(k, call[k])
    <3>1. call'[k].at \in {"resolving", "asked"} /\ \A d \in Calls \ {k} : call'[d] = call[d]
      BY <2>1, <2>5, AskMoves
    <3>2. QED BY <3>1, NoAnswer DEF Answers
  <2>6. QED BY <1>10, <2>3, <2>4, <2>5 DEF Enter
<1>11. ASSUME NEW k \in Calls, NEW s \in Calls, Generate(k, s) PROVE \A c \in Calls : WantedStep(c)
  <2> DEFINE r == [kind |-> "generate", by |-> document, with |-> s, at |-> "idle"]
  <2>1. r \in CallType BY MadeTyped DEF Phases
  <2>2. Ask(k, r) \/ Made(k, "generate", s, "failed") BY <1>11 DEF Generate
  <2> HIDE DEF r
  <2>3. CASE Ask(k, r)
    <3>1. call'[k].at \in {"resolving", "asked"} /\ \A d \in Calls \ {k} : call'[d] = call[d]
      BY <2>1, <2>3, AskMoves
    <3>2. QED BY <3>1, NoAnswer DEF Answers
  <2>4. CASE Made(k, "generate", s, "failed")
    BY <2>4, MadeNoAnswer DEF Phases, Answers
  <2>5. QED BY <2>2, <2>3, <2>4
<1>12. ASSUME NEW k \in Calls, NEW i \in Calls, Cancel(k, i) PROVE \A c \in Calls : WantedStep(c)
  <2>1. CASE \E phase \in {"failed", "exited", "stopping", "stopped", "unconfirmed"} :
                 Made(k, "cancel", i, phase)
    BY <2>1, MadeNoAnswer DEF Phases, Answers
  <2>2. CASE closed \/ ~live BY <1>12, <2>1, <2>2 DEF Cancel
  <2>3. CASE ~(closed \/ ~live) /\ StopsFor(document, i) # {}
    BY <1>12, <2>1, <2>3 DEF Cancel, StopsFor
  <2>4. CASE ~(closed \/ ~live) /\ StopsFor(document, i) = {} /\ current[document] # i
    BY <1>12, <2>1, <2>4 DEF Cancel
  <2>5. CASE ~(closed \/ ~live) /\ StopsFor(document, i) = {} /\ current[document] = i
    <3> DEFINE r == [kind |-> "cancel", by |-> document, with |-> i, at |-> "stopping"]
               t == Settled(FALSE)
    <3>1. call' = [t EXCEPT ![k] = r] /\ UNCHANGED document BY <1>12, <2>5 DEF Cancel
    <3>2. session'[document] = NoCall BY <1>12, <2>5 DEF Cancel, TypeOK
    <3>3. r.at \notin Answers BY DEF Answers
    <3>4. t \in [Calls -> CallType] BY SettledTyped
    <3>5. \A d \in Calls : call'[d] = t[d] => WantedStep(d)
      BY <3>1, <3>2, SettledIsWanted
    <3> HIDE DEF r, t
    <3>6. call'[k] = r /\ \A d \in Calls \ {k} : call'[d] = t[d] BY <3>1, <3>4
    <3>7. QED BY <3>3, <3>5, <3>6 DEF WantedStep
  <2>6. QED BY <2>2, <2>3, <2>4, <2>5
<1>13. ASSUME CloseDocument PROVE \A c \in Calls : WantedStep(c)
  BY <1>0, <1>13, SettlingIsWanted DEF CloseDocument
<1>14. ASSUME Quit PROVE \A c \in Calls : WantedStep(c)
  BY <1>14, SettlingIsWanted DEF Quit
<1>15. ASSUME OpenDocument \/ QuitEnds \/ UNCHANGED vars PROVE \A c \in Calls : WantedStep(c)
  BY <1>0, <1>15 DEF OpenDocument, QuitEnds, vars
<1>16. QED
  BY <1>1, <1>2, <1>3, <1>4, <1>5, <1>6, <1>8, <1>9, <1>10, <1>11, <1>12, <1>13, <1>14, <1>15
     DEF Next, ClientNext, PageNext

\* A page gets no answer for an intent it revoked or after its document was closed.
THEOREM OnlyWantedAnswers == Spec => AnswersAreWanted
<1>1. IInv /\ [Next]_vars
        => [\A c \in Calls :
              call'[c].at # call[c].at /\ call'[c].at \in {"available", "unavailable", "answered"}
              => /\ live' /\ ~closed' /\ call'[c].by = document'
                 /\ <<document', Intent(c, call'[c])>> \notin revoked']_vars
  BY AnswerStep DEF IInv, WantedStep, Answers
<1>2. QED BY <1>1, Invariant, PTL DEF Spec, AnswersAreWanted
=============================================================================
