------------------------- MODULE VoiceScopeProofs -------------------------
(***************************************************************************)
(* Proofs about VoiceScope: a Stop that resolved is true, and what it      *)
(* revoked gives nothing to the page any more, for every number of records *)
(* and of adapters of a document.                                          *)
(*                                                                         *)
(* StopIsTrue speaks of a Stop that ended, so it needs to know how it came *)
(* to: a record that left the scope owns nothing (LetGo), and while a Stop *)
(* proceeds without a fault, what it no longer asks Main for is over there *)
(* (Looked).  The last phase meets both, and the drain.                    *)
(***************************************************************************)
EXTENDS VoiceScope, TLAPS

Places == {"unborn", "toPrepare", "preparing", "called", "toFall", "falling", "over"}
Works == {"none", "running", "stopping", "gone", "stuck"}
Replies == {"none", "result", "proof", "failure", "rejected"}
Records == [at : Places, by : Adapters, native : BOOLEAN, sent : BOOLEAN,
            revoked : BOOLEAN, done : BOOLEAN, gave : BOOLEAN]
Scopes == [closed : BOOLEAN, stopped : BOOLEAN, joined : BOOLEAN, disposed : BOOLEAN,
           native : SUBSET Requests, at : {"idle", "ack", "drain", "observe", "final"},
           end : {"none", "resolved", "rejected"}]
TextStates == [at : {"no", "preparing", "writing"}, live : BOOLEAN, prep : BOOLEAN,
           cap : BOOLEAN, stopping : BOOLEAN]

\* The types, as far as the rest relies on them.
Formed ==
    /\ acts \in 0..MaxActs /\ page \in Adapters /\ fault \in BOOLEAN
    /\ mine \subseteq Requests
    /\ rec \in [Requests -> Records]
    /\ scope \in [Adapters -> Scopes]
    /\ text \in [Adapters -> TextStates]
    /\ work \in [Requests -> Works] /\ reply \in [Requests -> Replies]
    /\ helper \in [Adapters -> BOOLEAN]

\* A request that was not made yet has left no trace.
Unmade ==
    \A r \in Requests : r > acts => /\ rec[r].at = "unborn" /\ r \notin mine
                                    /\ work[r] = "none" /\ reply[r] = "none"

\* What Main has of a request, and what the page knows of it.
Traced ==
    \A r \in Requests :
        /\ r \in mine => rec[r].at # "unborn"
        /\ ~rec[r].sent => work[r] = "none"
        /\ rec[r].sent => rec[r].native
        /\ rec[r].at \in {"toPrepare", "preparing"} => rec[r].native /\ ~rec[r].sent
        /\ rec[r].done => work[r] = "gone"
        /\ reply[r] \in {"result", "proof"} => work[r] = "gone"

\* A record the scope let go owns nothing any more.
LetGo ==
    \A r \in Requests : r \notin mine => ~Local(r) /\ work[r] \in {"none", "gone"}

\* A scope that was stopped is closed, and its records are revoked.
Closes ==
    \A d \in Adapters :
        /\ scope[d].joined => scope[d].closed
        /\ scope[d].joined => \A r \in mine : rec[r].by = d => rec[r].revoked
        /\ Stopping(d) => scope[d].joined /\ scope[d].end = "none"

\* What a Stop no longer looks for in Main is over there.
Looked ==
    \A d \in Adapters : Stopping(d) /\ ~fault =>
        /\ scope[d].at = "final" => scope[d].native = {}
        /\ \A r \in mine : rec[r].by = d /\ r \notin scope[d].native =>
                              work[r] \in {"none", "gone"}

\* A helper is prepared, or being stopped, or its end is uncertain.
Helped == \A d \in Adapters : helper[d] => text[d].prep \/ text[d].stopping \/ fault

\* A Stop that resolved has let go of everything.
Resolved ==
    \A d \in Adapters : scope[d].joined /\ scope[d].end = "resolved" =>
        /\ \A r \in mine : rec[r].by # d
        /\ ~text[d].stopping
        /\ helper[d] => text[d].prep

ScopeInv == Formed /\ Unmade /\ Traced /\ LetGo /\ Closes /\ Looked /\ Helped /\ Resolved

LEMMA InitScope == Init => ScopeInv
<1> SUFFICES ASSUME Init PROVE ScopeInv
  OBVIOUS
<1>1. Unborn \in Records /\ Unborn.at = "unborn" /\ ~Unborn.sent /\ ~Unborn.done
  BY BoundsArePositive DEF Unborn, Records, Places, Adapters
<1>2. Open \in Scopes /\ Open.at = "idle" /\ ~Open.joined
  BY DEF Open, Scopes
<1>3. Silent \in TextStates
  BY DEF Silent, TextStates
<1>4. Formed
  <2>1. 0 \in 0..MaxActs /\ 1 \in Adapters
    BY BoundsArePositive DEF Adapters
  <2>2. "none" \in Works /\ "none" \in Replies
    BY DEF Works, Replies
  <2> QED BY <1>1, <1>2, <1>3, <2>1, <2>2 DEF Init, Formed
<1>5. Unmade /\ Traced /\ LetGo
  BY <1>1 DEF Init, Unmade, Traced, LetGo, Local
<1>6. Closes /\ Looked /\ Helped /\ Resolved
  BY <1>2 DEF Init, Closes, Looked, Helped, Resolved, Stopping
<1> QED BY <1>4, <1>5, <1>6 DEF ScopeInv

---------------------------------------------------------------------------
(* The life of a request.                                                  *)

\* One record moves on, and the scope may let it go.
LEMMA RecordMoves ==
    ASSUME ScopeInv, NEW r \in Requests, rec[r].at # "unborn",
           NEW t \in Records, rec' = [rec EXCEPT ![r] = t],
           t.at # "unborn", t.by = rec[r].by, t.native = rec[r].native, t.sent = rec[r].sent,
           t.revoked = rec[r].revoked, t.done => work[r] = "gone",
           t.at \in {"toPrepare", "preparing"} => t.native /\ ~t.sent,
           fault' \in BOOLEAN, fault => fault', mine' \in {mine, mine \ {r}},
           r \notin mine' => /\ t.at \notin {"toPrepare", "preparing", "toFall", "falling"}
                             /\ work[r] \in {"none", "gone"},
           UNCHANGED <<acts, page, scope, textVars, mainVars>>
    PROVE  ScopeInv'
<1>1. /\ rec'[r] = t /\ \A p \in Requests : p # r => rec'[p] = rec[p]
      /\ rec' \in [Requests -> Records]
      /\ UNCHANGED <<acts, page, scope, text, helper, work, reply>>
      /\ mine' \subseteq mine /\ \A p \in Requests : p # r /\ p \in mine => p \in mine'
  BY DEF ScopeInv, Formed, textVars, mainVars
<1>2. \A p \in Requests : rec'[p].by = rec[p].by /\ rec'[p].revoked = rec[p].revoked
  BY <1>1
<1>3. Formed' /\ Unmade'
  <2>1. r <= acts
    BY DEF ScopeInv, Unmade, Formed, Requests
  <2> QED BY <1>1, <2>1 DEF ScopeInv, Formed, Unmade, Requests
<1>4. Traced'
  BY <1>1 DEF ScopeInv, Traced
<1>5. LetGo'
  BY <1>1 DEF ScopeInv, LetGo, Local
<1>6. Closes' /\ Looked'
  BY <1>1, <1>2 DEF ScopeInv, Closes, Looked, Stopping, Formed
<1>7. Helped' /\ Resolved'
  BY <1>1, <1>2 DEF ScopeInv, Helped, Resolved, Formed
<1> QED BY <1>3, <1>4, <1>5, <1>6, <1>7 DEF ScopeInv

\* finish() lets a record go only when Main owns nothing for it.
LEMMA EndsHolds ==
    ASSUME ScopeInv, NEW r \in Requests, rec[r].at # "unborn",
           NEW t \in {rec[r], [rec[r] EXCEPT !.done = TRUE]}, t.done => work[r] = "gone",
           NEW gave \in BOOLEAN, NEW f \in BOOLEAN, fault => f, Ends(r, t, gave, f),
           UNCHANGED <<acts, page, scope, textVars, mainVars>>
    PROVE  ScopeInv'
<1> DEFINE u == [t EXCEPT !.at = "over", !.gave = gave]
<1>1. t \in Records /\ t.by = rec[r].by /\ t.native = rec[r].native /\ t.sent = rec[r].sent
      /\ t.revoked = rec[r].revoked
  <2>1. rec[r] \in Records
    BY DEF ScopeInv, Formed
  <2>2. CASE t = rec[r]
    BY <2>1, <2>2
  <2>3. CASE t = [rec[r] EXCEPT !.done = TRUE]
    BY <2>1, <2>3 DEF Records
  <2> QED BY <2>2, <2>3
<1>2. /\ u \in Records /\ u.at = "over" /\ u.by = rec[r].by /\ u.native = rec[r].native
      /\ u.sent = rec[r].sent /\ u.revoked = rec[r].revoked /\ u.done = t.done
  BY <1>1 DEF Records, Places
<1> HIDE DEF u
<1>3. rec' = [rec EXCEPT ![r] = u] /\ fault' = f /\ mine' \in {mine, mine \ {r}}
      /\ (mine' # mine => Released(r, t, f))
  BY DEF Ends, u
<1>4. r \notin mine' => work[r] \in {"none", "gone"}
  <2>1. CASE r \notin mine
    BY <2>1 DEF ScopeInv, LetGo
  <2>2. CASE Released(r, t, f)
    BY <1>1, <2>2 DEF Released, ScopeInv, Traced
  <2> QED BY <1>3, <2>1, <2>2
<1> QED BY <1>2, <1>3, <1>4, RecordMoves

LEMMA LocalStartsHolds ==
    ASSUME ScopeInv, NEW r \in Requests, LocalStarts(r) PROVE ScopeInv'
<1> DEFINE place == IF rec[r].at = "toPrepare" THEN "preparing" ELSE "falling"
           t == [rec[r] EXCEPT !.at = place]
<1>1. CASE Ok(r)
  <2>1. rec' = [rec EXCEPT ![r] = t] /\ fault' = fault /\ mine' = mine /\ r \in mine
    BY <1>1 DEF LocalStarts, Goes, Ok, ScopeInv, Formed
  <2>2. /\ t \in Records /\ t.at = place /\ t.by = rec[r].by /\ t.native = rec[r].native
        /\ t.sent = rec[r].sent /\ t.revoked = rec[r].revoked /\ t.done = rec[r].done
    BY DEF ScopeInv, Formed, Records, Places
  <2> HIDE DEF t
  <2>3. rec[r].at \in {"toPrepare", "toFall"}
    BY DEF LocalStarts
  <2>4. (t.done => work[r] = "gone") /\ (t.at \in {"toPrepare", "preparing"} => t.native /\ ~t.sent)
    BY <2>2, <2>3 DEF ScopeInv, Traced
  <2> QED BY <2>1, <2>2, <2>3, <2>4, RecordMoves DEF LocalStarts, ScopeInv, Formed
<1>2. CASE ~Ok(r)
  <2>1. Ends(r, rec[r], FALSE, fault) /\ rec[r].at # "unborn"
    BY <1>2 DEF LocalStarts
  <2> QED BY <2>1, EndsHolds DEF LocalStarts, ScopeInv, Traced, Formed
<1> QED BY <1>1, <1>2

\* The request goes to Main: its scope is not being stopped.
LEMMA SendsHolds ==
    ASSUME ScopeInv, NEW r \in Requests, rec[r].at = "preparing", Ok(r), Dispatches(r, rec[r]),
           UNCHANGED <<fault, kept, mine, acts, page, scope, textVars, refused>>
    PROVE  ScopeInv'
<1> DEFINE t == [rec[r] EXCEPT !.at = "called", !.sent = TRUE]
<1>1. /\ t \in Records /\ t.at = "called" /\ t.by = rec[r].by /\ t.native = rec[r].native
      /\ t.sent /\ t.revoked = rec[r].revoked /\ t.done = rec[r].done
  BY DEF ScopeInv, Formed, Records, Places
<1>2. rec' = [rec EXCEPT ![r] = t]
  BY DEF Dispatches
<1> HIDE DEF t
<1>3. /\ rec'[r] = t /\ \A p \in Requests : p # r => rec'[p] = rec[p]
      /\ rec' \in [Requests -> Records]
      /\ UNCHANGED <<acts, page, fault, mine, scope, text, helper>>
  BY <1>1, <1>2 DEF ScopeInv, Formed, textVars
<1>4. /\ work' \in [Requests -> Works] /\ reply' \in [Requests -> Replies]
      /\ \A p \in Requests : p # r => work'[p] = work[p] /\ reply'[p] = reply[p]
      /\ reply'[r] \in {"result", "proof"} => reply'[r] = reply[r] /\ work'[r] # work[r]
      /\ work[r] = "none"
  <2>1. work[r] = "none" /\ reply[r] \notin {"result", "proof"}
    BY DEF ScopeInv, Traced
  <2> QED BY <2>1 DEF Dispatches, ScopeInv, Formed, Works, Replies
<1>5. r \in mine /\ ~rec[r].revoked /\ r <= acts
  BY DEF Ok, ScopeInv, Unmade, Formed, Requests
<1>6. \A d \in Adapters : rec[r].by = d => ~scope[d].joined /\ ~Stopping(d)
  BY <1>5 DEF ScopeInv, Closes
<1>7. \A p \in Requests : rec'[p].by = rec[p].by /\ rec'[p].revoked = rec[p].revoked
  BY <1>1, <1>3
<1>8. Formed' /\ Unmade'
  BY <1>3, <1>4, <1>5 DEF ScopeInv, Formed, Unmade, Requests
<1>9. Traced'
  <2>1. ~rec[r].done /\ reply'[r] \notin {"result", "proof"}
    BY <1>4 DEF ScopeInv, Traced
  <2> QED BY <1>1, <1>3, <1>4, <2>1 DEF ScopeInv, Traced
<1>10. LetGo'
  BY <1>1, <1>3, <1>4, <1>5 DEF ScopeInv, LetGo, Local
<1>11. Closes'
  BY <1>3, <1>7 DEF ScopeInv, Closes, Stopping, Formed
<1>12. Looked'
  <2> SUFFICES ASSUME NEW d \in Adapters, Stopping(d), ~fault, NEW p \in mine, rec[p].by = d,
                      p \notin scope[d].native
               PROVE  work'[p] \in {"none", "gone"}
    BY <1>3, <1>7 DEF ScopeInv, Looked, Stopping, Formed
  <2>1. p # r
    BY <1>6
  <2> QED BY <1>4, <2>1 DEF ScopeInv, Looked, Formed
<1>13. Helped' /\ Resolved'
  BY <1>3, <1>7 DEF ScopeInv, Helped, Resolved, Formed
<1> QED BY <1>8, <1>9, <1>10, <1>11, <1>12, <1>13 DEF ScopeInv

LEMMA PreparedHolds ==
    ASSUME ScopeInv, NEW r \in Requests, Prepared(r) PROVE ScopeInv'
<1>1. CASE Ok(r) /\ Dispatches(r, rec[r]) /\ UNCHANGED <<fault, kept, mine>>
  BY <1>1, SendsHolds DEF Prepared
<1>2. ASSUME NEW dirty \in BOOLEAN, Ends(r, rec[r], FALSE, fault \/ dirty),
             UNCHANGED <<work, reply>>
      PROVE  ScopeInv'
  <2>1. PICK f \in BOOLEAN : f = (fault \/ dirty) /\ (fault => f)
    BY DEF ScopeInv, Formed
  <2> QED BY <1>2, <2>1, EndsHolds DEF Prepared, ScopeInv, Traced, mainVars
<1> QED BY <1>1, <1>2 DEF Prepared

LEMMA AnsweredHolds ==
    ASSUME ScopeInv, NEW r \in Requests, Answered(r) PROVE ScopeInv'
<1> DEFINE t == [rec[r] EXCEPT !.done = TRUE]
<1>0. /\ rec[r].at = "called" /\ (rec[r].done => work[r] = "gone")
      /\ UNCHANGED <<acts, page, scope, textVars, mainVars>>
      /\ fault \in BOOLEAN /\ rec[r] \in Records
  BY DEF Answered, ScopeInv, Traced, Formed
<1>1. CASE ~Ok(r) /\ Ends(r, rec[r], FALSE, fault \/ (reply[r] = "rejected" /\ ~rec[r].revoked))
  <2>1. PICK f \in BOOLEAN : /\ f = (fault \/ (reply[r] = "rejected" /\ ~rec[r].revoked))
                             /\ (fault => f)
    BY <1>0
  <2> QED BY <1>0, <1>1, <2>1, EndsHolds
<1>2. CASE Ok(r) /\ reply[r] = "result" /\ Ends(r, t, TRUE, fault)
  <2>1. work[r] = "gone"
    BY <1>2 DEF ScopeInv, Traced
  <2> QED BY <1>0, <1>2, <2>1, EndsHolds
<1>3. CASE Ends(r, rec[r], FALSE, TRUE)
  BY <1>0, <1>3, EndsHolds
<1>4. CASE /\ Ok(r) /\ CanFallback(r)
           /\ rec' = [rec EXCEPT ![r].at = "toFall", ![r].done = TRUE]
           /\ UNCHANGED <<fault, kept, mine>>
  <2> DEFINE u == [rec[r] EXCEPT !.at = "toFall", !.done = TRUE]
  <2>1. /\ u \in Records /\ u.at = "toFall" /\ u.by = rec[r].by /\ u.native = rec[r].native
        /\ u.sent = rec[r].sent /\ u.revoked = rec[r].revoked
    BY <1>0 DEF Records, Places
  <2>2. rec' = [rec EXCEPT ![r] = u]
    BY <1>0, <1>4 DEF ScopeInv, Formed, Records
  <2> HIDE DEF u
  <2>3. work[r] = "gone" /\ r \in mine
    BY <1>4 DEF CanFallback, Ok, ScopeInv, Traced
  <2> QED BY <1>0, <1>4, <2>1, <2>2, <2>3, RecordMoves
<1> QED BY <1>1, <1>2, <1>3, <1>4 DEF Answered

LEMMA FellHolds ==
    ASSUME ScopeInv, NEW r \in Requests, Fell(r) PROVE ScopeInv'
<1>1. ASSUME NEW gave \in BOOLEAN, NEW f \in BOOLEAN, fault => f, Ends(r, rec[r], gave, f)
      PROVE  ScopeInv'
  BY <1>1, EndsHolds DEF Fell, ScopeInv, Traced
<1>2. fault \in BOOLEAN /\ \A dirty \in BOOLEAN : (fault \/ dirty) \in BOOLEAN
  BY DEF ScopeInv, Formed
<1>3. CASE Ends(r, rec[r], TRUE, fault)
  BY <1>1, <1>2, <1>3
<1>4. ASSUME NEW dirty \in BOOLEAN, Ends(r, rec[r], FALSE, fault \/ dirty) PROVE ScopeInv'
  <2>1. PICK f \in BOOLEAN : f = (fault \/ dirty) /\ (fault => f)
    BY <1>2
  <2> QED BY <1>1, <1>4, <2>1
<1> QED BY <1>3, <1>4 DEF Fell

\* A new record, of a scope that is open: the page's own scope is not being stopped.
LEMMA BeginHolds ==
    ASSUME ScopeInv, NEW plan \in {"call", "prepare", "local"}, Begin(plan) PROVE ScopeInv'
<1> DEFINE d == page
           r == acts + 1
           t == [Unborn EXCEPT !.by = d, !.native = plan # "local"]
<1>1. /\ acts' = acts + 1 /\ r \in Requests /\ d \in Adapters /\ acts \in Nat
      /\ rec[r].at = "unborn" /\ r \notin mine /\ work[r] = "none" /\ reply[r] = "none"
      /\ ~fault /\ ~Stopping(d) /\ (scope[d].closed => scope[d].stopped)
  BY BoundsArePositive
  DEF Begin, Act, Admits, ScopeInv, Formed, Unmade, Requests
<1>2. /\ t \in Records /\ t.by = d /\ t.native = (plan # "local") /\ ~t.sent /\ ~t.revoked
      /\ ~t.done /\ ~t.gave
  BY <1>1 DEF Unborn, Records, Places
<1>3. CASE /\ fault' = TRUE /\ UNCHANGED <<kept, mine, rec, scope, mainVars>>
           /\ UNCHANGED <<page, textVars, refused>>
  <2>1. UNCHANGED <<page, mine, rec, scope, text, helper, work, reply>> /\ acts' \in 0..MaxActs
    BY <1>1, <1>3 DEF textVars, mainVars, Requests
  <2>2. Formed' /\ Unmade'
    <3>1. \A p \in Requests : p > acts' => p > acts
      BY <1>1 DEF Requests
    <3> QED BY <1>1, <1>3, <2>1, <3>1 DEF ScopeInv, Formed, Unmade
  <2>3. Traced' /\ LetGo' /\ Closes' /\ Looked' /\ Helped' /\ Resolved'
    BY <1>3, <2>1 DEF ScopeInv, Traced, LetGo, Local, Closes, Looked, Helped, Resolved, Stopping
  <2> QED BY <2>2, <2>3 DEF ScopeInv
<1>4. CASE /\ mine' = mine \cup {r} /\ UNCHANGED fault
           /\ scope' = IF scope[d].closed
                         THEN [scope EXCEPT ![d].closed = FALSE, ![d].stopped = FALSE,
                                           ![d].joined = FALSE]
                         ELSE scope
           /\ IF plan = "call"
                THEN Dispatches(r, t)
                ELSE /\ rec' = [rec EXCEPT ![r] = [t EXCEPT !.at =
                                  IF plan = "local" THEN "toFall" ELSE "toPrepare"]]
                     /\ UNCHANGED <<work, reply>>
           /\ UNCHANGED <<page, textVars, refused>>
  <2>1. PICK u \in Records :
           /\ rec' = [rec EXCEPT ![r] = u] /\ u.by = d /\ ~u.revoked /\ ~u.done
           /\ u.at \in {"called", "toFall", "toPrepare"}
           /\ u.at = "toPrepare" => u.native /\ ~u.sent
           /\ u.sent => u.native
           /\ work'[r] \in Works /\ reply'[r] \in Replies \ {"result", "proof"}
           /\ work' = [work EXCEPT ![r] = work'[r]] /\ reply' = [reply EXCEPT ![r] = reply'[r]]
           /\ ~u.sent => work'[r] = "none"
    <3>1. CASE plan = "call"
      <4> DEFINE u == [t EXCEPT !.at = "called", !.sent = TRUE]
      <4>1. /\ u \in Records /\ u.by = d /\ ~u.revoked /\ ~u.done /\ u.at = "called"
            /\ u.sent /\ u.native
        BY <1>2, <3>1 DEF Records, Places
      <4>2. Dispatches(r, t)
        BY <1>4, <3>1
      <4>3. rec' = [rec EXCEPT ![r] = u]
        BY <4>2 DEF Dispatches
      <4> HIDE DEF t, u
      <4>4. /\ work'[r] \in Works /\ reply'[r] \in Replies \ {"result", "proof"}
            /\ work' = [work EXCEPT ![r] = work'[r]] /\ reply' = [reply EXCEPT ![r] = reply'[r]]
        BY <1>1, <4>2 DEF Dispatches, ScopeInv, Formed, Works, Replies
      <4> QED BY <4>1, <4>3, <4>4
    <3>2. CASE plan # "call"
      <4> DEFINE place == IF plan = "local" THEN "toFall" ELSE "toPrepare"
                 u == [t EXCEPT !.at = place]
      <4>1. /\ u \in Records /\ u.by = d /\ ~u.revoked /\ ~u.done /\ u.at = place
            /\ ~u.sent /\ u.native = (plan # "local")
        BY <1>2 DEF Records, Places
      <4>2. rec' = [rec EXCEPT ![r] = u] /\ UNCHANGED <<work, reply>>
        BY <1>4, <3>2
      <4> HIDE DEF t, u
      <4> QED BY <1>1, <4>1, <4>2 DEF ScopeInv, Formed, Works, Replies
    <3> QED BY <3>1, <3>2
  <2> HIDE DEF t
  <2>2. /\ rec'[r] = u /\ \A p \in Requests : p # r => rec'[p] = rec[p]
        /\ rec' \in [Requests -> Records]
        /\ UNCHANGED <<page, fault, text, helper>>
    BY <1>1, <1>4, <2>1 DEF ScopeInv, Formed, textVars
  <2>3. /\ work' \in [Requests -> Works] /\ reply' \in [Requests -> Replies]
        /\ \A p \in Requests : p # r => work'[p] = work[p] /\ reply'[p] = reply[p]
    BY <1>1, <2>1 DEF ScopeInv, Formed
  <2>4. /\ scope' \in [Adapters -> Scopes] /\ ~scope'[d].joined /\ scope'[d].at = "idle"
        /\ \A e \in Adapters : e # d => scope'[e] = scope[e]
    <3>1. scope[d] \in Scopes /\ scope[d].at = "idle"
      BY <1>1 DEF ScopeInv, Formed, Stopping
    <3>2. CASE scope[d].closed
      <4> DEFINE c == [scope[d] EXCEPT !.closed = FALSE, !.stopped = FALSE, !.joined = FALSE]
      <4>1. scope' = [scope EXCEPT ![d] = c]
        BY <1>1, <1>4, <3>2 DEF ScopeInv, Formed, Scopes
      <4>2. c \in Scopes /\ ~c.joined /\ c.at = "idle"
        BY <3>1 DEF Scopes
      <4> HIDE DEF c
      <4> QED BY <1>1, <4>1, <4>2 DEF ScopeInv, Formed
    <3>3. CASE ~scope[d].closed
      BY <1>1, <1>4, <3>1, <3>3 DEF ScopeInv, Formed, Closes
    <3> QED BY <3>2, <3>3
  <2>5. Formed'
    <3>1. acts' \in 0..MaxActs /\ mine' \subseteq Requests
      BY <1>1, <1>4 DEF ScopeInv, Formed, Requests
    <3> QED BY <2>2, <2>3, <2>4, <3>1 DEF ScopeInv, Formed
  <2>6. Unmade'
    <3> SUFFICES ASSUME NEW p \in Requests, p > acts'
                 PROVE  /\ rec'[p].at = "unborn" /\ p \notin mine'
                        /\ work'[p] = "none" /\ reply'[p] = "none"
      BY DEF Unmade
    <3>1. p # r /\ p > acts
      BY <1>1 DEF Requests
    <3> QED BY <1>4, <2>2, <2>3, <3>1 DEF ScopeInv, Unmade
  <2>7. Traced'
    BY <1>4, <2>1, <2>2, <2>3 DEF ScopeInv, Traced
  <2>8. LetGo'
    BY <1>4, <2>1, <2>2, <2>3 DEF ScopeInv, LetGo, Local
  <2>9. Closes'
    BY <1>1, <1>4, <2>1, <2>2, <2>4 DEF ScopeInv, Closes, Stopping, Formed
  <2>10. Looked'
    <3> SUFFICES ASSUME NEW e \in Adapters, Stopping(e)', ~fault
                 PROVE  /\ scope'[e].at = "final" => scope'[e].native = {}
                        /\ \A p \in mine' : rec'[p].by = e /\ p \notin scope'[e].native =>
                              work'[p] \in {"none", "gone"}
      BY <2>2 DEF Looked
    <3>1. e # d /\ scope'[e] = scope[e] /\ Stopping(e)
      BY <2>4 DEF Stopping
    <3>2. ASSUME NEW p \in mine', rec'[p].by = e, p \notin scope'[e].native
          PROVE  work'[p] \in {"none", "gone"}
      <4>1. p # r /\ p \in mine /\ p \in Requests
        BY <1>4, <2>1, <2>2, <3>1, <3>2 DEF ScopeInv, Formed
      <4> QED BY <2>2, <2>3, <3>1, <3>2, <4>1 DEF ScopeInv, Looked
    <3> QED BY <3>1, <3>2 DEF ScopeInv, Looked
  <2>11. Helped' /\ Resolved'
    BY <1>1, <1>4, <2>1, <2>2, <2>4 DEF ScopeInv, Helped, Resolved, Formed
  <2> QED BY <2>5, <2>6, <2>7, <2>8, <2>9, <2>10, <2>11 DEF ScopeInv
<1> HIDE DEF t
<1> QED BY <1>1, <1>3, <1>4 DEF Begin, Act, Admits, t

---------------------------------------------------------------------------
(* Main.                                                                   *)

\* Work that Main still had is a scope's to look for.
LEMMA WorkChanges ==
    ASSUME ScopeInv, work' \in [Requests -> Works], reply' \in [Requests -> Replies],
           \A r \in Requests :
               /\ work[r] \in {"none", "gone"} => work'[r] = work[r]
               /\ reply'[r] \in {"result", "proof"} =>
                      work'[r] = "gone" \/ (reply'[r] = reply[r] /\ work'[r] = work[r])
               /\ work[r] = "none" => reply'[r] = reply[r],
           UNCHANGED <<acts, page, fault, mine, rec, scope, text, helper>>
    PROVE  ScopeInv'
<1>1. Formed' /\ Unmade'
  BY DEF ScopeInv, Formed, Unmade
<1>2. Traced' /\ LetGo'
  BY DEF ScopeInv, Traced, LetGo, Local, Formed
<1>3. Closes' /\ Helped' /\ Resolved'
  BY DEF ScopeInv, Closes, Helped, Resolved, Stopping
<1>4. Looked'
  BY DEF ScopeInv, Looked, Stopping, Formed
<1> QED BY <1>1, <1>2, <1>3, <1>4 DEF ScopeInv

LEMMA MainHolds == ASSUME ScopeInv, NEW r \in Requests, Main(r) PROVE ScopeInv'
<1>1. CASE MainEnds(r)
  <2>1. /\ work[r] \in {"running", "stopping"} /\ work' = [work EXCEPT ![r] = "gone"]
        /\ \/ reply' = reply
           \/ \E a \in {"result", "proof", "failure"} : reply' = [reply EXCEPT ![r] = a]
        /\ UNCHANGED <<acts, page, fault, mine, rec, scope, text, helper>>
    BY <1>1 DEF MainEnds, scopeVars, textVars
  <2>2. work' \in [Requests -> Works] /\ reply' \in [Requests -> Replies]
    BY <2>1 DEF ScopeInv, Formed, Works, Replies
  <2> QED BY <2>1, <2>2, WorkChanges DEF ScopeInv, Formed
<1>2. CASE MainSticks(r)
  <2>1. /\ work[r] \in {"running", "stopping"} /\ work' = [work EXCEPT ![r] = "stuck"]
        /\ reply' = [reply EXCEPT ![r] = "failure"]
        /\ UNCHANGED <<acts, page, fault, mine, rec, scope, text, helper>>
    BY <1>2 DEF MainSticks, scopeVars, textVars
  <2>2. work' \in [Requests -> Works] /\ reply' \in [Requests -> Replies]
    BY <2>1 DEF ScopeInv, Formed, Works, Replies
  <2> QED BY <2>1, <2>2, WorkChanges DEF ScopeInv, Formed
<1> QED BY <1>1, <1>2 DEF Main

---------------------------------------------------------------------------
(* Text.                                                                   *)

\* What a generation, its preparation or its stop changes of one adapter.
LEMMA TextChanges ==
    ASSUME ScopeInv, NEW d \in Adapters, NEW t \in TextStates, text' = [text EXCEPT ![d] = t],
           acts' \in 0..MaxActs, acts <= acts', fault' \in BOOLEAN, fault => fault',
           helper' \in [Adapters -> BOOLEAN], \A e \in Adapters : e # d => helper'[e] = helper[e],
           helper'[d] => t.prep \/ t.stopping \/ fault',
           scope[d].joined /\ scope[d].end = "resolved" =>
               ~t.stopping /\ (helper'[d] => t.prep),
           UNCHANGED <<page, mine, rec, scope, work, reply>>
    PROVE  ScopeInv'
<1>1. Formed' /\ Unmade'
  <2>1. \A r \in Requests : r > acts' => r > acts
    BY DEF ScopeInv, Formed, Requests
  <2> QED BY <2>1 DEF ScopeInv, Formed, Unmade
<1>2. Traced' /\ LetGo' /\ Closes' /\ Looked'
  BY DEF ScopeInv, Traced, LetGo, Local, Closes, Looked, Stopping
<1>3. Helped' /\ Resolved'
  BY DEF ScopeInv, Helped, Resolved, Formed
<1> QED BY <1>1, <1>2, <1>3 DEF ScopeInv

LEMMA GenerateHolds == ASSUME ScopeInv, Generate PROVE ScopeInv'
<1> DEFINE d == page
<1>1. /\ acts' = acts + 1 /\ acts' \in 0..MaxActs /\ d \in Adapters /\ ~text[d].stopping
      /\ text[d] \in TextStates /\ acts <= acts' /\ fault \in BOOLEAN
  BY BoundsArePositive DEF Generate, Act, ScopeInv, Formed
<1>2. UNCHANGED <<page, fault, mine, rec, scope, work, reply>>
  BY DEF Generate, scopeVars, mainVars
<1>3. CASE text[d].cap
  <2> DEFINE t == [text[d] EXCEPT !.at = "writing", !.live = TRUE]
  <2>1. text' = [text EXCEPT ![d] = t] /\ helper' = helper
    BY <1>1, <1>3 DEF Generate, ScopeInv, Formed, TextStates
  <2>2. t \in TextStates /\ t.prep = text[d].prep /\ t.stopping = text[d].stopping
    BY <1>1 DEF TextStates
  <2> HIDE DEF t
  <2>3. /\ helper'[d] => t.prep \/ t.stopping \/ fault'
        /\ scope[d].joined /\ scope[d].end = "resolved" => ~t.stopping /\ (helper'[d] => t.prep)
    BY <1>1, <1>2, <2>1, <2>2 DEF ScopeInv, Helped, Resolved
  <2> QED BY <1>1, <1>2, <2>1, <2>2, <2>3, TextChanges DEF ScopeInv, Formed
<1>4. CASE ~text[d].cap
  <2> DEFINE t == [text[d] EXCEPT !.at = "preparing", !.live = TRUE, !.prep = TRUE]
  <2>1. text' = [text EXCEPT ![d] = t] /\ helper' = [helper EXCEPT ![d] = TRUE]
    BY <1>1, <1>4 DEF Generate, ScopeInv, Formed, TextStates
  <2>2. t \in TextStates /\ t.prep /\ t.stopping = text[d].stopping
    BY <1>1 DEF TextStates
  <2> HIDE DEF t
  <2>3. /\ helper' \in [Adapters -> BOOLEAN] /\ \A e \in Adapters : e # d => helper'[e] = helper[e]
    BY <2>1 DEF ScopeInv, Formed
  <2> QED BY <1>1, <1>2, <2>1, <2>2, <2>3, TextChanges
<1> QED BY <1>3, <1>4

LEMMA TextsHolds == ASSUME ScopeInv, NEW d \in Adapters, Texts(d) PROVE ScopeInv'
<1>0. text[d] \in TextStates /\ acts \in 0..MaxActs /\ acts <= acts /\ fault \in BOOLEAN
      /\ helper \in [Adapters -> BOOLEAN]
  BY BoundsArePositive DEF ScopeInv, Formed
<1>1. ASSUME NEW t \in TextStates, text' = [text EXCEPT ![d] = t], t.prep = text[d].prep,
             t.stopping = text[d].stopping,
             UNCHANGED <<acts, page, fault, mine, rec, scope, work, reply, helper>>
      PROVE  ScopeInv'
  <2>1. /\ helper[d] => t.prep \/ t.stopping \/ fault
        /\ scope[d].joined /\ scope[d].end = "resolved" => ~t.stopping /\ (helper[d] => t.prep)
    BY <1>1 DEF ScopeInv, Helped, Resolved
  <2> QED BY <1>0, <1>1, <2>1, TextChanges
<1>2. CASE TextPrepared(d)
  <2>1. UNCHANGED <<acts, page, fault, mine, rec, scope, work, reply, helper>>
    BY <1>2 DEF TextPrepared, scopeVars, mainVars
  <2> DEFINE t == [text[d] EXCEPT !.at = "writing", !.cap = TRUE]
             u == [text[d] EXCEPT !.at = "no"]
  <2>2. text' = [text EXCEPT ![d] = t] \/ text' = [text EXCEPT ![d] = u]
    <3>1. PICK ready \in BOOLEAN :
            text' = IF ready /\ text[d].live /\ ~scope[d].disposed
                  THEN [text EXCEPT ![d].at = "writing", ![d].cap = TRUE]
                  ELSE [text EXCEPT ![d].at = "no"]
      BY <1>2 DEF TextPrepared
    <3>2. [text EXCEPT ![d].at = "writing", ![d].cap = TRUE] = [text EXCEPT ![d] = t]
      BY <1>0 DEF ScopeInv, Formed, TextStates
    <3> QED BY <3>1, <3>2
  <2>3. /\ t \in TextStates /\ t.prep = text[d].prep /\ t.stopping = text[d].stopping
        /\ u \in TextStates /\ u.prep = text[d].prep /\ u.stopping = text[d].stopping
    BY <1>0 DEF TextStates
  <2> HIDE DEF t, u
  <2> QED BY <1>1, <2>1, <2>2, <2>3
<1>3. CASE TextAnswered(d)
  <2> DEFINE u == [text[d] EXCEPT !.at = "no"]
  <2>1. UNCHANGED <<acts, page, fault, mine, rec, scope, work, reply, helper>>
        /\ text' = [text EXCEPT ![d] = u]
    BY <1>3 DEF TextAnswered, scopeVars, mainVars
  <2>2. u \in TextStates /\ u.prep = text[d].prep /\ u.stopping = text[d].stopping
    BY <1>0 DEF TextStates
  <2> HIDE DEF u
  <2> QED BY <1>1, <2>1, <2>2
<1>4. CASE TextStops(d)
  <2> DEFINE t == [text[d] EXCEPT !.stopping = FALSE]
  <2>1. /\ text[d].stopping /\ text' = [text EXCEPT ![d] = t]
        /\ UNCHANGED <<acts, page, mine, rec, scope, work, reply>>
        /\ \/ helper' = [helper EXCEPT ![d] = FALSE] /\ fault' = fault
           \/ helper' = helper /\ fault' = TRUE
    BY <1>4 DEF TextStops, mainVars
  <2>2. t \in TextStates /\ ~t.stopping
    BY <1>0 DEF TextStates
  <2> HIDE DEF t
  <2>3. ~(scope[d].joined /\ scope[d].end = "resolved")
    BY <2>1 DEF ScopeInv, Resolved
  <2>4. /\ helper' \in [Adapters -> BOOLEAN] /\ \A e \in Adapters : e # d => helper'[e] = helper[e]
        /\ fault' \in BOOLEAN /\ (fault => fault') /\ (helper'[d] => fault')
    <3>1. CASE helper' = [helper EXCEPT ![d] = FALSE] /\ fault' = fault
      BY <1>0, <3>1
    <3>2. CASE helper' = helper /\ fault' = TRUE
      BY <1>0, <3>2
    <3> QED BY <2>1, <3>1, <3>2
  <2> QED BY <1>0, <2>1, <2>2, <2>3, <2>4, TextChanges
<1> QED BY <1>2, <1>3, <1>4 DEF Texts

---------------------------------------------------------------------------
(* Stop and dispose.                                                       *)

\* Every record of the scope is revoked; what Main may own is to be looked for.
LEMMA StopBeginsHolds ==
    ASSUME ScopeInv, NEW d \in Adapters, NEW disposed \in BOOLEAN, ~Stopping(d),
           acts' \in 0..MaxActs, acts <= acts', StopBegins(d, disposed)
    PROVE  ScopeInv'
<1> DEFINE all == mine \cap Of(d)
           native == {r \in all : rec[r].native /\ ~rec[r].done}
           t == TextCancelled(d)[d]
<1>1. /\ rec \in [Requests -> Records] /\ scope[d] \in Scopes /\ text[d] \in TextStates
      /\ mine \subseteq Requests /\ native \subseteq all /\ all \subseteq mine
      /\ \A r \in mine : rec[r].by = d => r \in all
      /\ \A r \in all : rec[r].by = d
  BY DEF ScopeInv, Formed, Of, Traced
<1>2. UNCHANGED <<page, fault, mine, helper>>
  BY DEF StopBegins
<1>3. /\ rec' \in [Requests -> Records]
      /\ \A r \in Requests : /\ rec'[r].at = rec[r].at /\ rec'[r].by = rec[r].by
                             /\ rec'[r].native = rec[r].native /\ rec'[r].sent = rec[r].sent
                             /\ rec'[r].done = rec[r].done
                             /\ rec[r].revoked => rec'[r].revoked
                             /\ r \in all => rec'[r].revoked
  <2> HIDE DEF all
  <2>1. rec' = [r \in Requests |-> IF r \in all THEN [rec[r] EXCEPT !.revoked = TRUE] ELSE rec[r]]
    BY DEF StopBegins, all
  <2>2. ASSUME NEW r \in Requests
        PROVE  LET s == [rec[r] EXCEPT !.revoked = TRUE]
               IN /\ s \in Records /\ s.at = rec[r].at /\ s.by = rec[r].by
                  /\ s.native = rec[r].native /\ s.sent = rec[r].sent
                  /\ s.done = rec[r].done /\ s.revoked
    BY <1>1 DEF Records
  <2> QED BY <1>1, <2>1, <2>2
<1>4. /\ scope' \in [Adapters -> Scopes]
      /\ scope'[d].closed /\ scope'[d].joined /\ scope'[d].at = "ack"
      /\ scope'[d].native = native /\ scope'[d].end = "none"
      /\ \A e \in Adapters : e # d => scope'[e] = scope[e]
  <2> HIDE DEF native
  <2> DEFINE c == [scope[d] EXCEPT !.closed = TRUE, !.joined = TRUE, !.at = "ack",
                                   !.native = native, !.end = "none", !.disposed = disposed]
  <2>1. scope' = [scope EXCEPT ![d] = c]
    BY DEF StopBegins, native
  <2>2. native \subseteq Requests
    BY <1>1
  <2>3. c \in Scopes /\ c.closed /\ c.joined /\ c.at = "ack" /\ c.native = native /\ c.end = "none"
    BY <1>1, <2>2 DEF Scopes
  <2> HIDE DEF c
  <2> QED BY <2>1, <2>3 DEF ScopeInv, Formed
<1>5. /\ work' \in [Requests -> Works] /\ reply' \in [Requests -> Replies]
      /\ \A r \in Requests :
            \/ work'[r] = work[r] /\ reply'[r] = reply[r]
            \/ r \in native /\ work[r] = "running" /\ work'[r] = "stopping" /\ reply'[r] = "failure"
  <2> HIDE DEF native
  <2>1. Revoked(native)
    BY DEF StopBegins, native
  <2> QED BY <2>1 DEF Revoked, ScopeInv, Formed, Works, Replies
<1>6. /\ text' = [text EXCEPT ![d] = t] /\ t \in TextStates
      /\ t.prep = (text[d].stopping /\ text[d].prep)
      /\ t.stopping = (text[d].stopping \/ text[d].prep)
  <2> DEFINE u == [text[d] EXCEPT !.live = FALSE,
                                  !.cap = text[d].stopping /\ @,
                                  !.prep = text[d].stopping /\ @,
                                  !.stopping = @ \/ text[d].prep]
  <2>1. u \in TextStates /\ u.prep = (text[d].stopping /\ text[d].prep)
        /\ u.stopping = (text[d].stopping \/ text[d].prep)
    BY <1>1 DEF TextStates
  <2>2. TextCancelled(d) = [text EXCEPT ![d] = u]
    BY <1>1 DEF TextCancelled, ScopeInv, Formed, TextStates
  <2> HIDE DEF u
  <2>3. t = u
    BY <2>2 DEF ScopeInv, Formed
  <2> HIDE DEF t
  <2> QED BY <2>1, <2>2, <2>3 DEF StopBegins
<1>7. \A r \in mine : rec[r].by = d /\ r \notin native => work[r] \in {"none", "gone"}
  BY <1>1 DEF ScopeInv, Traced
<1> HIDE DEF native, all, t
<1>8. Formed'
  BY <1>2, <1>3, <1>4, <1>5, <1>6 DEF ScopeInv, Formed
<1>9. Unmade'
  <2> SUFFICES ASSUME NEW r \in Requests, r > acts'
               PROVE  /\ rec'[r].at = "unborn" /\ r \notin mine'
                      /\ work'[r] = "none" /\ reply'[r] = "none"
    BY DEF Unmade
  <2>1. r > acts
    BY DEF ScopeInv, Formed, Requests
  <2> QED BY <1>1, <1>2, <1>3, <1>5, <2>1 DEF ScopeInv, Unmade
<1>10. Traced'
  BY <1>2, <1>3, <1>5 DEF ScopeInv, Traced
<1>11. LetGo'
  BY <1>1, <1>2, <1>3, <1>5 DEF ScopeInv, LetGo, Local
<1>12. Closes'
  BY <1>1, <1>2, <1>3, <1>4 DEF ScopeInv, Closes, Stopping, Formed
<1>13. Looked'
  <2> SUFFICES ASSUME NEW e \in Adapters, Stopping(e)', ~fault
               PROVE  /\ scope'[e].at = "final" => scope'[e].native = {}
                      /\ \A p \in mine' : rec'[p].by = e /\ p \notin scope'[e].native =>
                            work'[p] \in {"none", "gone"}
    BY <1>2 DEF Looked
  <2>1. CASE e = d
    BY <1>1, <1>2, <1>3, <1>4, <1>5, <1>7, <2>1
  <2>2. CASE e # d
    <3>1. scope'[e] = scope[e] /\ Stopping(e)
      BY <1>4, <2>2 DEF Stopping
    <3>2. ASSUME NEW p \in mine', rec'[p].by = e, p \notin scope'[e].native
          PROVE  work'[p] \in {"none", "gone"}
      <4>1. p \in mine /\ p \in Requests /\ rec[p].by = e /\ p \notin native
        BY <1>1, <1>2, <1>3, <2>2, <3>2
      <4> QED BY <1>5, <3>1, <3>2, <4>1 DEF ScopeInv, Looked
    <3> QED BY <3>1, <3>2 DEF ScopeInv, Looked
  <2> QED BY <2>1, <2>2
<1>14. Helped'
  <2> SUFFICES ASSUME NEW e \in Adapters, helper[e], ~fault
               PROVE  text'[e].prep \/ text'[e].stopping
    BY <1>2 DEF Helped
  <2>1. text[e].prep \/ text[e].stopping
    BY DEF ScopeInv, Helped
  <2> QED BY <1>6, <2>1 DEF ScopeInv, Formed
<1>15. Resolved'
  <2> SUFFICES ASSUME NEW e \in Adapters, scope'[e].joined, scope'[e].end = "resolved"
               PROVE  /\ \A r \in mine' : rec'[r].by # e
                      /\ ~text'[e].stopping
                      /\ helper'[e] => text'[e].prep
    BY DEF Resolved
  <2>1. e # d
    BY <1>4
  <2>2. scope'[e] = scope[e] /\ text'[e] = text[e]
    BY <1>4, <1>6, <2>1 DEF ScopeInv, Formed
  <2> QED BY <1>1, <1>2, <1>3, <2>2 DEF ScopeInv, Resolved
<1> QED BY <1>8, <1>9, <1>10, <1>11, <1>12, <1>13, <1>14, <1>15 DEF ScopeInv

\* A Stop goes on: its place, and what it still looks for.
LEMMA ScopeChanges ==
    ASSUME ScopeInv, NEW d \in Adapters, NEW c \in Scopes, scope' = [scope EXCEPT ![d] = c],
           c.closed = scope[d].closed, c.joined = scope[d].joined, c.end = scope[d].end,
           (c.at # "idle") <=> Stopping(d),
           acts' \in 0..MaxActs, acts <= acts', fault' \in BOOLEAN, fault => fault',
           ~fault' /\ c.at = "final" => c.native = {},
           \A r \in Requests : r \in c.native \/ r \notin scope[d].native \/ ~Stopping(d)
                                 \/ work[r] \in {"none", "gone"},
           UNCHANGED <<page, mine, rec, text, helper, work, reply>>
    PROVE  ScopeInv'
<1>1. /\ scope'[d] = c /\ \A e \in Adapters : e # d => scope'[e] = scope[e]
      /\ scope' \in [Adapters -> Scopes]
  BY DEF ScopeInv, Formed
<1>2. \A e \in Adapters : /\ scope'[e].closed = scope[e].closed
                         /\ scope'[e].joined = scope[e].joined
                          /\ scope'[e].end = scope[e].end /\ Stopping(e)' = Stopping(e)
  BY <1>1 DEF Stopping
<1>3. Formed' /\ Unmade'
  <2>1. \A r \in Requests : r > acts' => r > acts
    BY DEF ScopeInv, Formed, Requests
  <2> QED BY <1>1, <2>1 DEF ScopeInv, Formed, Unmade
<1>4. Traced' /\ LetGo' /\ Helped'
  BY DEF ScopeInv, Traced, LetGo, Local, Helped
<1>5. Closes' /\ Resolved'
  BY <1>2 DEF ScopeInv, Closes, Resolved
<1>6. Looked'
  <2> SUFFICES ASSUME NEW e \in Adapters, Stopping(e)', ~fault'
               PROVE  /\ scope'[e].at = "final" => scope'[e].native = {}
                      /\ \A p \in mine : rec[p].by = e /\ p \notin scope'[e].native =>
                            work[p] \in {"none", "gone"}
    BY DEF Looked
  <2>1. Stopping(e) /\ ~fault
    BY <1>2
  <2>2. CASE e = d
    BY <1>1, <2>1, <2>2 DEF ScopeInv, Looked, Formed
  <2>3. CASE e # d
    BY <1>1, <2>1, <2>3 DEF ScopeInv, Looked
  <2> QED BY <2>2, <2>3
<1> QED BY <1>3, <1>4, <1>5, <1>6 DEF ScopeInv

LEMMA CallsHolds == ASSUME ScopeInv, Calls PROVE ScopeInv'
<1>1. CASE Stop
  <2>1. page \in Adapters /\ ~Stopping(page) /\ acts' \in 0..MaxActs /\ acts <= acts'
        /\ scope[page].disposed \in BOOLEAN
    BY <1>1, BoundsArePositive DEF Stop, Act, ScopeInv, Formed, Scopes
  <2> QED BY <1>1, <2>1, StopBeginsHolds DEF Stop
<1>2. CASE Dispose
  <2>1. page \in Adapters /\ acts' \in 0..MaxActs /\ acts <= acts' /\ fault \in BOOLEAN
        /\ scope[page] \in Scopes
    BY <1>2, BoundsArePositive DEF Dispose, Act, ScopeInv, Formed
  <2>2. CASE Stopping(page)
    <3> DEFINE c == [scope[page] EXCEPT !.disposed = TRUE]
    <3>1. /\ scope' = [scope EXCEPT ![page] = c]
          /\ UNCHANGED <<page, fault, mine, rec, text, helper, work, reply>>
      BY <1>2, <2>2 DEF Dispose, scopeVars, mainVars, textVars
    <3>2. /\ c \in Scopes /\ c.closed = scope[page].closed /\ c.joined = scope[page].joined
          /\ c.end = scope[page].end /\ c.at = scope[page].at /\ c.native = scope[page].native
      BY <2>1 DEF Scopes
    <3> HIDE DEF c
    <3>3. ~fault /\ c.at = "final" => c.native = {}
      BY <2>1, <2>2, <3>2 DEF ScopeInv, Looked
    <3> QED BY <2>1, <3>1, <3>2, <3>3, ScopeChanges DEF Stopping
  <2>3. CASE ~Stopping(page)
    BY <1>2, <2>1, <2>3, StopBeginsHolds DEF Dispose
  <2> QED BY <2>2, <2>3
<1>3. CASE Replace
  <2>1. /\ page' \in Adapters /\ acts' \in 0..MaxActs /\ acts <= acts'
        /\ UNCHANGED <<fault, mine, rec, scope, text, helper, work, reply>>
    BY <1>3, BoundsArePositive
    DEF Replace, Act, ScopeInv, Formed, scopeVars, mainVars, textVars
  <2>2. \A r \in Requests : r > acts' => r > acts
    BY <2>1 DEF ScopeInv, Formed, Requests
  <2>3. Formed' /\ Unmade'
    BY <2>1, <2>2 DEF ScopeInv, Formed, Unmade
  <2>4. Traced' /\ LetGo' /\ Closes' /\ Looked' /\ Helped' /\ Resolved'
    BY <2>1 DEF ScopeInv, Traced, LetGo, Local, Closes, Looked, Helped, Resolved, Stopping
  <2> QED BY <2>3, <2>4 DEF ScopeInv
<1> QED BY <1>1, <1>2, <1>3, BeginHolds, GenerateHolds DEF Calls

LEMMA StopStepsHolds == ASSUME ScopeInv, NEW d \in Adapters, StopSteps(d) PROVE ScopeInv'
<1>0. /\ scope[d] \in Scopes /\ fault \in BOOLEAN /\ acts \in 0..MaxActs /\ acts <= acts
      /\ mine \subseteq Requests /\ rec \in [Requests -> Records]
  BY BoundsArePositive DEF ScopeInv, Formed
<1>1. ASSUME NEW at \in {"drain", "observe", "final"}, NEW failed \in BOOLEAN, Stopping(d),
             Proceeds(d, at, failed), at = "final" /\ ~failed => scope[d].native = {}
      PROVE  ScopeInv'
  <2> DEFINE c == [scope[d] EXCEPT !.at = at]
  <2>1. /\ scope' = [scope EXCEPT ![d] = c] /\ fault' = (fault \/ failed)
        /\ UNCHANGED <<acts, page, mine, rec, text, helper, work, reply>>
    BY <1>1 DEF Proceeds, textVars, mainVars
  <2>2. /\ c \in Scopes /\ c.closed = scope[d].closed /\ c.joined = scope[d].joined
        /\ c.end = scope[d].end /\ c.at = at /\ c.native = scope[d].native
    BY <1>0 DEF Scopes
  <2> HIDE DEF c
  <2>3. (c.at # "idle") <=> Stopping(d)
    BY <1>1, <2>2
  <2>4. fault' \in BOOLEAN /\ (fault => fault') /\ (failed => fault')
    BY <1>0, <2>1
  <2> QED BY <1>0, <1>1, <2>1, <2>2, <2>3, <2>4, ScopeChanges
<1>2. CASE Acknowledged(d)
  BY <1>1, <1>2 DEF Acknowledged, Stopping
<1>3. CASE Drains(d)
  BY <1>1, <1>3 DEF Drains, Stopping
<1>4. CASE Observes(d)
  <2> DEFINE r == Min(scope[d].native)
             c == [scope[d] EXCEPT !.native = @ \ {r}]
  <2>1. CASE /\ scope[d].native # {} /\ ~fault /\ Observed(r) = "over"
             /\ scope' = [scope EXCEPT ![d].native = @ \ {r}]
             /\ UNCHANGED <<acts, page, scopeVars, textVars, mainVars>>
    <3>1. r \in Requests => work[r] \in {"none", "gone"}
      BY <2>1 DEF Observed
    <3> HIDE DEF r
    <3>2. scope' = [scope EXCEPT ![d] = c] /\ Stopping(d) /\ scope[d].at = "observe"
          /\ UNCHANGED <<acts, page, fault, mine, rec, text, helper, work, reply>>
      BY <1>4, <2>1 DEF Observes, Stopping, scopeVars, textVars, mainVars
    <3>3. /\ c \in Scopes /\ c.closed = scope[d].closed /\ c.joined = scope[d].joined
          /\ c.end = scope[d].end /\ c.at = "observe" /\ c.native = scope[d].native \ {r}
      BY <1>0, <3>2 DEF Scopes
    <3> HIDE DEF c
    <3> QED BY <1>0, <3>1, <3>2, <3>3, ScopeChanges
  <2>2. CASE scope[d].native = {} /\ Proceeds(d, "final", FALSE)
    BY <1>1, <1>4, <2>2 DEF Observes, Stopping
  <2>3. CASE scope[d].native # {} /\ Proceeds(d, "final", TRUE)
    BY <1>1, <1>4, <2>3 DEF Observes, Stopping
  <2> QED BY <1>4, <2>1, <2>2, <2>3 DEF Observes
<1>5. CASE Settles(d)
  <2>1. PICK failed \in {fault, TRUE} :
          /\ Drained(d) \/ failed
          /\ fault' = failed
          /\ scope' = [scope EXCEPT ![d] = [@ EXCEPT !.at = "idle", !.native = {},
                        !.stopped = scope[d].stopped \/ ~failed,
                        !.end = IF failed THEN "rejected" ELSE "resolved"]]
          /\ mine' = IF failed THEN mine ELSE mine \ Of(d)
    BY <1>5 DEF Settles
  <2>2. /\ scope[d].at = "final" /\ Stopping(d) /\ failed \in BOOLEAN /\ (fault => failed)
        /\ UNCHANGED <<acts, page, rec, text, helper, work, reply>>
    BY <1>0, <1>5 DEF Settles, Stopping, textVars, mainVars
  <2> DEFINE c == [scope[d] EXCEPT !.at = "idle", !.native = {},
                                   !.stopped = scope[d].stopped \/ ~failed,
                                   !.end = IF failed THEN "rejected" ELSE "resolved"]
  <2>3. /\ c \in Scopes /\ c.at = "idle" /\ c.closed = scope[d].closed
        /\ c.joined = scope[d].joined /\ c.end = (IF failed THEN "rejected" ELSE "resolved")
    BY <1>0, <2>2 DEF Scopes
  <2>4. scope' = [scope EXCEPT ![d] = c]
    BY <2>1
  <2> HIDE DEF c
  <2>5. /\ scope'[d] = c /\ \A e \in Adapters : e # d => scope'[e] = scope[e]
        /\ scope' \in [Adapters -> Scopes]
    BY <2>3, <2>4 DEF ScopeInv, Formed
  <2>6. mine' \subseteq mine /\ \A r \in mine : r \notin mine' => ~failed /\ rec[r].by = d
    BY <1>0, <2>1 DEF Of
  <2>7. ~failed => \A r \in mine' : rec[r].by # d
    BY <1>0, <2>1 DEF Of, ScopeInv, Traced
  <2>8. \A r \in mine : rec[r].by = d /\ ~failed => ~Local(r) /\ work[r] \in {"none", "gone"}
    <3>1. \A r \in mine : rec[r].by = d => rec[r].revoked /\ r \in Of(d)
      BY <1>0, <2>2 DEF ScopeInv, Closes, Of, Traced
    <3>2. ~failed => scope[d].native = {} /\ Drained(d)
      BY <2>1, <2>2 DEF ScopeInv, Looked
    <3> QED BY <2>2, <3>1, <3>2 DEF Drained, ScopeInv, Looked
  <2>9. Formed' /\ Unmade'
    BY <1>0, <2>1, <2>2, <2>5, <2>6 DEF ScopeInv, Formed, Unmade
  <2>10. Traced'
    BY <2>2, <2>6 DEF ScopeInv, Traced
  <2>11. LetGo'
    BY <1>0, <2>2, <2>6, <2>8 DEF ScopeInv, LetGo, Local
  <2>12. Closes' /\ Looked'
    <3>1. Closes'
      BY <2>2, <2>3, <2>5, <2>6 DEF ScopeInv, Closes, Stopping
    <3>2. Looked'
      <4> SUFFICES ASSUME NEW e \in Adapters, Stopping(e)', ~fault'
                   PROVE  /\ scope'[e].at = "final" => scope'[e].native = {}
                          /\ \A p \in mine' : rec'[p].by = e /\ p \notin scope'[e].native =>
                                work'[p] \in {"none", "gone"}
        BY DEF Looked
      <4>1. e # d /\ ~fault
        BY <2>1, <2>2, <2>3, <2>5 DEF Stopping
      <4> QED BY <2>2, <2>5, <2>6, <4>1 DEF ScopeInv, Looked, Stopping
    <3> QED BY <3>1, <3>2
  <2>13. Helped'
    BY <2>1, <2>2 DEF ScopeInv, Helped
  <2>14. Resolved'
    <3> SUFFICES ASSUME NEW e \in Adapters, scope'[e].joined, scope'[e].end = "resolved"
                 PROVE  /\ \A r \in mine' : rec[r].by # e
                        /\ ~text[e].stopping
                        /\ helper[e] => text[e].prep
      BY <2>2 DEF Resolved
    <3>1. CASE e = d
      <4>1. ~failed /\ ~fault /\ Drained(d)
        BY <2>1, <2>2, <2>3, <2>5, <3>1
      <4> QED BY <2>7, <3>1, <4>1 DEF Drained, ScopeInv, Helped
    <3>2. CASE e # d
      BY <2>5, <2>6, <3>2 DEF ScopeInv, Resolved
    <3> QED BY <3>1, <3>2
  <2> QED BY <2>9, <2>10, <2>11, <2>12, <2>13, <2>14 DEF ScopeInv
<1> QED BY <1>2, <1>3, <1>4, <1>5 DEF StopSteps

---------------------------------------------------------------------------
(* The theorems.                                                           *)

LEMMA NextScope == ASSUME ScopeInv, [Next]_vars PROVE ScopeInv'
<1>1. ASSUME NEW r \in Requests, Runs(r) PROVE ScopeInv'
  BY <1>1, LocalStartsHolds, PreparedHolds, AnsweredHolds, FellHolds DEF Runs
<1>2. CASE UNCHANGED vars
  <2>1. UNCHANGED <<acts, page, fault, mine, rec, scope, text, helper, work, reply>>
    BY <1>2 DEF vars
  <2>2. Formed' /\ Unmade'
    BY <2>1 DEF ScopeInv, Formed, Unmade
  <2>3. Traced' /\ LetGo' /\ Closes' /\ Looked' /\ Helped' /\ Resolved'
    BY <2>1 DEF ScopeInv, Traced, LetGo, Local, Closes, Looked, Helped, Resolved, Stopping
  <2> QED BY <2>2, <2>3 DEF ScopeInv
<1> QED BY <1>1, <1>2, CallsHolds, MainHolds, TextsHolds, StopStepsHolds DEF Next

\* The invariant of the records, the scopes and what Main has of them.
THEOREM ScopeIsSound == Spec => []ScopeInv
BY InitScope, NextScope, PTL DEF Spec

\* stop() resolves only when the acknowledgement, the drain and the observations
\* hold at once, and from then on nothing of the scope runs, in Main or in the page.
THEOREM StopIsProved == Spec => []StopIsTrue
<1>1. ASSUME ScopeInv, NEW d \in Adapters, scope[d].joined, scope[d].end = "resolved"
      PROVE  /\ \A r \in Of(d) : work[r] \notin {"running", "stopping", "stuck"} /\ ~Local(r)
             /\ helper[d] => text[d].prep
  <2>1. \A r \in mine : rec[r].by # d
    BY <1>1 DEF ScopeInv, Resolved
  <2>2. \A r \in Of(d) : r \in Requests /\ r \notin mine
    BY <2>1 DEF Of
  <2> QED BY <1>1, <2>2 DEF ScopeInv, LetGo, Resolved
<1>2. ScopeInv => StopIsTrue
  BY <1>1 DEF StopIsTrue
<1> QED BY <1>2, ScopeIsSound, PTL

---------------------------------------------------------------------------
(* What a record gives to the page.                                        *)

\* No record gives a result that was revoked.
GivesRightly == \A r \in Requests : rec'[r].gave /\ ~rec[r].gave => ~rec[r].revoked

\* A record that gives nothing new, whatever else of it changes.
LEMMA GivesNothing ==
    ASSUME NEW r \in Requests, ~rec'[r].gave \/ rec'[r].gave = rec[r].gave,
           \A p \in Requests : p # r => rec'[p] = rec[p]
    PROVE  GivesRightly
BY DEF GivesRightly

LEMMA EndsGives ==
    ASSUME Formed, NEW r \in Requests, NEW t, t.gave = rec[r].gave, t \in Records,
           NEW gave, NEW f, Ends(r, t, gave, f), gave = FALSE \/ (gave = TRUE /\ Ok(r))
    PROVE  GivesRightly
<1>1. rec' = [rec EXCEPT ![r] = [t EXCEPT !.at = "over", !.gave = gave]]
  BY DEF Ends
<1>2. /\ rec'[r].gave = gave /\ \A p \in Requests : p # r => rec'[p] = rec[p]
  BY <1>1 DEF Formed, Records
<1>3. CASE gave = FALSE
  BY <1>2, <1>3, GivesNothing
<1>4. CASE gave = TRUE /\ Ok(r)
  BY <1>2, <1>4 DEF GivesRightly, Ok
<1> QED BY <1>3, <1>4

\* Sending, waiting and starting to run in the page give nothing.
LEMMA OthersGive ==
    ASSUME Formed, NEW r \in Requests, NEW t \in Records, t.gave = rec[r].gave \/ ~t.gave,
           rec' = [rec EXCEPT ![r] = t]
    PROVE  GivesRightly
<1>1. rec'[r] = t /\ \A p \in Requests : p # r => rec'[p] = rec[p]
  BY DEF Formed
<1> QED BY <1>1, GivesNothing

LEMMA SentGives ==
    ASSUME Formed, NEW r \in Requests, NEW t \in Records, t.gave = rec[r].gave \/ ~t.gave,
           Dispatches(r, t)
    PROVE  GivesRightly
<1> DEFINE u == [t EXCEPT !.at = "called", !.sent = TRUE]
<1>1. rec' = [rec EXCEPT ![r] = u]
  BY DEF Dispatches
<1>2. u \in Records /\ u.gave = t.gave
  BY DEF Records, Places
<1> HIDE DEF u
<1> QED BY <1>1, <1>2, OthersGive

LEMMA RunsGive == ASSUME Formed, NEW r \in Requests, Runs(r) PROVE GivesRightly
<1>0. rec[r] \in Records
  BY DEF Formed
<1>1. CASE LocalStarts(r)
  <2>1. ASSUME NEW at \in Places, Goes(r, at) PROVE GivesRightly
    <3> DEFINE u == [rec[r] EXCEPT !.at = at]
    <3>1. rec' = [rec EXCEPT ![r] = u]
      BY <2>1 DEF Goes
    <3>2. u \in Records /\ u.gave = rec[r].gave
      BY <1>0, <2>1 DEF Records
    <3> HIDE DEF u
    <3> QED BY <3>1, <3>2, OthersGive
  <2>2. Goes(r, "preparing") \/ Goes(r, "falling") \/ Ends(r, rec[r], FALSE, fault)
    BY <1>1 DEF LocalStarts
  <2> QED BY <1>0, <2>1, <2>2, EndsGives DEF Places
<1>2. CASE Prepared(r)
  <2>1. Dispatches(r, rec[r]) \/ \E dirty \in BOOLEAN : Ends(r, rec[r], FALSE, fault \/ dirty)
    BY <1>2 DEF Prepared
  <2> QED BY <1>0, <2>1, EndsGives, SentGives
<1>3. CASE Answered(r)
  <2>1. CASE Ok(r) /\ Ends(r, [rec[r] EXCEPT !.done = TRUE], TRUE, fault)
    <3> DEFINE u == [rec[r] EXCEPT !.done = TRUE]
    <3>1. u \in Records /\ u.gave = rec[r].gave
      BY <1>0 DEF Records
    <3> HIDE DEF u
    <3>2. Ends(r, u, TRUE, fault) /\ Ok(r)
      BY <2>1 DEF u
    <3> QED BY <3>1, <3>2, EndsGives
  <2>2. CASE \E f : Ends(r, rec[r], FALSE, f)
    BY <1>0, <2>2, EndsGives
  <2>3. CASE rec' = [rec EXCEPT ![r].at = "toFall", ![r].done = TRUE]
    <3>1. /\ rec'[r].gave = rec[r].gave
          /\ \A p \in Requests : p # r => rec'[p] = rec[p]
      BY <1>0, <2>3 DEF Formed, Records
    <3> QED BY <3>1, GivesNothing
  <2> QED BY <1>3, <2>1, <2>2, <2>3 DEF Answered
<1>4. CASE Fell(r)
  <2>1. (Ok(r) /\ Ends(r, rec[r], TRUE, fault)) \/ \E f : Ends(r, rec[r], FALSE, f)
    BY <1>4 DEF Fell
  <2> QED BY <1>0, <2>1, EndsGives
<1> QED BY <1>1, <1>2, <1>3, <1>4 DEF Runs

LEMMA StopGives == ASSUME Formed, NEW d \in Adapters, NEW x, StopBegins(d, x) PROVE GivesRightly
<1>1. rec' = [r \in Requests |-> IF r \in mine \cap Of(d)
                                   THEN [rec[r] EXCEPT !.revoked = TRUE] ELSE rec[r]]
  BY DEF StopBegins
<1>2. \A r \in Requests : rec'[r].gave = rec[r].gave
  BY <1>1 DEF Formed, Records
<1> QED BY <1>2 DEF GivesRightly

\* A new record gives nothing yet.
LEMMA BeginGives == ASSUME Formed, NEW plan, Begin(plan) PROVE GivesRightly
<1> DEFINE r == acts'
           t == [Unborn EXCEPT !.by = page, !.native = plan # "local"]
           u == [t EXCEPT !.at = IF plan = "local" THEN "toFall" ELSE "toPrepare"]
<1>1. r \in Requests
  BY BoundsArePositive DEF Begin, Act, Formed, Requests
<1>2. t \in Records /\ ~t.gave /\ u \in Records /\ ~u.gave
  BY DEF Unborn, Records, Places, Formed
<1>3. UNCHANGED rec \/ Dispatches(r, t) \/ rec' = [rec EXCEPT ![r] = u]
  BY DEF Begin
<1> HIDE DEF u, t, r
<1> QED BY <1>1, <1>2, <1>3, SentGives, OthersGive DEF GivesRightly

LEMMA NextGives == ASSUME Formed, [Next]_vars PROVE GivesRightly
<1>1. CASE Calls
  <2>1. page \in Adapters
    BY DEF Formed
  <2>2. CASE UNCHANGED rec
    BY <2>2 DEF GivesRightly
  <2> QED BY <1>1, <2>1, <2>2, BeginGives, StopGives
          DEF Calls, Generate, Stop, Dispose, Replace, scopeVars
<1>2. ASSUME NEW r \in Requests, Runs(r) \/ Main(r) PROVE GivesRightly
  <2>1. CASE Main(r)
    BY <2>1 DEF Main, MainEnds, MainSticks, scopeVars, GivesRightly
  <2> QED BY <1>2, <2>1, RunsGive
<1>3. ASSUME NEW d \in Adapters, Texts(d) \/ StopSteps(d) PROVE GivesRightly
  <2>1. UNCHANGED rec
    BY <1>3 DEF Texts, TextPrepared, TextAnswered, TextStops, StopSteps, Acknowledged, Drains,
                Observes, Settles, Proceeds, scopeVars
  <2> QED BY <2>1 DEF GivesRightly
<1>4. CASE UNCHANGED vars
  BY <1>4 DEF vars, GivesRightly
<1> QED BY <1>1, <1>2, <1>3, <1>4 DEF Next

\* check() runs between every wait and what follows it: no result, of Main or of a
\* fallback, is given to the page once the Stop of its scope has revoked the record.
THEOREM RevokedGivesNothing == Spec => NothingAfterStop
<1>1. ScopeInv /\ [Next]_vars => [GivesRightly]_vars
  BY NextGives DEF ScopeInv
<1> QED BY <1>1, ScopeIsSound, PTL DEF Spec, NothingAfterStop, GivesRightly
=============================================================================
