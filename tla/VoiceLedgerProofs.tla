------------------------- MODULE VoiceLedgerProofs -------------------------
(***************************************************************************)
(* The ledger of voice operations, for any number of operations and owners,  *)
(* any quota and any interleaving of admissions, cancels, native stops,      *)
(* document changes and Quit.  LedgerInv is shown to be inductive part by    *)
(* part, each with one step per action of Next; the properties of the ledger *)
(* follow from it, and Turns says how one step moves a record, for the       *)
(* action properties and the refinement of OperationLife.                    *)
(***************************************************************************)
EXTENDS VoiceLedger, TLAPS

---------------------------------------------------------------------------
(* Records, and how they move.                                             *)

\* A record whose producer works and that is still held.
Consistent(r) ==
    /\ ~r.broken
    /\ r.logical # "accepted" /\ r.cleanup # "released"
    /\ r.status \in {"completed", "confirmed", "unconfirmed"} => r.logical = "settled"
    /\ r.status = "starting" => r.logical = "preparing"
    /\ r.status = "running" => r.logical \in {"dispatched", "settled"}
    /\ r.logical = "dispatched" => r.status \notin {"not-dispatched", "starting"}
    /\ r.failure # "none" => r.logical = "settled"
    /\ (r.status = "unconfirmed") <=> (r.failure = "termination-unconfirmed")
    /\ (r.cleanup = "retained") <=> r.failure \in {"termination-unconfirmed", "cleanup-failed"}

\* The next native state n that the record r may hear of.
May(r, n) ==
    \/ n = r.status
    \/ n = "starting" /\ r.status \in {"not-dispatched", "confirmed"} /\ r.failure = "none"
    \/ n = "running" /\ r.status = "starting"
    \/ n = "stopping" /\ r.status \in {"not-dispatched", "starting", "running"}
    \/ n = "completed" /\ r.status = "running"
    \/ n = "confirmed" /\ r.status # "unconfirmed"
    \/ n = "unconfirmed"

\* What an observer sees of r, and the answer, never go back.
Evolves(r, t) ==
    /\ t.rev >= r.rev
    /\ t.rev = r.rev => /\ t.logical = r.logical /\ t.revoked = r.revoked
                        /\ t.status = r.status /\ t.cleanup = r.cleanup
                        /\ t.failure = r.failure
    /\ r.revoked => t.revoked
    /\ r.reply # "none" => t.reply = r.reply

\* A consistent record is one normalize() accepts.
LEMMA ConsistentIsValid ==
    ASSUME NEW r \in Records, Consistent(r)
    PROVE  Valid(r)
<1>1. \E s \in {r} : s = r
  OBVIOUS
<1> QED BY <1>1 DEF Valid, Consistent, Records, Safe

\* produced() keeps a record consistent when the native side moves as it may.
LEMMA MayProduce ==
    ASSUME NEW r \in Records, NEW n \in Statuses, Consistent(r), May(r, n)
    PROVE  /\ Produced(r, n) \in Records /\ Consistent(Produced(r, n))
           /\ Produced(r, n).status = n
           /\ Produced(r, n).reply = r.reply
           /\ Evolves(r, Produced(r, n))
           /\ n = r.status => Produced(r, n) = r
           /\ Produced(r, n).failure = IF n = "unconfirmed" THEN "termination-unconfirmed"
                                       ELSE r.failure
<1> DEFINE t == Mapped(r, n)
<1>a. t.status = n /\ t.rev = r.rev /\ t.broken = r.broken /\ t.revoked = r.revoked
      /\ t.reply = r.reply
  BY DEF Mapped, Records
<1>b. t.logical = IF n \in {"completed", "confirmed", "unconfirmed"} THEN "settled"
                  ELSE IF n = "running" /\ r.logical # "settled" THEN "dispatched"
                  ELSE IF n = "starting" THEN "preparing"
                  ELSE r.logical
  BY DEF Mapped, Records
<1>c. t.cleanup = IF n = "unconfirmed" THEN "retained" ELSE r.cleanup
  BY DEF Mapped, Records
<1>d. t.failure = IF n = "unconfirmed" THEN "termination-unconfirmed" ELSE r.failure
  BY DEF Mapped, Records
<1>e. t \in Records
  BY ZenonT(60) DEF Mapped, Records, Codes, Faults
<1>1. t \in Records /\ t.status = n
  BY <1>a, <1>e
<1>2. Consistent(t)
  BY <1>a, <1>b, <1>c, <1>d DEF Consistent, May, Records
<1>3. Valid(t)
  BY <1>1, <1>2, ConsistentIsValid
<1>4. CASE t = r
  <2>1. Produced(r, n) = r
    BY <1>3, <1>4 DEF Produced, Changed
  <2> QED BY <2>1, <1>a, <1>d, <1>2, <1>4 DEF Evolves, Records
<1>5. CASE t # r
  <2>1. Produced(r, n) = [t EXCEPT !.rev = r.rev + 1]
    BY <1>3, <1>5 DEF Produced, Changed, Consistent
  <2>2. n # r.status
    <3>1. SUFFICES ASSUME n = r.status PROVE t = r
      BY <1>5
    <3>2. t.logical = r.logical /\ t.cleanup = r.cleanup /\ t.failure = r.failure
      BY <3>1, <1>b, <1>c, <1>d DEF Records, Consistent
    <3> QED BY <3>1, <3>2, <1>a, <1>e DEF Records
  <2> QED BY <2>1, <2>2, <1>a, <1>d, <1>e, <1>2 DEF Evolves, Records, Consistent
<1> QED BY <1>4, <1>5

\* Which code an operation that failed is answered with.
LEMMA CodeIs ==
    ASSUME NEW o, NEW r \in Records, NEW f \in Faults \cup {"none"}, NEW ok \in BOOLEAN,
           Consistent(r)
    PROVE  /\ Code(o, r, f, ok) \in Codes
           /\ (Code(o, r, f, ok) = "termination-unconfirmed") <=> (r.status = "unconfirmed")
           /\ r.failure = "cleanup-failed" => Code(o, r, f, ok) = "cleanup-failed"
           /\ files[o] = "stuck" /\ r.status # "unconfirmed" => Code(o, r, f, ok) = "cleanup-failed"
BY DEF Code, Records, Codes, Faults, Consistent

\* The record t is r with an answer.
Answers(r, t) ==
    /\ t \in Records
    /\ t.logical = r.logical /\ t.status = r.status /\ t.cleanup = r.cleanup
    /\ t.failure = r.failure /\ t.broken = r.broken /\ t.rev = r.rev
    /\ t.revoked = r.revoked
    /\ t.reply # "none" /\ (r.reply # "none" => t.reply = r.reply)

\* An answer is given once, and changes nothing else of a record.
LEMMA AnswerKeeps ==
    ASSUME NEW v \in Records, NEW a \in Codes \cup {"result", "fallback"}
    PROVE  /\ Answers(v, Answered(v, a))
           /\ v.reply = "none" => Answered(v, a).reply = a
BY DEF Answered, Answers, Records, Codes, Faults

\* An answer is no step back of what is seen.
LEMMA AnswerEvolves ==
    ASSUME NEW r \in Records, NEW t, Answers(r, t)
    PROVE  Evolves(r, t)
<1>1. t.rev = r.rev /\ r.rev \in Nat
  BY DEF Answers, Records
<1> QED BY <1>1 DEF Answers, Evolves

\* What finish() makes of r when the work failed, released what it held or not.
FinishSound(o, r, released, f, t) ==
    /\ t \in Records /\ ~t.broken /\ t.status = r.status /\ Evolves(r, t)
    /\ t.reply # "none"
    /\ \/ Consistent(t)
       \/ released /\ files[o] # "stuck" /\ t.status \in Safe /\ t.cleanup = "released"
    /\ r.reply = "none" =>
         \/ t.reply \in Codes
         \/ /\ t.reply = "fallback" /\ t.cleanup = "released" /\ f = "none"
            /\ \/ r.status = "completed" /\ o \in wrong
               \/ r.status = "confirmed" /\ o \in timedOut

\* The end of a task that failed.
LEMMA FinishFails ==
    ASSUME NEW o, NEW r \in Records, NEW f \in Faults \cup {"none"}, NEW ok \in BOOLEAN,
           NEW released \in BOOLEAN, Consistent(r),
           NEW t, t = Finished(o, r, r.status, TRUE, released, f, ok)
    PROVE  FinishSound(o, r, released, f, t)
<1> DEFINE code == Code(o, r, f, ok)
           u == [r EXCEPT !.logical = "settled",
                          !.cleanup = IF code = "cleanup-failed" THEN "retained"
                                      ELSE IF released /\ r.status \in Safe
                                        THEN "released" ELSE r.cleanup,
                          !.failure = code]
<1>1. /\ code \in Codes
      /\ (code = "termination-unconfirmed") <=> (r.status = "unconfirmed")
      /\ r.failure = "cleanup-failed" => code = "cleanup-failed"
      /\ files[o] = "stuck" /\ r.status # "unconfirmed" => code = "cleanup-failed"
  BY CodeIs
<1> HIDE DEF code
<1>3. CASE r.status = "starting"
  <2>1. t = Answered(r, code)
    BY <1>3 DEF Finished, code, Consistent
  <2>2. Answers(r, t) /\ (r.reply = "none" => t.reply = code)
    BY <2>1, <1>1, AnswerKeeps
  <2>3. t \in Records /\ Consistent(t) /\ Evolves(r, t) /\ t.reply # "none" /\ t.status = r.status
    <3>1. Consistent(t)
      BY <2>2 DEF Answers, Consistent
    <3>2. Evolves(r, t)
      BY <2>2, AnswerEvolves
    <3> QED BY <2>2, <3>1, <3>2 DEF Answers, Consistent
  <2> QED BY <2>2, <2>3, <1>1 DEF Consistent, FinishSound
<1>4. CASE r.status # "starting"
  <2>1. u \in Records
    BY <1>1 DEF Records
  <2>2. /\ u.logical = "settled" /\ u.status = r.status /\ u.failure = code
        /\ u.rev = r.rev /\ u.broken = r.broken /\ u.revoked = r.revoked /\ u.reply = r.reply
    BY DEF Records
  <2>3. u.cleanup = IF code = "cleanup-failed" THEN "retained"
                    ELSE IF released /\ r.status \in Safe THEN "released" ELSE r.cleanup
    BY DEF Records
  <2>4. \/ Consistent(u)
        \/ released /\ files[o] # "stuck" /\ u.status \in Safe /\ u.cleanup = "released"
    BY <1>1, <1>4, <2>2, <2>3 DEF Consistent, Records, Safe
  <2>5. Valid(u)
    <3>1. CASE Consistent(u)
      BY <3>1, <2>1, ConsistentIsValid
    <3>2. CASE u.status \in Safe /\ u.cleanup = "released"
      <4>1. \E s \in {u} : s = u
        OBVIOUS
      <4>2. u.failure # "termination-unconfirmed" /\ u.failure # "cleanup-failed"
        BY <3>2, <1>1, <2>2, <2>3 DEF Safe
      <4> HIDE DEF u
      <4> QED BY <4>1, <4>2, <3>2, <2>2, <1>1 DEF Valid, Safe
    <3> QED BY <3>1, <3>2, <2>4
  <2> DEFINE v == Changed(r, u)
  <2>6. /\ v \in Records /\ Evolves(r, v)
        /\ v.logical = u.logical /\ v.status = u.status /\ v.cleanup = u.cleanup
        /\ v.failure = u.failure /\ v.broken = u.broken /\ v.reply = r.reply
    <3> HIDE DEF u
    <3> QED BY <2>1, <2>2, <2>5 DEF Changed, Evolves, Records
  <2>7. ~v.broken
    BY <2>6, <2>2 DEF Consistent
  <2>8. \E a \in Codes \cup {"fallback"} :
           /\ t = Answered(v, a)
           /\ a = "fallback" => Proved(o, v, r.status, f, ok)
    <3>1. t = Answered(v, IF code = "backend-error" /\ Proved(o, v, r.status, f, ok)
                            THEN "fallback" ELSE code)
      <4> HIDE DEF v
      <4>1. Changed(r, [r EXCEPT !.logical = "settled",
                          !.cleanup = IF code = "cleanup-failed" THEN "retained"
                                      ELSE IF released /\ r.status \in Safe
                                        THEN "released" ELSE @,
                          !.failure = IF TRUE THEN code ELSE @]) = v
        BY DEF v
      <4> QED BY <4>1, <1>4, <2>7 DEF Finished, code, Consistent
    <3>2. CASE code = "backend-error" /\ Proved(o, v, r.status, f, ok)
      BY <3>1, <3>2
    <3>3. CASE ~(code = "backend-error" /\ Proved(o, v, r.status, f, ok))
      <4>1. t = Answered(v, code) /\ code # "fallback"
        BY <3>1, <3>3, <1>1 DEF Codes, Faults
      <4> QED BY <4>1, <1>1
    <3> QED BY <3>2, <3>3
  <2> HIDE DEF u, v
  <2>9. PICK a \in Codes \cup {"fallback"} :
           /\ t = Answered(v, a)
           /\ a = "fallback" => Proved(o, v, r.status, f, ok)
    BY <2>8
  <2>10. Answers(v, t) /\ (v.reply = "none" => t.reply = a)
    BY <2>9, <2>6, AnswerKeeps
  <2>11. t \in Records /\ Evolves(r, t) /\ ~t.broken /\ t.reply # "none" /\ t.status = r.status
    <3>1. t \in Records /\ ~t.broken /\ t.reply # "none" /\ t.status = r.status
      BY <2>10, <2>6, <2>7, <2>2 DEF Answers
    <3>2. t.rev = v.rev /\ t.logical = v.logical /\ t.cleanup = v.cleanup
          /\ t.failure = v.failure /\ t.revoked = v.revoked /\ t.status = v.status
          /\ (v.reply # "none" => t.reply = v.reply)
      BY <2>10 DEF Answers
    <3>3. Evolves(r, t)
      BY <2>6, <3>2 DEF Evolves
    <3> QED BY <3>1, <3>3
  <2>12. \/ Consistent(t)
         \/ released /\ files[o] # "stuck" /\ t.status \in Safe /\ t.cleanup = "released"
    BY <2>4, <2>6, <2>10, ZenonT(60) DEF Consistent, Answers
  <2>13. r.reply = "none" =>
                \/ t.reply \in Codes
                \/ /\ t.reply = "fallback" /\ t.cleanup = "released" /\ f = "none"
                   /\ \/ r.status = "completed" /\ o \in wrong
                      \/ r.status = "confirmed" /\ o \in timedOut
    BY <2>9, <2>10, <2>6 DEF Proved, Answers
  <2> QED BY <2>11, <2>12, <2>13 DEF FinishSound
<1> QED BY <1>3, <1>4

\* What finish() makes of r when the work succeeded.
DeliverSound(r, t) ==
    /\ t \in Records /\ ~t.broken /\ t.status = r.status /\ Evolves(r, t)
    /\ t.reply # "none" /\ t.cleanup = "released"
    /\ r.reply = "none" => t.reply = "result"

\* The end of a task whose result is delivered.
LEMMA FinishDelivers ==
    ASSUME NEW o, NEW r \in Records, NEW f \in Faults \cup {"none"}, NEW ok \in BOOLEAN,
           Consistent(r), r.status = "completed", r.failure = "none", files[o] # "stuck",
           NEW t, t = Finished(o, r, r.status, FALSE, TRUE, f, ok)
    PROVE  DeliverSound(r, t)
<1> DEFINE code == Code(o, r, f, ok)
           u == [r EXCEPT !.logical = "settled", !.cleanup = "released"]
           v == Changed(r, u)
<1>1. code # "cleanup-failed"
  BY DEF Code, Records, Faults, Consistent
<1>2. u = [r EXCEPT !.logical = "settled",
                    !.cleanup = IF code = "cleanup-failed" THEN "retained"
                                ELSE IF TRUE /\ r.status \in Safe THEN "released" ELSE @,
                    !.failure = IF FALSE THEN code ELSE @]
  BY <1>1 DEF Safe, Records
<1>3. /\ u \in Records /\ u.logical = "settled" /\ u.status = r.status /\ u.failure = r.failure
      /\ u.rev = r.rev /\ u.broken = r.broken /\ u.revoked = r.revoked /\ u.reply = r.reply
      /\ u.cleanup = "released"
  BY DEF Records
<1>4. Valid(u)
  <2>1. \E s \in {u} : s = u
    OBVIOUS
  <2> HIDE DEF u
  <2> QED BY <2>1, <1>3 DEF Valid, Safe
<1>5. /\ v \in Records /\ Evolves(r, v) /\ v.status = u.status /\ v.cleanup = "released"
      /\ ~v.broken /\ v.reply = r.reply
  <2> HIDE DEF u
  <2> QED BY <1>3, <1>4 DEF Changed, Evolves, Records, Consistent
<1>6. t = Answered(v, "result")
  <2> HIDE DEF code
  <2> QED BY <1>2, <1>5 DEF Finished, code, Consistent
<1> HIDE DEF u, v
<1>7. Answers(v, t) /\ (v.reply = "none" => t.reply = "result")
  BY <1>5, <1>6, AnswerKeeps
<1>8. Evolves(r, t)
  BY <1>5, <1>7, ZenonT(60) DEF Answers, Evolves, Records
<1> QED BY <1>3, <1>5, <1>7, <1>8 DEF Answers, DeliverSound

\* A record and the native state of its operation, in the middle of a turn.
Tracks(r, n) == r \in Records /\ Consistent(r) /\ r.status = n

\* The status s of a record may be behind the native state n only of an operation that
\* was withdrawn, whose listener hears of its confirmation and of nothing later.
Behind(s, n) == n = s \/ (n = "unconfirmed" /\ s = "confirmed")

\* A record and the native state of its operation, between two turns.
Follows(r, n) == r \in Records /\ Consistent(r) /\ Behind(r.status, n)

\* An operation that is failed has an answer, and its record follows the native side.
LEMMA FailReplies ==
    ASSUME NEW o, NEW r \in Records, NEW n \in Statuses, NEW f \in Faults \cup {"none"},
           NEW ok \in BOOLEAN, Consistent(r), May(r, n),
           NEW t, t = FailReplied(o, r, n, f, ok)
    PROVE  /\ Tracks(t, n) /\ Evolves(r, t) /\ t.reply # "none"
           /\ r.reply = "none" => t.reply \in Codes
<1> DEFINE p == Produced(r, n)
<1>1. p \in Records /\ Consistent(p) /\ p.status = n /\ p.reply = r.reply /\ Evolves(r, p)
  BY MayProduce
<1>2. t = Finished(o, p, p.status, TRUE, FALSE, f, ok)
  BY <1>1 DEF FailReplied
<1> HIDE DEF p
<1>3. FinishSound(o, p, FALSE, f, t)
  BY <1>1, <1>2, FinishFails
<1>4. /\ t \in Records /\ t.status = n /\ Evolves(p, t) /\ t.reply # "none" /\ Consistent(t)
      /\ p.reply = "none" => t.reply \in Codes
  BY <1>1, <1>3 DEF FinishSound, Consistent
<1>5. Evolves(r, t)
  BY <1>1, <1>4 DEF Evolves, Records
<1> QED BY <1>1, <1>4, <1>5 DEF Tracks

LEMMA EvolvesReflexive == ASSUME NEW r \in Records PROVE Evolves(r, r)
BY DEF Evolves, Records

LEMMA EvolvesTransitive ==
    ASSUME NEW r \in Records, NEW s \in Records, NEW t \in Records, Evolves(r, s), Evolves(s, t)
    PROVE  Evolves(r, t)
<1>1. r.rev \in Nat /\ s.rev \in Nat /\ t.rev \in Nat
  BY DEF Records
<1>2. t.rev >= r.rev
  BY <1>1 DEF Evolves
<1>3. t.rev = r.rev => s.rev = r.rev
  BY <1>1 DEF Evolves
<1> QED BY <1>1, <1>2, <1>3 DEF Evolves

\* failReply() of o under the fault f, or nothing.
MayFail(r, n, fails, t) ==
    IF fails /\ r.reply = "none"
      THEN Tracks(t, n) /\ Evolves(r, t) /\ t.reply \in Codes
      ELSE t = r

\* The same, for one that is failed only under a condition.
LEMMA FailsOrNot ==
    ASSUME NEW o, NEW r \in Records, NEW n \in Statuses, NEW f \in Faults \cup {"none"},
           NEW ok \in BOOLEAN, NEW fails \in BOOLEAN,
           fails => Consistent(r) /\ May(r, n),
           NEW t, t = IF fails /\ r.reply = "none" THEN FailReplied(o, r, n, f, ok) ELSE r
    PROVE  MayFail(r, n, fails, t)
<1>1. CASE fails /\ r.reply = "none"
  <2>1. t = FailReplied(o, r, n, f, ok)
    BY <1>1
  <2>2. /\ Tracks(t, n) /\ Evolves(r, t)
        /\ t.reply \in Codes
    BY <1>1, <2>1, FailReplies
  <2> QED BY <1>1, <2>2 DEF MayFail
<1>2. CASE ~(fails /\ r.reply = "none")
  BY <1>2 DEF MayFail
<1> QED BY <1>1, <1>2

\* What holds before a turn of the ledger whose handler has set R and f itself
\* and notifies with N.
TurnReady(R, f, N, C) ==
    /\ R \in [Ops -> Records] /\ f \in Faults \cup {"none"} /\ native' \in [Ops -> Statuses]
    /\ \A o \in Ops :
        /\ ~R[o].broken /\ ~rec[o].broken
        /\ hist[o] = "known" =>
            /\ Consistent(R[o]) /\ May(R[o], native'[o])
            /\ N[o] \in {R[o].status, native'[o]}
            /\ o \notin C => Behind(R[o].status, native'[o])
            /\ f # "none" /\ native'[o] = "starting" => R[o].status = "starting"
            /\ R[o].failure # "none" => R[o].reply # "none"

\* ... and after it.
TurnDone(R, f, C, A) ==
    /\ rec' \in [Ops -> Records] /\ fault' \in Faults \cup {"none"}
    /\ f # "none" => fault' = f
    /\ \A o \in Ops :
        /\ ~rec'[o].broken
        /\ hist[o] # "known" => rec'[o] = R[o]
        /\ hist[o] = "known" =>
            /\ Follows(rec'[o], native'[o]) /\ Evolves(R[o], rec'[o])
            /\ R[o].reply = "none" /\ rec'[o].reply # "none" =>
                 rec'[o].reply \in Codes /\ (fault' # "none" \/ o \in A)
            /\ rec'[o].failure # "none" => rec'[o].reply # "none"
            /\ o \in A \/ fault' # "none" => rec'[o].reply # "none"
            /\ rec'[o].status = "unconfirmed" =>
                 R[o].status = "unconfirmed" \/ fault' # "none"

\* The ledger's turn: what is known is brought up to the native side, and answered when fenced.
LEMMA ReactSound ==
    ASSUME NEW R, NEW f, NEW N, NEW C, NEW A, NEW broke,
           TurnReady(R, f, N, C), React(R, f, N, C, A, broke)
    PROVE  TurnDone(R, f, C, A)
<1> DEFINE R1 == Notified(R, N, f)
           R2 == [o \in Ops |-> IF o \in C /\ hist[o] = "known"
                                  THEN Produced(R1[o], native'[o]) ELSE R1[o]]
           f2 == FaultAfter(f, R2, C, native')
           failed == {o \in A : R2[o].reply = "none"}
           R3 == [o \in Ops |-> IF o \in failed /\ hist[o] = "known"
                                  THEN FailReplied(o, R2[o], native'[o], f2, IsAllowed(o)')
                                  ELSE R2[o]]
<1>1. /\ fault' = IF f2 = "none" /\ broke THEN "termination-unconfirmed"
                  ELSE FaultAfter(f2, R3, failed, native')
      /\ rec' = Notified(R3, native', fault')
  <2> DEFINE Last(Q2, g, F) ==
               [o \in Ops |-> IF o \in F /\ hist[o] = "known"
                                THEN FailReplied(o, Q2[o], native'[o], g, IsAllowed(o)')
                                ELSE Q2[o]]
             Closes(Q2, g, F, Q3) ==
               /\ fault' = IF g = "none" /\ broke THEN "termination-unconfirmed"
                           ELSE FaultAfter(g, Q3, F, native')
               /\ rec' = Notified(Q3, native', fault')
  <2>1. \E Q2 \in {R2} : \E g \in {FaultAfter(f, Q2, C, native')} :
        \E F \in {{o \in A : Q2[o].reply = "none"}} : \E Q3 \in {Last(Q2, g, F)} :
           Closes(Q2, g, F, Q3)
    <3>1. \E Q1 \in {R1} :
          \E Q2 \in {[o \in Ops |-> IF o \in C /\ hist[o] = "known"
                                   THEN Produced(Q1[o], native'[o]) ELSE Q1[o]]} :
          \E g \in {FaultAfter(f, Q2, C, native')} :
          \E F \in {{o \in A : Q2[o].reply = "none"}} : \E Q3 \in {Last(Q2, g, F)} :
             Closes(Q2, g, F, Q3)
      BY DEF React
    <3> HIDE DEF R1, Last, Closes
    <3> QED BY <3>1
  <2>2. \E F \in {failed} : \E Q3 \in {Last(R2, f2, F)} : Closes(R2, f2, F, Q3)
    <3> HIDE DEF R2, Last, Closes
    <3> QED BY <2>1
  <2>3. R3 = Last(R2, f2, failed)
    OBVIOUS
  <2> HIDE DEF failed, R2, R3, f2, Last
  <2> QED BY <2>2, <2>3
<1>2. f \in Faults \cup {"none"} /\ f2 \in Faults \cup {"none"} /\ fault' \in Faults \cup {"none"}
  BY <1>1 DEF TurnReady, FaultAfter, Faults
<1>3. ASSUME NEW o \in Ops, hist[o] = "known"
      PROVE  /\ MayFail(R[o], N[o], f # "none", R1[o])
             /\ R2[o] = IF o \in C THEN Produced(R1[o], native'[o]) ELSE R1[o]
             /\ MayFail(R2[o], native'[o], o \in A, R3[o])
             /\ MayFail(R3[o], native'[o], fault' # "none", rec'[o])
             /\ R2[o].reply = R1[o].reply
             /\ native'[o] # "unconfirmed" => R2[o].failure = R1[o].failure
             /\ Follows(R2[o], native'[o]) /\ Follows(R3[o], native'[o])
             /\ Follows(rec'[o], native'[o]) /\ Evolves(R[o], rec'[o])
  <2>1. /\ R[o] \in Records /\ Consistent(R[o]) /\ May(R[o], native'[o])
        /\ N[o] \in {R[o].status, native'[o]} /\ native'[o] \in Statuses
        /\ o \notin C => Behind(R[o].status, native'[o])
        /\ f # "none" /\ native'[o] = "starting" => R[o].status = "starting"
    BY <1>3 DEF TurnReady
  <2>2. PICK ok \in BOOLEAN : ok = IsAllowed(o)'
    BY DEF IsAllowed
  <2>3. MayFail(R[o], N[o], f # "none", R1[o])
    <3>1. R1[o] = IF f # "none" /\ R[o].reply = "none"
                    THEN FailReplied(o, R[o], N[o], f, ok) ELSE R[o]
      BY <1>1, <1>3, <2>2 DEF Notified
    <3>2. N[o] \in Statuses /\ May(R[o], N[o])
      BY <2>1 DEF May, Records
    <3> QED BY <3>1, <3>2, <2>1, <1>2, FailsOrNot
  <2>4. R2[o] = IF o \in C THEN Produced(R1[o], native'[o]) ELSE R1[o]
    BY <1>1, <1>3
  <2>5. /\ R1[o] \in Records /\ Consistent(R1[o]) /\ Evolves(R[o], R1[o])
        /\ May(R1[o], native'[o])
        /\ o \notin C => Behind(R1[o].status, native'[o])
    <3>1. CASE R1[o] = R[o]
      BY <3>1, <2>1, EvolvesReflexive
    <3>2. CASE f # "none" /\ Tracks(R1[o], N[o]) /\ Evolves(R[o], R1[o])
      <4>1. R1[o].status = native'[o] \/ (R1[o].status = R[o].status /\ native'[o] # "starting")
        BY <3>2, <2>1 DEF Tracks
      <4>2. May(R1[o], native'[o])
        BY <4>1, <2>1 DEF May
      <4>3. o \notin C => Behind(R1[o].status, native'[o])
        BY <4>1, <2>1 DEF Behind
      <4> QED BY <3>2, <4>2, <4>3 DEF Tracks
    <3> QED BY <3>1, <3>2, <2>3 DEF MayFail
  <2>6. /\ Follows(R2[o], native'[o]) /\ Evolves(R1[o], R2[o]) /\ R2[o].reply = R1[o].reply
        /\ native'[o] # "unconfirmed" => R2[o].failure = R1[o].failure
    <3>1. CASE o \in C
      BY <3>1, <2>1, <2>4, <2>5, MayProduce DEF Follows, Behind
    <3>2. CASE o \notin C
      BY <3>2, <2>4, <2>5, EvolvesReflexive DEF Follows
    <3> QED BY <3>1, <3>2
  <2>7. MayFail(R2[o], native'[o], o \in A, R3[o])
    <3>1. R3[o] = IF o \in A /\ R2[o].reply = "none"
                    THEN FailReplied(o, R2[o], native'[o], f2, ok) ELSE R2[o]
      BY <1>3, <2>2
    <3>2. May(R2[o], native'[o])
      BY <2>6 DEF May, Follows, Behind
    <3> HIDE DEF R2, R3, f2, failed
    <3>3. R2[o] \in Records /\ Consistent(R2[o])
      BY <2>6 DEF Follows
    <3>4. CASE o \in A /\ R2[o].reply = "none"
      <4>1. R3[o] = FailReplied(o, R2[o], native'[o], f2, ok)
        BY <3>1, <3>4
      <4> QED BY <3>2, <3>3, <3>4, <4>1, <2>1, <1>2, FailReplies DEF MayFail
    <3>5. CASE ~(o \in A /\ R2[o].reply = "none")
      BY <3>1, <3>5 DEF MayFail
    <3> QED BY <3>4, <3>5
  <2>8. Follows(R3[o], native'[o]) /\ Evolves(R2[o], R3[o])
    BY <2>6, <2>7, EvolvesReflexive DEF MayFail, Tracks, Follows, Behind
  <2>9. MayFail(R3[o], native'[o], fault' # "none", rec'[o])
    <3>1. rec'[o] = IF fault' # "none" /\ R3[o].reply = "none"
                    THEN FailReplied(o, R3[o], native'[o], fault', ok) ELSE R3[o]
      BY <1>1, <1>3, <2>2 DEF Notified
    <3>2. May(R3[o], native'[o])
      BY <2>8 DEF May, Follows, Behind
    <3> HIDE DEF R3
    <3> QED BY <3>1, <3>2, <2>1, <2>8, <1>2, FailsOrNot DEF Follows
  <2>10. Follows(rec'[o], native'[o]) /\ Evolves(R3[o], rec'[o])
    BY <2>8, <2>9, EvolvesReflexive DEF MayFail, Tracks, Follows, Behind
  <2>11. Evolves(R[o], rec'[o])
    <3> HIDE DEF R1, R2, R3
    <3>1. Evolves(R[o], R2[o])
      BY <2>1, <2>5, <2>6, EvolvesTransitive DEF Follows
    <3>2. Evolves(R[o], R3[o])
      BY <3>1, <2>1, <2>6, <2>8, EvolvesTransitive DEF Follows
    <3> QED BY <3>2, <2>1, <2>8, <2>10, EvolvesTransitive DEF Follows
  <2> HIDE DEF R1, R2, R3
  <2> QED BY <2>1, <2>3, <2>4, <2>6, <2>7, <2>8, <2>9, <2>10, <2>11
<1>4. ASSUME NEW o \in Ops, hist[o] # "known"
      PROVE  rec'[o] = R[o] /\ R3[o] = R[o] /\ R2[o] = R[o]
  BY <1>1, <1>4 DEF Notified
<1>5. ASSUME NEW o \in Ops
      PROVE  R[o] \in Records /\ rec'[o] \in Records /\ ~rec'[o].broken /\ ~R2[o].broken /\ ~R3[o].broken
  <2> HIDE DEF R2, R3
  <2>1. R[o] \in Records /\ ~R[o].broken
    BY <1>5 DEF TurnReady
  <2> QED BY <2>1, <1>3, <1>4 DEF Follows, Consistent
<1>6. f # "none" => fault' = f
  BY <1>1 DEF FaultAfter
<1>7. f2 # "none" => fault' = f2
  BY <1>1 DEF FaultAfter
<1>8. ASSUME NEW o \in Ops, hist[o] = "known", o \in C, native'[o] = "unconfirmed"
      PROVE  f2 # "none"
  <2> HIDE DEF R2
  <2>1. ~rec[o].broken
    BY DEF TurnReady
  <2> QED BY <2>1, <1>8 DEF FaultAfter
<1>9. ASSUME NEW o \in Ops, hist[o] = "known", o \in failed, native'[o] = "unconfirmed"
       PROVE  fault' # "none"
  <2> HIDE DEF R3, failed, f2
  <2>1. ~rec[o].broken
    BY DEF TurnReady
  <2> QED BY <1>1, <2>1, <1>9 DEF FaultAfter
<1>10. ASSUME NEW o \in Ops, hist[o] = "known"
      PROVE  /\ R[o].reply = "none" /\ rec'[o].reply # "none" =>
                  rec'[o].reply \in Codes /\ (fault' # "none" \/ o \in A)
             /\ o \in A \/ fault' # "none" => rec'[o].reply # "none"
             /\ rec'[o].status = "unconfirmed" =>
                  R[o].status = "unconfirmed" \/ fault' # "none"
             /\ rec'[o].failure # "none" => rec'[o].reply # "none"
  <2>1. /\ MayFail(R[o], N[o], f # "none", R1[o])
        /\ R2[o] = IF o \in C THEN Produced(R1[o], native'[o]) ELSE R1[o]
        /\ MayFail(R2[o], native'[o], o \in A, R3[o])
        /\ MayFail(R3[o], native'[o], fault' # "none", rec'[o])
        /\ native'[o] # "unconfirmed" => R2[o].failure = R1[o].failure
        /\ Follows(R2[o], native'[o]) /\ Follows(R3[o], native'[o])
        /\ Follows(rec'[o], native'[o])
        /\ R2[o].reply = R1[o].reply
    BY <1>3, <1>10
  <2>10. o \in failed <=> (o \in A /\ R2[o].reply = "none")
    OBVIOUS
  <2> HIDE DEF R1, R2, R3, f2, failed
  <2>2. R[o].failure # "none" => R[o].reply # "none"
    BY <1>10 DEF TurnReady
  <2>3. rec'[o].reply \in Codes => rec'[o].reply # "none"
    BY DEF Codes, Faults
  <2>4. R[o].reply = "none" /\ rec'[o].reply # "none" =>
           rec'[o].reply \in Codes /\ (fault' # "none" \/ o \in A)
    BY <2>1, <1>6 DEF MayFail
  <2>5. (o \in A => R3[o].reply # "none") /\ (R3[o].reply # "none" => rec'[o].reply # "none")
    BY <2>1, <2>3 DEF MayFail, Codes, Faults
  <2>6. fault' # "none" => rec'[o].reply # "none"
    BY <2>1, <2>3 DEF MayFail
  <2>7. o \in C /\ native'[o] = "unconfirmed" => fault' # "none"
    BY <1>7, <1>8, <1>10
  <2>8. rec'[o].failure # "none" => rec'[o].reply # "none"
    BY <2>1, <2>2, <2>3, <2>7 DEF MayFail
  <2>9. rec'[o].status = "unconfirmed" => R[o].status = "unconfirmed" \/ fault' # "none"
    <3> SUFFICES ASSUME rec'[o].status = "unconfirmed", fault' = "none"
                 PROVE  R[o].status = "unconfirmed"
      OBVIOUS
    <3>1. f = "none" /\ native'[o] = "unconfirmed"
      BY <1>6, <2>1 DEF Follows, Behind
    <3>2. o \notin C /\ o \notin failed
      BY <2>7, <3>1, <1>10, <1>9
    <3> QED BY <2>1, <2>10, <3>1, <3>2 DEF MayFail
  <2> QED BY <2>4, <2>5, <2>6, <2>8, <2>9
<1>11. rec' = [o \in Ops |-> rec'[o]]
  BY <1>1 DEF Notified
<1> HIDE DEF R1, R2, R3, f2, failed
<1> QED BY <1>2, <1>3, <1>4, <1>5, <1>6, <1>10, <1>11 DEF TurnDone

---------------------------------------------------------------------------
(* Types of everything but the records, and where the tasks are.           *)

\* The variables of the native side, and the rest of them but the records.
NativeShape ==
    /\ native \in [Ops -> Statuses]
    /\ denied \subseteq Ops /\ current \subseteq Ops /\ lost \subseteq SUBSET Ops
    /\ stops \subseteq [ops : SUBSET Ops, fate : {"open", "ok", "fail"}]
    /\ cancelled \subseteq Ops /\ refused \subseteq cancelled

RestShape ==
    /\ hist \in [Ops -> {"unknown", "known", "retired"}]
    /\ used \subseteq Ops /\ wrong \subseteq Ops /\ blocked \in BOOLEAN
    /\ pc \in [Ops -> Places]
    /\ files \in [Ops -> {"none", "held", "stuck", "removed"}]
    /\ timedOut \subseteq Ops
    /\ drain \in [Ops -> {"none", "waiting", "confirmed"}]
    /\ doc \in Owners /\ docLive \in BOOLEAN /\ opened \subseteq Owners
    /\ quit \in {"no", "stopping", "settling", "draining", "failed", "done"}

Shape == NativeShape /\ RestShape

\* The end of a task concerns one operation.
LEMMA EndTaskFrame ==
    ASSUME Shape, NEW o \in Ops, NEW failed, EndTask(o, failed)
    PROVE  /\ pc' = [pc EXCEPT ![o] = "over"]
           /\ hist' \in [Ops -> {"unknown", "known", "retired"}]
           /\ hist'[o] \in {hist[o], "retired"}
           /\ \A p \in Ops : p # o => hist'[p] = hist[p]
BY DEF EndTask, Shape, RestShape

\* A cancellation keeps the native side within its types.
LEMMA CancelShape ==
    ASSUME Shape, NEW S \in SUBSET Ops, NEW U, NEW halt, CancelEffect(S, U, halt)
    PROVE  NativeShape'
<1>1. native' \in [Ops -> Statuses]
  BY DEF CancelEffect, Shape, NativeShape, Statuses
<1>2. denied' \subseteq Ops /\ current' \subseteq Ops /\ lost' \subseteq SUBSET Ops
  BY DEF CancelEffect, Shape, NativeShape, Affected
<1>3. stops' \subseteq [ops : SUBSET Ops, fate : {"open", "ok", "fail"}]
  BY DEF CancelEffect, Shape, NativeShape, Affected, Drains, LostGroups, Fate
<1>4. cancelled' \subseteq Ops /\ refused' \subseteq cancelled'
  BY DEF CancelEffect, Shape, NativeShape, RefusedOf, Working
<1> QED BY <1>1, <1>2, <1>3, <1>4 DEF NativeShape

LEMMA InitShape == Init => Shape
<1> SUFFICES ASSUME Init PROVE Shape
  OBVIOUS
<1>1. "not-dispatched" \in Statuses /\ "idle" \in Places
  BY DEF Statuses, Places
<1> QED BY <1>1 DEF Init, Shape, NativeShape, RestShape

\* Typing, action by action.
LEMMA StepShape ==
    ASSUME Shape, [Next]_vars
    PROVE  Shape'
<1>1. CASE Next
  <2>1. ASSUME NEW o \in Ops, AdmitOverflow(o)
        PROVE  Shape'
    BY <2>1
    DEF AdmitOverflow, Shape, NativeShape, RestShape, nativeVars, taskVars, docVars, quitVars
  <2>2. ASSUME NEW o \in Ops, AdmitNoHandle(o)
        PROVE  Shape'
    BY <2>2
    DEF AdmitNoHandle, Shape, NativeShape, RestShape, nativeVars, taskVars, docVars, quitVars
  <2>3. ASSUME NEW o \in Ops, NEW v \in BOOLEAN, Admit(o, v)
        PROVE  Shape'
    BY <2>3
    DEF Admit, Shape, NativeShape, RestShape, docVars, quitVars, Goes, Places, Statuses
  <2>4. ASSUME NEW S \in SUBSET Ops, NEW U \in SUBSET Ops, Revoke(S, U)
        PROVE  Shape'
    <3>1. CancelEffect(S \cap Known, U, FALSE)
      BY <2>4 DEF Revoke, RevokeEffect
    <3>2. (S \cap Known) \in SUBSET Ops
      BY DEF Known
    <3>3. NativeShape'
      BY <3>1, <3>2, CancelShape
    <3>4. RestShape'
      BY <2>4 DEF RestShape, Shape, Revoke, docVars, quitVars
    <3> QED
      BY <3>3, <3>4 DEF Shape
  <2>5. ASSUME NEW U \in SUBSET Ops, CloseDocument(U)
        PROVE  Shape'
    <3>1. CancelEffect(OfOwner(Ops, doc) \cap Known, U, FALSE)
      BY <2>5 DEF CloseDocument, RevokeEffect
    <3>2. (OfOwner(Ops, doc) \cap Known) \in SUBSET Ops
      BY DEF OfOwner
    <3>3. NativeShape'
      BY <3>1, <3>2, CancelShape
    <3>4. RestShape'
      BY <2>5 DEF RestShape, Shape, CloseDocument, quitVars
    <3> QED
      BY <3>3, <3>4 DEF Shape
  <2>6. ASSUME NEW U \in SUBSET Ops, Quit(U)
        PROVE  Shape'
    <3>1. CancelEffect(Ops \cap Known, U, TRUE)
      BY <2>6 DEF Quit, RevokeEffect
    <3>2. (Ops \cap Known) \in SUBSET Ops
      BY DEF Known
    <3>3. NativeShape'
      BY <3>1, <3>2, CancelShape
    <3>4. RestShape'
      BY <2>6 DEF RestShape, Shape, Quit
    <3> QED
      BY <3>3, <3>4 DEF Shape
  <2>7. ASSUME NEW w \in Owners, OpenDocument(w)
        PROVE  Shape'
    BY <2>7
    DEF OpenDocument, Shape, NativeShape, RestShape, ledgerVars, nativeVars, taskVars, quitVars
  <2>8. ASSUME NEW o \in Ops, DirectoryReady(o)
        PROVE  Shape'
    BY <2>8
    DEF DirectoryReady, Shape, NativeShape, RestShape, ledgerVars, nativeVars, docVars,
        quitVars, Goes, Places
  <2>9. ASSUME NEW o \in Ops, DirectoryFails(o)
        PROVE  Shape'
    BY <2>9
    DEF DirectoryFails, Shape, NativeShape, RestShape, ledgerVars, nativeVars, docVars,
        quitVars, Goes, Places
  <2>10. ASSUME NEW o \in Ops, Submit(o)
        PROVE  Shape'
    BY <2>10
    DEF Submit, Shape, NativeShape, RestShape, docVars, quitVars, Goes, Places, RequestEffect,
        Statuses
  <2>11. ASSUME NEW o \in Ops, WriteFails(o)
        PROVE  Shape'
    BY <2>11
    DEF WriteFails, Shape, NativeShape, RestShape, nativeVars, docVars, quitVars, Goes, Places
  <2>12. ASSUME NEW o \in Ops, TtsReturns(o)
        PROVE  Shape'
    BY <2>12
    DEF TtsReturns, Shape, NativeShape, RestShape, ledgerVars, nativeVars, docVars, quitVars,
        Goes, Places
  <2>13. ASSUME NEW o \in Ops, SttReturns(o)
        PROVE  Shape'
    BY <2>13
    DEF SttReturns, Shape, NativeShape, RestShape, nativeVars, docVars, quitVars, Goes, Places
  <2>14. ASSUME NEW o \in Ops, SttHeld(o)
        PROVE  Shape'
    BY <2>14
    DEF SttHeld, Shape, NativeShape, RestShape, nativeVars, docVars, quitVars, Goes, Places
  <2>15. ASSUME NEW o \in Ops, NEW U \in SUBSET Ops, SttJoins(o, U)
        PROVE  Shape'
    <3>1. CancelEffect({o}, U, FALSE)
      BY <2>15 DEF SttJoins, Cancelling
    <3>2. ({o}) \in SUBSET Ops
      OBVIOUS
    <3>3. NativeShape'
      BY <3>1, <3>2, CancelShape
    <3>4. RestShape'
      BY <2>15
      DEF RestShape, Shape, SttJoins, docVars, quitVars, Goes, Places
    <3> QED
      BY <3>3, <3>4 DEF Shape
  <2>16. ASSUME NEW o \in Ops, NEW U \in SUBSET Ops, CatchCancels(o, U)
        PROVE  Shape'
    <3>1. CancelEffect({o}, U, FALSE)
      BY <2>16 DEF CatchCancels, Cancelling
    <3>2. ({o}) \in SUBSET Ops
      OBVIOUS
    <3>3. NativeShape'
      BY <3>1, <3>2, CancelShape
    <3>4. RestShape'
      BY <2>16
      DEF RestShape, Shape, CatchCancels, docVars, quitVars, Goes, Places
    <3> QED
      BY <3>3, <3>4 DEF Shape
  <2>17. ASSUME NEW o \in Ops, Joined(o)
        PROVE  Shape'
    BY <2>17
    DEF Joined, Shape, NativeShape, RestShape, nativeVars, docVars, quitVars, Goes, Places
  <2>18. ASSUME NEW o \in Ops, JoinedInVain(o)
        PROVE  Shape'
    BY <2>18
    DEF JoinedInVain, Shape, NativeShape, RestShape, nativeVars, docVars, quitVars, Goes, Places
  <2>19. ASSUME NEW o \in Ops, FinalStopSeen(o)
        PROVE  Shape'
    BY <2>19
    DEF FinalStopSeen, Shape, NativeShape, RestShape, nativeVars, docVars, quitVars, Goes, Places
  <2>20. ASSUME NEW o \in Ops, RemoveInput(o)
        PROVE  Shape'
    BY <2>20
    DEF RemoveInput, Shape, NativeShape, RestShape, ledgerVars, nativeVars, docVars, quitVars,
        Goes, Places
  <2>21. ASSUME NEW o \in Ops, RemoveInputFails(o)
        PROVE  Shape'
    BY <2>21
    DEF RemoveInputFails, Shape, NativeShape, RestShape, ledgerVars, nativeVars, docVars,
        quitVars, Goes, Places
  <2>22. ASSUME NEW o \in Ops, Deliver(o)
        PROVE  Shape'
    BY <2>22, EndTaskFrame
    DEF Deliver, Shape, NativeShape, RestShape, nativeVars, docVars, quitVars, Places
  <2>23. ASSUME NEW o \in Ops, TooLate(o)
        PROVE  Shape'
    BY <2>23
    DEF TooLate, Shape, NativeShape, RestShape, nativeVars, docVars, quitVars, Goes, Places
  <2>24. ASSUME NEW o \in Ops, GiveUp(o)
        PROVE  Shape'
    BY <2>24, EndTaskFrame
    DEF GiveUp, Shape, NativeShape, RestShape, nativeVars, docVars, quitVars, Places
  <2>25. ASSUME NEW o \in Ops, Dispatch(o)
        PROVE  Shape'
    BY <2>25
    DEF Dispatch, Shape, NativeShape, RestShape, taskVars, docVars, quitVars, Statuses
  <2>26. ASSUME NEW o \in Ops, Timeout(o)
        PROVE  Shape'
    <3>1. CancelEffect({}, {}, TRUE)
      BY <2>26 DEF Timeout, Cancelling
    <3>2. ({}) \in SUBSET Ops
      OBVIOUS
    <3>3. NativeShape'
      BY <3>1, <3>2, CancelShape
    <3>4. RestShape'
      BY <2>26 DEF RestShape, Shape, Timeout, docVars, quitVars
    <3> QED
      BY <3>3, <3>4 DEF Shape
  <2>27. ASSUME NEW o \in Ops, NEW b \in BOOLEAN, Complete(o, b)
        PROVE  Shape'
    BY <2>27
    DEF Complete, Shape, NativeShape, RestShape, taskVars, docVars, quitVars, Statuses
  <2>28. ASSUME StopClient
        PROVE  Shape'
    <3>1. CancelEffect({}, {}, TRUE)
      BY <2>28 DEF StopClient, Cancelling
    <3>2. ({}) \in SUBSET Ops
      OBVIOUS
    <3>3. NativeShape'
      BY <3>1, <3>2, CancelShape
    <3>4. RestShape'
      BY <2>28 DEF RestShape, Shape, StopClient, docVars, quitVars
    <3> QED
      BY <3>3, <3>4 DEF Shape
  <2>29. ASSUME NEW s \in stops, StopConfirmed(s)
        PROVE  Shape'
    BY <2>29
    DEF StopConfirmed, Shape, NativeShape, RestShape, taskVars, docVars, quitVars, Statuses
  <2>30. ASSUME NEW s \in stops, NEW b \in BOOLEAN, StopUnconfirmed(s, b)
        PROVE  Shape'
    BY <2>30
    DEF StopUnconfirmed, Shape, NativeShape, RestShape, taskVars, docVars, Statuses
  <2>31. ASSUME IntentLost
        PROVE  Shape'
    BY <2>31
    DEF IntentLost, Shape, NativeShape, RestShape, ledgerVars, taskVars, docVars, quitVars, Affected
  <2>32. ASSUME WindowsExit
        PROVE  Shape'
    BY <2>32
    DEF WindowsExit, Shape, NativeShape, RestShape, taskVars, docVars, quitVars, Statuses, Affected
  <2>33. ASSUME LateExit
        PROVE  Shape'
    BY <2>33
    DEF LateExit, Shape, NativeShape, RestShape, ledgerVars, taskVars, docVars, quitVars
  <2>34. ASSUME FinalStopOk
        PROVE  Shape'
    BY <2>34
    DEF FinalStopOk, Shape, NativeShape, RestShape, ledgerVars, nativeVars, taskVars, docVars
  <2>35. ASSUME FinalStopFails
        PROVE  Shape'
    BY <2>35
    DEF FinalStopFails, Shape, NativeShape, RestShape, ledgerVars, nativeVars, taskVars, docVars
  <2>36. ASSUME TasksSettled
        PROVE  Shape'
    BY <2>36
    DEF TasksSettled, Shape, NativeShape, RestShape, ledgerVars, nativeVars, taskVars, docVars
  <2>37. ASSUME NEW o \in Ops, Drain(o)
        PROVE  Shape'
    BY <2>37 DEF Drain, Shape, NativeShape, RestShape, nativeVars, docVars, quitVars
  <2>38. ASSUME NEW o \in Ops, DrainFails(o)
        PROVE  Shape'
    BY <2>38
    DEF DrainFails, Shape, NativeShape, RestShape, ledgerVars, nativeVars, taskVars, docVars
  <2>39. ASSUME Drained
        PROVE  Shape'
    BY <2>39
    DEF Drained, Shape, NativeShape, RestShape, ledgerVars, nativeVars, taskVars, docVars
  <2>40. ASSUME QuitDone
        PROVE  Shape'
    BY <2>40
    DEF QuitDone, Shape, NativeShape, RestShape, vars, ledgerVars, nativeVars, taskVars,
        docVars, quitVars
  <2>41. QED
    BY <1>1, <2>1, <2>2, <2>3, <2>4, <2>5, <2>6, <2>7, <2>8, <2>9, <2>10, <2>11, <2>12,
       <2>13, <2>14, <2>15, <2>16, <2>17, <2>18, <2>19, <2>20, <2>21, <2>22, <2>23,
       <2>24, <2>25, <2>26, <2>27, <2>28, <2>29, <2>30, <2>31, <2>32, <2>33, <2>34,
       <2>35, <2>36, <2>37, <2>38, <2>39, <2>40
    DEF Next, Request, TaskStep, NativeStep, QuitStep, Ends, Unused, Known
<1>2. CASE UNCHANGED vars
  BY <1>2
  DEF vars, ledgerVars, nativeVars, taskVars, docVars, quitVars, Shape, NativeShape,
      RestShape
<1>3. QED BY <1>1, <1>2


---------------------------------------------------------------------------
(* Where the tasks are, and what is bound to an intent or a stop.          *)

\* A task runs only for an operation the ledger knows.
PlaceInv ==
    \A o \in Ops :
        /\ pc[o] \notin {"idle", "over"} => hist[o] = "known"
        /\ hist[o] = "known" => pc[o] # "idle"
        /\ hist[o] = "unknown" => pc[o] = "idle"
        /\ quit \in {"draining", "done"} => pc[o] \in {"idle", "over"}

\* What a handle was used for.
UsedInv ==
    \A o \in Ops :
        /\ o \in used => native[o] # "not-dispatched"
        /\ native[o] \in {"starting", "running", "completed"} => o \in used
        /\ o \notin used \cup denied => native[o] \in {"not-dispatched", "confirmed"}
        /\ o \in timedOut => o \in used
        /\ pc[o] \in {"mkdir", "writing"} => o \notin used
        /\ o \in cancelled \ used => o \in denied /\ native[o] \in {"confirmed", "unconfirmed"}

\* The operations of the current intent, of a lost intent, of a stop.
CurrentInv ==
    \A o \in current :
        native[o] \in {"not-dispatched", "starting", "running", "completed", "confirmed"}

\* Those of an intent that was lost with its process, and those a stop waits for.
LostInv ==
    \A G \in lost : \A o \in G :
        native[o] \in {"not-dispatched", "starting", "running", "confirmed"}

StopsInv ==
    \A s \in stops : \A o \in s.ops :
        /\ native[o] \notin {"unconfirmed", "completed"}
        /\ s.fate # "ok" => /\ o \in denied
                            /\ \/ native[o] = "stopping"
                               \/ native[o] = "confirmed" /\ o \notin used

\* An operation belongs to one of them at most.
Apart ==
    /\ \A G \in lost : current \cap G = {}
    /\ \A s \in stops : current \cap s.ops = {}
    /\ \A G \in lost : \A H \in lost : G = H \/ G \cap H = {}
    /\ \A s \in stops : \A t \in stops : s = t \/ s.ops \cap t.ops = {}
    /\ \A G \in lost : \A s \in stops : G \cap s.ops = {}

\* Nothing exists of an id that was never admitted.
UnknownInv ==
    \A o \in Ops : hist[o] = "unknown" =>
        /\ native[o] = "not-dispatched" /\ files[o] = "none"
        /\ o \notin used \cup wrong \cup denied \cup cancelled \cup timedOut \cup current
        /\ \A G \in lost : o \notin G
        /\ \A s \in stops : o \notin s.ops

Bound == CurrentInv /\ LostInv /\ StopsInv /\ Apart

NativeInv == PlaceInv /\ UsedInv /\ Bound /\ UnknownInv

LEMMA InitNative == Init => NativeInv
BY
DEF Init, NativeInv, Bound, PlaceInv, UsedInv, CurrentInv, LostInv, StopsInv, Apart,
    UnknownInv

\* The groups are told by what is known of the native side alone.
LEMMA BoundStays ==
    ASSUME Bound, UNCHANGED <<native, used, denied, current, lost, stops>>
    PROVE  Bound'
BY DEF Bound, CurrentInv, LostInv, StopsInv, Apart

\* Cancellations and stops keep the groups apart and in their states.
LEMMA CancelKeepsBound ==
    ASSUME Shape, UsedInv, Bound, NEW S \in SUBSET Ops, NEW U \in SUBSET Ops, NEW halt,
           CancelEffect(S, U, halt), used' = used
    PROVE  Bound'
<1> DEFINE drained == Working(S) \cap UNION lost
           stopped == IF StopsIntent(S, halt) THEN Affected \ U ELSE {}
<1>1. /\ native' = [o \in Ops |-> IF o \in Unused(S) THEN "confirmed"
                                  ELSE IF o \in drained \cup stopped THEN "stopping"
                                  ELSE native[o]]
      /\ denied' = denied \cup stopped \cup {o \in S \ cancelled : native[o] # "unconfirmed"}
      /\ lost' = lost \ LostGroups(S)
      /\ current' = IF StopsIntent(S, halt) THEN {} ELSE current
  BY DEF CancelEffect
<1> DEFINE Left(G) == [ops |-> {o \in G : native[o] \notin {"completed", "confirmed"}},
                       fate |-> "ok"]
<1>2. ASSUME NEW s \in stops'
      PROVE  \/ s \in stops
             \/ \E G \in lost \ lost' : s = Left(G)
             \/ StopsIntent(S, halt) /\ s = [ops |-> stopped, fate |-> Fate]
  <2>1. \/ s \in stops
        \/ s \in Drains(S)
        \/ StopsIntent(S, halt) /\ s = [ops |-> stopped, fate |-> Fate]
    <3>1. stops' = stops \cup Drains(S) \cup
                  (IF StopsIntent(S, halt) THEN {[ops |-> stopped, fate |-> Fate]} ELSE {})
      BY DEF CancelEffect
    <3>2. CASE s \in stops \cup Drains(S)
      BY <3>2
    <3>3. CASE s \notin stops \cup Drains(S)
      BY <3>1, <3>3
    <3> QED BY <3>2, <3>3
  <2>2. CASE s \in Drains(S)
    <3>1. PICK G \in LostGroups(S) : s = Left(G)
      BY <2>2 DEF Drains
    <3> QED BY <3>1, <1>1 DEF LostGroups
  <2> QED BY <2>1, <2>2
<1>3. /\ \A o \in Working(S) : /\ o \in S \ cancelled /\ o \in used
                                /\ native[o] \in {"starting", "running"}
      /\ \A o \in Unused(S) : o \notin used /\ native[o] \in {"not-dispatched", "stopping"}
      /\ \A o \in stopped : o \in current /\ native[o] \in {"not-dispatched", "starting", "running"}
      /\ \A o \in current : o \in drained => FALSE
      /\ \A G \in lost' : G \in lost /\ G \cap drained = {}
  BY <1>1 DEF Working, Unused, Affected, LostGroups, Bound, Apart
<1>4. CurrentInv'
  BY <1>1, <1>3 DEF CurrentInv, Bound, StopsIntent, Shape, NativeShape
<1>5. LostInv'
  BY <1>1, <1>3 DEF LostInv, Bound, Apart, Shape, NativeShape
<1>6. StopsInv'
  <2> SUFFICES ASSUME NEW s \in stops', NEW o \in s.ops
               PROVE  /\ native'[o] \notin {"unconfirmed", "completed"}
                      /\ s.fate # "ok" => /\ o \in denied'
                                          /\ \/ native'[o] = "stopping"
                                             \/ native'[o] = "confirmed" /\ o \notin used
    BY DEF StopsInv
  <2>1. CASE s \in stops
    <3>1. o \in Ops /\ o \notin current /\ o \notin drained
      BY <2>1 DEF Bound, Apart, Shape, NativeShape
    <3> QED BY <2>1, <3>1, <1>1, <1>3 DEF Bound, StopsInv
  <2>2. CASE \E G \in lost \ lost' : s = Left(G)
    <3>1. o \in Ops /\ native[o] \in {"not-dispatched", "starting", "running"}
      BY <2>2 DEF Bound, LostInv, Shape, NativeShape
    <3> QED BY <2>2, <3>1, <1>1
  <2>3. CASE StopsIntent(S, halt) /\ s = [ops |-> stopped, fate |-> Fate]
    BY <2>3, <1>1, <1>3 DEF Shape, NativeShape
  <2> QED BY <1>2, <2>1, <2>2, <2>3
<1>7. Apart'
  <2>1. \A G \in lost' : G \in lost /\ current' \cap G = {}
    BY <1>1 DEF Bound, Apart
  <2>2. \A G \in lost' : \A H \in lost' : G = H \/ G \cap H = {}
    BY <2>1 DEF Bound, Apart
  <2>3. \A s \in stops' : current' \cap s.ops = {}
    BY <1>1, <1>2 DEF Bound, Apart
  <2>4. \A G \in lost' : \A s \in stops' : G \cap s.ops = {}
    BY <1>2, <1>3, <2>1 DEF Bound, Apart
  <2>5. \A s \in stops' : \A t \in stops' : s = t \/ s.ops \cap t.ops = {}
    <3> SUFFICES ASSUME NEW s \in stops', NEW t \in stops' PROVE s = t \/ s.ops \cap t.ops = {}
      OBVIOUS
    <3>1. CASE s \in stops /\ t \in stops
      BY <3>1 DEF Bound, Apart
    <3>2. ASSUME NEW x \in stops, NEW G \in lost \ lost'
          PROVE  x.ops \cap Left(G).ops = {}
      BY DEF Bound, Apart
    <3>3. ASSUME NEW x \in stops PROVE x.ops \cap stopped = {}
      BY <1>3 DEF Bound, Apart
    <3>4. ASSUME NEW G \in lost \ lost' PROVE Left(G).ops \cap stopped = {}
      BY <1>3 DEF Bound, Apart
    <3>5. ASSUME NEW G \in lost \ lost', NEW H \in lost \ lost'
          PROVE  Left(G) = Left(H) \/ Left(G).ops \cap Left(H).ops = {}
      <4>1. G = H \/ G \cap H = {}
        BY DEF Bound, Apart
      <4> QED BY <4>1
    <3> HIDE DEF Left, stopped
    <3>6. [ops |-> stopped, fate |-> Fate].ops = stopped
      OBVIOUS
    <3> QED BY <3>1, <3>2, <3>3, <3>4, <3>5, <3>6, <1>2
  <2> QED BY <2>1, <2>2, <2>3, <2>4, <2>5 DEF Apart
<1> QED BY <1>4, <1>5, <1>6, <1>7 DEF Bound

\* A cancellation of operations that are known keeps what is said of handles.
LEMMA CancelKeepsNative ==
    ASSUME Shape, NativeInv, NEW S \in SUBSET Known, NEW U \in SUBSET Ops, NEW halt,
           CancelEffect(S, U, halt), used' = used, wrong' = wrong
    PROVE  /\ Bound'
           /\ \A o \in Ops :
                /\ o \in used => native'[o] # "not-dispatched"
                /\ native'[o] \in {"starting", "running", "completed"} => o \in used
                /\ o \notin used \cup denied' => native'[o] \in {"not-dispatched", "confirmed"}
                /\ o \in cancelled' \ used =>
                    o \in denied' /\ native'[o] \in {"confirmed", "unconfirmed"}
                /\ hist[o] = "unknown" =>
                    /\ native'[o] = "not-dispatched"
                    /\ o \notin used \cup wrong \cup denied' \cup cancelled' \cup current'
                    /\ \A G \in lost' : o \notin G
                    /\ \A s \in stops' : o \notin s.ops
<1> S \in SUBSET Ops
  BY DEF Known
<1>1. Bound'
  BY CancelKeepsBound DEF NativeInv
<1>2. ASSUME NEW o \in Ops
      PROVE  /\ o \in used => native'[o] # "not-dispatched"
             /\ native'[o] \in {"starting", "running", "completed"} => o \in used
             /\ o \notin used \cup denied' => native'[o] \in {"not-dispatched", "confirmed"}
             /\ o \in cancelled' \ used =>
                 o \in denied' /\ native'[o] \in {"confirmed", "unconfirmed"}
  <2>1. native'[o] = IF o \in Unused(S) THEN "confirmed"
                    ELSE IF o \in (Working(S) \cap UNION lost) \cup
                                  (IF StopsIntent(S, halt) THEN Affected \ U ELSE {})
                      THEN "stopping"
                    ELSE native[o]
    BY DEF CancelEffect
  <2>2. /\ denied \subseteq denied' /\ \A p \in Working(S) : p \in denied'
        /\ \A p \in Affected \ U : StopsIntent(S, halt) => p \in denied'
    BY DEF CancelEffect, Working
  <2>3. ASSUME o \in cancelled' \ used
        PROVE  o \in denied' /\ native'[o] \in {"confirmed", "unconfirmed"}
    <3>1. o \notin Working(S)
      BY <2>3 DEF Working
    <3>2. CASE o \in cancelled
      BY <2>1, <2>2, <2>3, <3>1, <3>2 DEF NativeInv, UsedInv, Affected
    <3>3. CASE o \notin cancelled
      <4>1. o \in S /\ native[o] # "unconfirmed" /\ o \in denied'
        BY <2>3, <3>3 DEF CancelEffect
      <4>2. native[o] \in {"not-dispatched", "stopping", "confirmed"}
        BY <2>3, <4>1 DEF NativeInv, UsedInv, Shape, NativeShape, Statuses
      <4> QED BY <2>1, <2>3, <3>1, <3>3, <4>1, <4>2 DEF Unused, Affected
    <3> QED BY <3>2, <3>3
  <2> QED BY <2>1, <2>2, <2>3 DEF NativeInv, UsedInv, Unused
<1>3. ASSUME NEW o \in Ops, hist[o] = "unknown"
      PROVE  /\ native'[o] = "not-dispatched"
             /\ o \notin used \cup wrong \cup denied' \cup cancelled' \cup current'
             /\ \A G \in lost' : o \notin G
             /\ \A s \in stops' : o \notin s.ops
  <2>1. o \notin S /\ o \notin current /\ native[o] = "not-dispatched"
        /\ o \notin used \cup wrong \cup denied \cup cancelled
        /\ (\A G \in lost : o \notin G) /\ \A s \in stops : o \notin s.ops
    BY <1>3 DEF NativeInv, UnknownInv, Known
  <2>2. o \notin Unused(S) /\ o \notin Working(S) /\ o \notin Affected
    BY <2>1 DEF Unused, Working, Affected
  <2>3. native'[o] = "not-dispatched" /\ o \notin denied' \cup cancelled' \cup current'
        /\ \A G \in lost' : o \notin G
    BY <2>1, <2>2 DEF CancelEffect
  <2>4. \A s \in stops' : o \notin s.ops
    BY <2>1, <2>2 DEF CancelEffect, Drains, LostGroups
  <2> QED BY <2>1, <2>3, <2>4
<1> QED BY <1>1, <1>2, <1>3

\* The native side, action by action.
LEMMA StepNative ==
    ASSUME Shape, NativeInv, [Next]_vars
    PROVE  NativeInv'
<1>1. CASE Next
  <2>1. ASSUME NEW o \in Ops, AdmitOverflow(o)
        PROVE  NativeInv'
    BY <2>1, BoundStays
    DEF AdmitOverflow, NativeInv, PlaceInv, UsedInv, UnknownInv, nativeVars, taskVars, quitVars
  <2>2. ASSUME NEW o \in Ops, AdmitNoHandle(o)
        PROVE  NativeInv'
    <3>1. PlaceInv'
      BY <2>2
      DEF NativeInv, PlaceInv, AdmitNoHandle, MayAdmit, taskVars, quitVars
    <3>2. UsedInv'
      BY <2>2
      DEF NativeInv, UsedInv, Bound, AdmitNoHandle, nativeVars, taskVars
    <3>3. UnknownInv'
      BY <2>2
      DEF NativeInv, UnknownInv, AdmitNoHandle, nativeVars, taskVars
    <3>4. Bound'
      BY <2>2
      DEF NativeInv, Bound, CurrentInv, LostInv, StopsInv, Apart, AdmitNoHandle, nativeVars
    <3> QED BY <3>1, <3>2, <3>3, <3>4 DEF NativeInv
  <2>3. ASSUME NEW o \in Ops, NEW v \in BOOLEAN, Admit(o, v)
        PROVE  NativeInv'
    <3>1. PlaceInv'
      BY <2>3
      DEF Shape, RestShape, NativeInv, PlaceInv, Admit, MayAdmit, quitVars, Goes
    <3>2. UsedInv'
      <4>1. CASE v /\ o \notin Stt
        BY <2>3, <4>1
        DEF Shape, NativeShape, NativeInv, PlaceInv, UsedInv, Admit, MayAdmit, Goes
      <4>2. CASE ~(v /\ o \notin Stt)
        BY <2>3, <4>2
        DEF NativeInv, UsedInv, UnknownInv, Admit, MayAdmit, Goes
      <4> QED BY <4>1, <4>2
    <3>3. UnknownInv'
      BY <2>3
      DEF Shape, NativeShape, RestShape, NativeInv, UnknownInv, Admit
    <3>4. Bound'
      BY <2>3
      DEF Shape, NativeShape, NativeInv, UnknownInv, Bound, CurrentInv, LostInv, StopsInv,
          Apart, Admit, MayAdmit
    <3> QED BY <3>1, <3>2, <3>3, <3>4 DEF NativeInv
  <2>4. ASSUME NEW S \in SUBSET Ops, NEW U \in SUBSET Ops, Revoke(S, U)
        PROVE  NativeInv'
    <3>1. CancelEffect(S \cap Known, U, FALSE)
      BY <2>4 DEF Revoke, RevokeEffect
    <3>2. (S \cap Known) \in SUBSET Known
      BY <2>4 DEF Revoke
    <3>3. timedOut' = timedOut /\ used' = used /\ wrong' = wrong /\ files' = files
      BY <2>4 DEF Revoke
    <3>4. /\ Bound'
          /\ \A p \in Ops :
              /\ p \in used => native'[p] # "not-dispatched"
              /\ native'[p] \in {"starting", "running", "completed"} => p \in used
              /\ p \notin used \cup denied' => native'[p] \in {"not-dispatched", "confirmed"}
              /\ p \in cancelled' \ used =>
                  p \in denied' /\ native'[p] \in {"confirmed", "unconfirmed"}
              /\ hist[p] = "unknown" =>
                  /\ native'[p] = "not-dispatched"
                  /\ p \notin used \cup wrong \cup denied' \cup cancelled' \cup current'
                  /\ \A G \in lost' : p \notin G
                  /\ \A s \in stops' : p \notin s.ops
      BY <3>1, <3>2, <3>3, CancelKeepsNative DEF NativeInv
    <3>5. /\ pc' \in [Ops -> Places] /\ hist' \in [Ops -> {"unknown", "known", "retired"}]
          /\ quit' \notin {"draining", "done"} \/ quit' = quit
          /\ \A p \in Ops :
              /\ hist'[p] = "unknown" => hist[p] = "unknown"
              /\ (hist[p] = "known") <=> (hist'[p] = "known")
              /\ \/ pc'[p] = pc[p]
                 \/ /\ hist[p] = "known" /\ pc'[p] \in {"joining", "catchjoin"}
                    /\ pc[p] \notin {"idle", "over"}
      BY <2>4
      DEF Shape, RestShape, Revoke, quitVars
    <3>6. PlaceInv'
      BY <3>5 DEF NativeInv, PlaceInv
    <3>7. UsedInv'
      BY <3>3, <3>4, <3>5 DEF NativeInv, UsedInv
    <3>8. UnknownInv'
      BY <3>3, <3>4, <3>5 DEF NativeInv, UnknownInv
    <3> QED BY <3>4, <3>6, <3>7, <3>8 DEF NativeInv
  <2>5. ASSUME NEW U \in SUBSET Ops, CloseDocument(U)
        PROVE  NativeInv'
    <3>1. CancelEffect(OfOwner(Ops, doc) \cap Known, U, FALSE)
      BY <2>5 DEF CloseDocument, RevokeEffect
    <3>2. (OfOwner(Ops, doc) \cap Known) \in SUBSET Known
      BY <2>5 DEF CloseDocument
    <3>3. timedOut' = timedOut /\ used' = used /\ wrong' = wrong /\ files' = files
      BY <2>5 DEF CloseDocument
    <3>4. /\ Bound'
          /\ \A p \in Ops :
              /\ p \in used => native'[p] # "not-dispatched"
              /\ native'[p] \in {"starting", "running", "completed"} => p \in used
              /\ p \notin used \cup denied' => native'[p] \in {"not-dispatched", "confirmed"}
              /\ p \in cancelled' \ used =>
                  p \in denied' /\ native'[p] \in {"confirmed", "unconfirmed"}
              /\ hist[p] = "unknown" =>
                  /\ native'[p] = "not-dispatched"
                  /\ p \notin used \cup wrong \cup denied' \cup cancelled' \cup current'
                  /\ \A G \in lost' : p \notin G
                  /\ \A s \in stops' : p \notin s.ops
      BY <3>1, <3>2, <3>3, CancelKeepsNative DEF NativeInv
    <3>5. /\ pc' \in [Ops -> Places] /\ hist' \in [Ops -> {"unknown", "known", "retired"}]
          /\ quit' \notin {"draining", "done"} \/ quit' = quit
          /\ \A p \in Ops :
              /\ hist'[p] = "unknown" => hist[p] = "unknown"
              /\ (hist[p] = "known") <=> (hist'[p] = "known")
              /\ \/ pc'[p] = pc[p]
                 \/ /\ hist[p] = "known" /\ pc'[p] \in {"joining", "catchjoin"}
                    /\ pc[p] \notin {"idle", "over"}
      BY <2>5
      DEF Shape, RestShape, CloseDocument, quitVars
    <3>6. PlaceInv'
      BY <3>5 DEF NativeInv, PlaceInv
    <3>7. UsedInv'
      BY <3>3, <3>4, <3>5 DEF NativeInv, UsedInv
    <3>8. UnknownInv'
      BY <3>3, <3>4, <3>5 DEF NativeInv, UnknownInv
    <3> QED BY <3>4, <3>6, <3>7, <3>8 DEF NativeInv
  <2>6. ASSUME NEW U \in SUBSET Ops, Quit(U)
        PROVE  NativeInv'
    <3>1. CancelEffect(Ops \cap Known, U, TRUE)
      BY <2>6 DEF Quit, RevokeEffect
    <3>2. (Ops \cap Known) \in SUBSET Known
      BY <2>6 DEF Quit
    <3>3. timedOut' = timedOut /\ used' = used /\ wrong' = wrong /\ files' = files
      BY <2>6 DEF Quit
    <3>4. /\ Bound'
          /\ \A p \in Ops :
              /\ p \in used => native'[p] # "not-dispatched"
              /\ native'[p] \in {"starting", "running", "completed"} => p \in used
              /\ p \notin used \cup denied' => native'[p] \in {"not-dispatched", "confirmed"}
              /\ p \in cancelled' \ used =>
                  p \in denied' /\ native'[p] \in {"confirmed", "unconfirmed"}
              /\ hist[p] = "unknown" =>
                  /\ native'[p] = "not-dispatched"
                  /\ p \notin used \cup wrong \cup denied' \cup cancelled' \cup current'
                  /\ \A G \in lost' : p \notin G
                  /\ \A s \in stops' : p \notin s.ops
      BY <3>1, <3>2, <3>3, CancelKeepsNative DEF NativeInv
    <3>5. /\ pc' \in [Ops -> Places] /\ hist' \in [Ops -> {"unknown", "known", "retired"}]
          /\ quit' \notin {"draining", "done"} \/ quit' = quit
          /\ \A p \in Ops :
              /\ hist'[p] = "unknown" => hist[p] = "unknown"
              /\ (hist[p] = "known") <=> (hist'[p] = "known")
              /\ \/ pc'[p] = pc[p]
                 \/ /\ hist[p] = "known" /\ pc'[p] \in {"joining", "catchjoin"}
                    /\ pc[p] \notin {"idle", "over"}
      BY <2>6 DEF Shape, RestShape, Quit
    <3>6. PlaceInv'
      BY <3>5 DEF NativeInv, PlaceInv
    <3>7. UsedInv'
      BY <3>3, <3>4, <3>5 DEF NativeInv, UsedInv
    <3>8. UnknownInv'
      BY <3>3, <3>4, <3>5 DEF NativeInv, UnknownInv
    <3> QED BY <3>4, <3>6, <3>7, <3>8 DEF NativeInv
  <2>7. ASSUME NEW w \in Owners, OpenDocument(w)
        PROVE  NativeInv'
    BY <2>7, BoundStays
    DEF OpenDocument, NativeInv, PlaceInv, UsedInv, UnknownInv, ledgerVars, nativeVars,
        taskVars, quitVars
  <2>8. ASSUME NEW o \in Ops, DirectoryReady(o)
        PROVE  NativeInv'
    BY <2>8, BoundStays
    DEF DirectoryReady, NativeInv, PlaceInv, UsedInv, UnknownInv, ledgerVars, nativeVars,
        quitVars, At, Goes
  <2>9. ASSUME NEW o \in Ops, DirectoryFails(o)
        PROVE  NativeInv'
    BY <2>9, BoundStays
    DEF DirectoryFails, NativeInv, PlaceInv, UsedInv, UnknownInv, ledgerVars, nativeVars,
        quitVars, At, Goes
  <2>10. ASSUME NEW o \in Ops, Submit(o)
        PROVE  NativeInv'
    <3>1. PlaceInv'
      BY <2>10
      DEF NativeInv, PlaceInv, Submit, quitVars, At, Goes, RequestEffect
    <3>2. UsedInv'
      BY <2>10
      DEF Shape, NativeShape, RestShape, NativeInv, UsedInv, Bound, Submit, Goes, RequestEffect,
          Permitted
    <3>3. UnknownInv'
      BY <2>10
      DEF NativeInv, PlaceInv, UnknownInv, Submit, At, RequestEffect
    <3>4. Bound'
      BY <2>10
      DEF NativeInv, Bound, CurrentInv, LostInv, StopsInv, Apart, Submit, RequestEffect
    <3> QED BY <3>1, <3>2, <3>3, <3>4 DEF NativeInv
  <2>11. ASSUME NEW o \in Ops, WriteFails(o)
        PROVE  NativeInv'
    BY <2>11, BoundStays
    DEF WriteFails, NativeInv, PlaceInv, UsedInv, UnknownInv, nativeVars, quitVars, At, Goes
  <2>12. ASSUME NEW o \in Ops, TtsReturns(o)
        PROVE  NativeInv'
    BY <2>12, BoundStays
    DEF TtsReturns, NativeInv, PlaceInv, UsedInv, UnknownInv, ledgerVars, nativeVars, quitVars,
        At, Goes
  <2>13. ASSUME NEW o \in Ops, SttReturns(o)
        PROVE  NativeInv'
    BY <2>13, BoundStays
    DEF SttReturns, NativeInv, PlaceInv, UsedInv, UnknownInv, nativeVars, quitVars, At, Goes
  <2>14. ASSUME NEW o \in Ops, SttHeld(o)
        PROVE  NativeInv'
    BY <2>14, BoundStays
    DEF SttHeld, NativeInv, PlaceInv, UsedInv, UnknownInv, nativeVars, quitVars, At, Goes
  <2>15. ASSUME NEW o \in Ops, NEW U \in SUBSET Ops, SttJoins(o, U)
        PROVE  NativeInv'
    <3>1. CancelEffect({o}, U, FALSE)
      BY <2>15 DEF SttJoins, Cancelling
    <3>2. ({o}) \in SUBSET Known
      BY <2>15 DEF Known, NativeInv, PlaceInv, At, SttJoins
    <3>3. timedOut' = timedOut /\ used' = used /\ wrong' = wrong /\ files' = files
      BY <2>15 DEF SttJoins
    <3>4. /\ Bound'
          /\ \A p \in Ops :
              /\ p \in used => native'[p] # "not-dispatched"
              /\ native'[p] \in {"starting", "running", "completed"} => p \in used
              /\ p \notin used \cup denied' => native'[p] \in {"not-dispatched", "confirmed"}
              /\ p \in cancelled' \ used =>
                  p \in denied' /\ native'[p] \in {"confirmed", "unconfirmed"}
              /\ hist[p] = "unknown" =>
                  /\ native'[p] = "not-dispatched"
                  /\ p \notin used \cup wrong \cup denied' \cup cancelled' \cup current'
                  /\ \A G \in lost' : p \notin G
                  /\ \A s \in stops' : p \notin s.ops
      BY <3>1, <3>2, <3>3, CancelKeepsNative DEF NativeInv
    <3>5. /\ pc' \in [Ops -> Places] /\ hist' \in [Ops -> {"unknown", "known", "retired"}]
          /\ quit' \notin {"draining", "done"} \/ quit' = quit
          /\ \A p \in Ops :
              /\ hist'[p] = "unknown" => hist[p] = "unknown"
              /\ (hist[p] = "known") <=> (hist'[p] = "known")
              /\ \/ pc'[p] = pc[p]
                 \/ /\ hist[p] = "known" /\ pc'[p] \in {"joining", "catchjoin"}
                    /\ pc[p] \notin {"idle", "over"}
      BY <2>15
      DEF Shape, RestShape, NativeInv, PlaceInv, Places, SttJoins, quitVars, At, Goes
    <3>6. PlaceInv'
      BY <3>5 DEF NativeInv, PlaceInv
    <3>7. UsedInv'
      BY <3>3, <3>4, <3>5 DEF NativeInv, UsedInv
    <3>8. UnknownInv'
      BY <3>3, <3>4, <3>5 DEF NativeInv, UnknownInv
    <3> QED BY <3>4, <3>6, <3>7, <3>8 DEF NativeInv
  <2>16. ASSUME NEW o \in Ops, NEW U \in SUBSET Ops, CatchCancels(o, U)
        PROVE  NativeInv'
    <3>1. CancelEffect({o}, U, FALSE)
      BY <2>16 DEF CatchCancels, Cancelling
    <3>2. ({o}) \in SUBSET Known
      BY <2>16 DEF Known, NativeInv, PlaceInv, At, CatchCancels
    <3>3. timedOut' = timedOut /\ used' = used /\ wrong' = wrong /\ files' = files
      BY <2>16 DEF CatchCancels
    <3>4. /\ Bound'
          /\ \A p \in Ops :
              /\ p \in used => native'[p] # "not-dispatched"
              /\ native'[p] \in {"starting", "running", "completed"} => p \in used
              /\ p \notin used \cup denied' => native'[p] \in {"not-dispatched", "confirmed"}
              /\ p \in cancelled' \ used =>
                  p \in denied' /\ native'[p] \in {"confirmed", "unconfirmed"}
              /\ hist[p] = "unknown" =>
                  /\ native'[p] = "not-dispatched"
                  /\ p \notin used \cup wrong \cup denied' \cup cancelled' \cup current'
                  /\ \A G \in lost' : p \notin G
                  /\ \A s \in stops' : p \notin s.ops
      BY <3>1, <3>2, <3>3, CancelKeepsNative DEF NativeInv
    <3>5. /\ pc' \in [Ops -> Places] /\ hist' \in [Ops -> {"unknown", "known", "retired"}]
          /\ quit' \notin {"draining", "done"} \/ quit' = quit
          /\ \A p \in Ops :
              /\ hist'[p] = "unknown" => hist[p] = "unknown"
              /\ (hist[p] = "known") <=> (hist'[p] = "known")
              /\ \/ pc'[p] = pc[p]
                 \/ /\ hist[p] = "known" /\ pc'[p] \in {"joining", "catchjoin"}
                    /\ pc[p] \notin {"idle", "over"}
      BY <2>16
      DEF Shape, RestShape, NativeInv, PlaceInv, Places, CatchCancels, quitVars, At, Goes
    <3>6. PlaceInv'
      BY <3>5 DEF NativeInv, PlaceInv
    <3>7. UsedInv'
      BY <3>3, <3>4, <3>5 DEF NativeInv, UsedInv
    <3>8. UnknownInv'
      BY <3>3, <3>4, <3>5 DEF NativeInv, UnknownInv
    <3> QED BY <3>4, <3>6, <3>7, <3>8 DEF NativeInv
  <2>17. ASSUME NEW o \in Ops, Joined(o)
        PROVE  NativeInv'
    BY <2>17, BoundStays
    DEF Joined, NativeInv, PlaceInv, UsedInv, UnknownInv, nativeVars, quitVars, At, Goes
  <2>18. ASSUME NEW o \in Ops, JoinedInVain(o)
        PROVE  NativeInv'
    BY <2>18, BoundStays
    DEF JoinedInVain, NativeInv, PlaceInv, UsedInv, UnknownInv, nativeVars, quitVars, At, Goes
  <2>19. ASSUME NEW o \in Ops, FinalStopSeen(o)
        PROVE  NativeInv'
    BY <2>19, BoundStays
    DEF FinalStopSeen, NativeInv, PlaceInv, UsedInv, UnknownInv, nativeVars, quitVars, At, Goes
  <2>20. ASSUME NEW o \in Ops, RemoveInput(o)
        PROVE  NativeInv'
    BY <2>20, BoundStays
    DEF RemoveInput, NativeInv, PlaceInv, UsedInv, UnknownInv, ledgerVars, nativeVars, quitVars,
        At, Goes
  <2>21. ASSUME NEW o \in Ops, RemoveInputFails(o)
        PROVE  NativeInv'
    BY <2>21, BoundStays
    DEF RemoveInputFails, NativeInv, PlaceInv, UsedInv, UnknownInv, ledgerVars, nativeVars,
        quitVars, At, Goes
  <2>22. ASSUME NEW o \in Ops, Deliver(o)
        PROVE  NativeInv'
    <3>0. /\ pc' = [pc EXCEPT ![o] = "over"] /\ hist' \in [Ops -> {"unknown", "known", "retired"}]
          /\ hist'[o] \in {hist[o], "retired"}
          /\ \A p \in Ops : p # o => hist'[p] = hist[p]
      BY <2>22, EndTaskFrame DEF Deliver
    <3>1. PlaceInv'
      BY <2>22, <3>0
      DEF Shape, RestShape, NativeInv, PlaceInv, Deliver, quitVars, At
    <3>2. UsedInv'
      BY <2>22, <3>0
      DEF NativeInv, UsedInv, Bound, Deliver, nativeVars
    <3>3. UnknownInv'
      BY <2>22, <3>0
      DEF NativeInv, UnknownInv, Deliver, nativeVars
    <3>4. Bound'
      BY <2>22, <3>0
      DEF NativeInv, Bound, CurrentInv, LostInv, StopsInv, Apart, Deliver, nativeVars
    <3> QED BY <3>1, <3>2, <3>3, <3>4 DEF NativeInv
  <2>23. ASSUME NEW o \in Ops, TooLate(o)
        PROVE  NativeInv'
    BY <2>23, BoundStays
    DEF TooLate, NativeInv, PlaceInv, UsedInv, UnknownInv, nativeVars, quitVars, At, Goes
  <2>24. ASSUME NEW o \in Ops, GiveUp(o)
        PROVE  NativeInv'
    <3>0. /\ pc' = [pc EXCEPT ![o] = "over"] /\ hist' \in [Ops -> {"unknown", "known", "retired"}]
          /\ hist'[o] \in {hist[o], "retired"}
          /\ \A p \in Ops : p # o => hist'[p] = hist[p]
      BY <2>24, EndTaskFrame DEF GiveUp
    <3>1. PlaceInv'
      BY <2>24, <3>0
      DEF Shape, RestShape, NativeInv, PlaceInv, GiveUp, quitVars, At
    <3>2. UsedInv'
      BY <2>24, <3>0
      DEF NativeInv, UsedInv, Bound, GiveUp, nativeVars
    <3>3. UnknownInv'
      BY <2>24, <3>0
      DEF NativeInv, UnknownInv, GiveUp, nativeVars
    <3>4. Bound'
      BY <2>24, <3>0
      DEF NativeInv, Bound, CurrentInv, LostInv, StopsInv, Apart, GiveUp, nativeVars
    <3> QED BY <3>1, <3>2, <3>3, <3>4 DEF NativeInv
  <2>25. ASSUME NEW o \in Ops, Dispatch(o)
        PROVE  NativeInv'
    <3>1. PlaceInv'
      BY <2>25
      DEF NativeInv, PlaceInv, Dispatch, taskVars, quitVars
    <3>2. UsedInv'
      BY <2>25
      DEF NativeInv, UsedInv, Bound, Dispatch, taskVars
    <3>3. UnknownInv'
      BY <2>25
      DEF NativeInv, UnknownInv, Dispatch, taskVars
    <3>4. Bound'
      BY <2>25
      DEF NativeInv, Bound, CurrentInv, LostInv, StopsInv, Apart, Dispatch, Permitted
    <3> QED BY <3>1, <3>2, <3>3, <3>4 DEF NativeInv
  <2>26. ASSUME NEW o \in Ops, Timeout(o)
        PROVE  NativeInv'
    <3>1. CancelEffect({}, {}, TRUE)
      BY <2>26 DEF Timeout, Cancelling
    <3>2. ({}) \in SUBSET Known
      BY <2>26 DEF Timeout
    <3>3. /\ timedOut' = timedOut \cup {o} /\ native[o] = "running"
          /\ used' = used /\ wrong' = wrong /\ files' = files
      BY <2>26 DEF Timeout
    <3>4. /\ Bound'
          /\ \A p \in Ops :
              /\ p \in used => native'[p] # "not-dispatched"
              /\ native'[p] \in {"starting", "running", "completed"} => p \in used
              /\ p \notin used \cup denied' => native'[p] \in {"not-dispatched", "confirmed"}
              /\ p \in cancelled' \ used =>
                  p \in denied' /\ native'[p] \in {"confirmed", "unconfirmed"}
              /\ hist[p] = "unknown" =>
                  /\ native'[p] = "not-dispatched"
                  /\ p \notin used \cup wrong \cup denied' \cup cancelled' \cup current'
                  /\ \A G \in lost' : p \notin G
                  /\ \A s \in stops' : p \notin s.ops
      BY <3>1, <3>2, <3>3, CancelKeepsNative DEF NativeInv
    <3>5. /\ pc' \in [Ops -> Places] /\ hist' \in [Ops -> {"unknown", "known", "retired"}]
          /\ quit' \notin {"draining", "done"} \/ quit' = quit
          /\ \A p \in Ops :
              /\ hist'[p] = "unknown" => hist[p] = "unknown"
              /\ (hist[p] = "known") <=> (hist'[p] = "known")
              /\ \/ pc'[p] = pc[p]
                 \/ /\ hist[p] = "known" /\ pc'[p] \in {"joining", "catchjoin"}
                    /\ pc[p] \notin {"idle", "over"}
      BY <2>26
      DEF Shape, RestShape, Timeout, quitVars
    <3>6. PlaceInv'
      BY <3>5 DEF NativeInv, PlaceInv
    <3>7. UsedInv'
      BY <3>3, <3>4, <3>5 DEF NativeInv, UsedInv
    <3>8. UnknownInv'
      BY <3>3, <3>4, <3>5 DEF NativeInv, UnknownInv
    <3> QED BY <3>4, <3>6, <3>7, <3>8 DEF NativeInv
  <2>27. ASSUME NEW o \in Ops, NEW b \in BOOLEAN, Complete(o, b)
        PROVE  NativeInv'
    <3>1. PlaceInv'
      BY <2>27
      DEF NativeInv, PlaceInv, Complete, taskVars, quitVars
    <3>2. UsedInv'
      BY <2>27
      DEF NativeInv, UsedInv, Bound, Complete, taskVars
    <3>3. UnknownInv'
      BY <2>27
      DEF NativeInv, UnknownInv, Complete, taskVars
    <3>4. Bound'
      BY <2>27
      DEF NativeInv, Bound, CurrentInv, LostInv, StopsInv, Apart, Complete
    <3> QED BY <3>1, <3>2, <3>3, <3>4 DEF NativeInv
  <2>28. ASSUME StopClient
        PROVE  NativeInv'
    <3>1. CancelEffect({}, {}, TRUE)
      BY <2>28 DEF StopClient, Cancelling
    <3>2. ({}) \in SUBSET Known
      BY <2>28 DEF StopClient
    <3>3. timedOut' = timedOut /\ used' = used /\ wrong' = wrong /\ files' = files
      BY <2>28 DEF StopClient
    <3>4. /\ Bound'
          /\ \A p \in Ops :
              /\ p \in used => native'[p] # "not-dispatched"
              /\ native'[p] \in {"starting", "running", "completed"} => p \in used
              /\ p \notin used \cup denied' => native'[p] \in {"not-dispatched", "confirmed"}
              /\ p \in cancelled' \ used =>
                  p \in denied' /\ native'[p] \in {"confirmed", "unconfirmed"}
              /\ hist[p] = "unknown" =>
                  /\ native'[p] = "not-dispatched"
                  /\ p \notin used \cup wrong \cup denied' \cup cancelled' \cup current'
                  /\ \A G \in lost' : p \notin G
                  /\ \A s \in stops' : p \notin s.ops
      BY <3>1, <3>2, <3>3, CancelKeepsNative DEF NativeInv
    <3>5. /\ pc' \in [Ops -> Places] /\ hist' \in [Ops -> {"unknown", "known", "retired"}]
          /\ quit' \notin {"draining", "done"} \/ quit' = quit
          /\ \A p \in Ops :
              /\ hist'[p] = "unknown" => hist[p] = "unknown"
              /\ (hist[p] = "known") <=> (hist'[p] = "known")
              /\ \/ pc'[p] = pc[p]
                 \/ /\ hist[p] = "known" /\ pc'[p] \in {"joining", "catchjoin"}
                    /\ pc[p] \notin {"idle", "over"}
      BY <2>28
      DEF Shape, RestShape, StopClient, quitVars
    <3>6. PlaceInv'
      BY <3>5 DEF NativeInv, PlaceInv
    <3>7. UsedInv'
      BY <3>3, <3>4, <3>5 DEF NativeInv, UsedInv
    <3>8. UnknownInv'
      BY <3>3, <3>4, <3>5 DEF NativeInv, UnknownInv
    <3> QED BY <3>4, <3>6, <3>7, <3>8 DEF NativeInv
  <2>29. ASSUME NEW s \in stops, StopConfirmed(s)
        PROVE  NativeInv'
    <3>1. PlaceInv'
      BY <2>29
      DEF NativeInv, PlaceInv, StopConfirmed, taskVars, quitVars
    <3>2. UsedInv'
      BY <2>29
      DEF NativeInv, UsedInv, Bound, StopConfirmed, taskVars
    <3>3. UnknownInv'
      BY <2>29
      DEF NativeInv, UnknownInv, StopConfirmed, taskVars
    <3>4. Bound'
      BY <2>29
      DEF Shape, NativeShape, NativeInv, Bound, CurrentInv, LostInv, StopsInv, Apart, StopConfirmed
    <3> QED BY <3>1, <3>2, <3>3, <3>4 DEF NativeInv
  <2>30. ASSUME NEW s \in stops, NEW b \in BOOLEAN, StopUnconfirmed(s, b)
        PROVE  NativeInv'
    <3>1. PlaceInv'
      BY <2>30
      DEF NativeInv, PlaceInv, StopUnconfirmed, taskVars
    <3>2. UsedInv'
      BY <2>30
      DEF NativeInv, UsedInv, Bound, StopsInv, StopUnconfirmed, taskVars
    <3>3. UnknownInv'
      BY <2>30
      DEF NativeInv, UnknownInv, StopUnconfirmed, taskVars
    <3>4. Bound'
      BY <2>30
      DEF Shape, NativeShape, NativeInv, Bound, CurrentInv, LostInv, StopsInv, Apart,
          StopUnconfirmed
    <3> QED BY <3>1, <3>2, <3>3, <3>4 DEF NativeInv
  <2>31. ASSUME IntentLost
        PROVE  NativeInv'
    <3>1. PlaceInv'
      BY <2>31
      DEF NativeInv, PlaceInv, IntentLost, ledgerVars, taskVars, quitVars
    <3>2. UsedInv'
      BY <2>31
      DEF NativeInv, UsedInv, Bound, IntentLost, taskVars
    <3>3. UnknownInv'
      BY <2>31
      DEF NativeInv, UnknownInv, IntentLost, ledgerVars, taskVars, Affected
    <3>4. Bound'
      <4>1. /\ native' = native /\ denied' = denied /\ stops' = stops /\ used' = used
            /\ current' = {} /\ lost' \subseteq lost \cup {Affected}
        BY <2>31 DEF IntentLost
      <4>2. \A p \in Affected : p \in current /\ native[p] \in {"not-dispatched", "starting", "running"}
        BY DEF Affected
      <4>3. Apart'
        BY <4>1, <4>2 DEF NativeInv, Bound, Apart
      <4> QED BY <4>1, <4>2, <4>3 DEF NativeInv, Bound, CurrentInv, LostInv, StopsInv
    <3> QED BY <3>1, <3>2, <3>3, <3>4 DEF NativeInv
  <2>32. ASSUME WindowsExit
        PROVE  NativeInv'
    <3>1. PlaceInv'
      BY <2>32
      DEF NativeInv, PlaceInv, WindowsExit, taskVars, quitVars
    <3>2. UsedInv'
      BY <2>32
      DEF NativeInv, UsedInv, Bound, WindowsExit, taskVars, Affected
    <3>3. UnknownInv'
      BY <2>32
      DEF NativeInv, UnknownInv, WindowsExit, taskVars, Affected
    <3>4. Bound'
      BY <2>32
      DEF Shape, NativeShape, NativeInv, Bound, CurrentInv, LostInv, StopsInv, Apart,
          WindowsExit, Affected
    <3> QED BY <3>1, <3>2, <3>3, <3>4 DEF NativeInv
  <2>33. ASSUME LateExit
        PROVE  NativeInv'
    BY <2>33, BoundStays
    DEF LateExit, NativeInv, PlaceInv, UsedInv, UnknownInv, ledgerVars, taskVars, quitVars
  <2>34. ASSUME FinalStopOk
        PROVE  NativeInv'
    BY <2>34, BoundStays
    DEF FinalStopOk, NativeInv, PlaceInv, UsedInv, UnknownInv, ledgerVars, nativeVars, taskVars
  <2>35. ASSUME FinalStopFails
        PROVE  NativeInv'
    BY <2>35, BoundStays
    DEF FinalStopFails, NativeInv, PlaceInv, UsedInv, UnknownInv, ledgerVars, nativeVars, taskVars
  <2>36. ASSUME TasksSettled
        PROVE  NativeInv'
    BY <2>36, BoundStays
    DEF TasksSettled, NativeInv, PlaceInv, UsedInv, UnknownInv, ledgerVars, nativeVars, taskVars
  <2>37. ASSUME NEW o \in Ops, Drain(o)
        PROVE  NativeInv'
    <3>1. PlaceInv'
      BY <2>37
      DEF NativeInv, PlaceInv, Drain
    <3>2. UsedInv'
      BY <2>37
      DEF NativeInv, UsedInv, Bound, Drain, nativeVars
    <3>3. UnknownInv'
      BY <2>37
      DEF NativeInv, UnknownInv, Drain, nativeVars
    <3>4. Bound'
      BY <2>37
      DEF NativeInv, Bound, CurrentInv, LostInv, StopsInv, Apart, Drain, nativeVars
    <3> QED BY <3>1, <3>2, <3>3, <3>4 DEF NativeInv
  <2>38. ASSUME NEW o \in Ops, DrainFails(o)
        PROVE  NativeInv'
    BY <2>38, BoundStays
    DEF DrainFails, NativeInv, PlaceInv, UsedInv, UnknownInv, ledgerVars, nativeVars, taskVars
  <2>39. ASSUME Drained
        PROVE  NativeInv'
    BY <2>39, BoundStays
    DEF Drained, NativeInv, PlaceInv, UsedInv, UnknownInv, ledgerVars, nativeVars, taskVars
  <2>40. ASSUME QuitDone
        PROVE  NativeInv'
    BY <2>40, BoundStays
    DEF QuitDone, NativeInv, PlaceInv, UsedInv, UnknownInv, ledgerVars, vars, nativeVars, taskVars
  <2>41. QED
    BY <1>1, <2>1, <2>2, <2>3, <2>4, <2>5, <2>6, <2>7, <2>8, <2>9, <2>10, <2>11, <2>12,
       <2>13, <2>14, <2>15, <2>16, <2>17, <2>18, <2>19, <2>20, <2>21, <2>22, <2>23,
       <2>24, <2>25, <2>26, <2>27, <2>28, <2>29, <2>30, <2>31, <2>32, <2>33, <2>34,
       <2>35, <2>36, <2>37, <2>38, <2>39, <2>40
    DEF Next, Request, TaskStep, NativeStep, QuitStep, Ends, Unused, Known
<1>2. CASE UNCHANGED vars
  BY <1>2, BoundStays
  DEF vars, nativeVars, taskVars, quitVars, NativeInv, PlaceInv, UsedInv, UnknownInv, ledgerVars
<1>3. QED BY <1>1, <1>2


---------------------------------------------------------------------------
(* The records and the fault of the domain.                                *)

\* A known record is consistent, follows the native side, and is answered when the domain is
\* fenced or its task over.
RecordInv(o) ==
    /\ Follows(rec[o], native[o])
    /\ rec[o].failure # "none" => rec[o].reply # "none"
    /\ rec[o].reply # "none" => fault # "none" \/ rec[o].revoked \/ pc[o] = "over"
    /\ fault # "none" \/ pc[o] = "over" => rec[o].reply # "none"
    /\ rec[o].status = "unconfirmed" => fault # "none"

RecordsInv ==
    /\ rec \in [Ops -> Records] /\ fault \in Faults \cup {"none"}
    /\ \A o \in Ops : /\ ~rec[o].broken
                      /\ hist[o] = "unknown" => rec[o] = Fresh
                      /\ hist[o] = "known" => RecordInv(o)

\* What a turn may do to the records and the fault, the end of a task and an
\* admission aside.
LedgerTurn ==
    /\ rec' \in [Ops -> Records] /\ fault' \in Faults \cup {"none"}
    /\ fault # "none" => fault' # "none"
    /\ \A o \in Ops :
        /\ ~rec'[o].broken
        /\ hist[o] # "known" => rec'[o] = rec[o]
        /\ hist[o] = "known" =>
            /\ Follows(rec'[o], native'[o]) /\ Evolves(rec[o], rec'[o])
            /\ rec[o].reply = "none" /\ rec'[o].reply # "none" =>
                 rec'[o].reply \in Codes /\ (fault' # "none" \/ rec'[o].revoked)
            /\ rec'[o].failure # "none" => rec'[o].reply # "none"
            /\ fault' # "none" => rec'[o].reply # "none"
            /\ rec'[o].status = "unconfirmed" => fault' # "none"

\* ... to the memory of the ledger and to the tasks.
MemoryTurn ==
    \A o \in Ops : /\ hist'[o] \in {hist[o], "retired"}
                   /\ hist[o] = "known" /\ hist'[o] # "known" => pc[o] = "over"
                   /\ pc[o] = "over" => pc'[o] = "over"
                   /\ hist[o] = "known" /\ pc'[o] = "over" =>
                        pc[o] = "over" \/ rec'[o].reply # "none"

\* The records with which a handler enters a turn that answers A.
Enters(R, A) ==
    /\ R \in [Ops -> Records]
    /\ \A o \in Ops :
        /\ ~R[o].broken
        /\ hist[o] # "known" => R[o] = rec[o]
        /\ hist[o] = "known" =>
            /\ Consistent(R[o]) /\ Evolves(rec[o], R[o])
            /\ R[o].status = rec[o].status /\ R[o].failure = rec[o].failure
            /\ R[o].reply = rec[o].reply
            /\ o \in A => R[o].revoked

\* How the native side may move under the fault f, heard by C.
Moves(f, C) ==
    \A o \in Ops : hist[o] = "known" =>
        /\ o \notin C => Behind(native[o], native'[o])
        /\ \/ native'[o] = native[o]
           \/ /\ native'[o] = "starting" /\ native[o] \in {"not-dispatched", "confirmed"}
              /\ f = "none" /\ ~rec[o].revoked /\ pc[o] # "over"
           \/ native'[o] = "running" /\ native[o] = "starting"
           \/ native'[o] = "stopping" /\ native[o] \in {"not-dispatched", "starting", "running"}
           \/ native'[o] = "completed" /\ native[o] = "running"
           \/ native'[o] = "confirmed" /\ native[o] # "unconfirmed"
           \/ native'[o] = "unconfirmed"

\* A reaction to a change of the native side is a turn of the ledger.
LEMMA ReactTurns ==
    ASSUME Shape, Shape', RecordsInv, NEW R, NEW f \in Faults \cup {"none"}, NEW N, NEW C, NEW A,
           NEW broke, React(R, f, N, C, A, broke),
           Enters(R, A), Moves(f, C), fault # "none" => f # "none",
           \A o \in Ops : hist[o] = "known" => N[o] \in {native[o], native'[o]}
    PROVE  LedgerTurn
<1>1. TurnReady(R, f, N, C)
  <2>1. ASSUME NEW o \in Ops, hist[o] = "known"
        PROVE  /\ Consistent(R[o]) /\ May(R[o], native'[o])
               /\ N[o] \in {R[o].status, native'[o]}
               /\ o \notin C => Behind(R[o].status, native'[o])
               /\ f # "none" /\ native'[o] = "starting" => R[o].status = "starting"
               /\ R[o].failure # "none" => R[o].reply # "none"
    <3>1. /\ Consistent(R[o]) /\ Behind(R[o].status, native[o])
          /\ R[o].failure = rec[o].failure /\ R[o].reply = rec[o].reply
      BY <2>1 DEF Enters, RecordsInv, RecordInv, Follows
    <3>2. /\ rec[o].failure # "none" => rec[o].reply # "none"
          /\ rec[o].reply # "none" => fault # "none" \/ rec[o].revoked \/ pc[o] = "over"
      BY <2>1 DEF RecordsInv, RecordInv
    <3>3. May(R[o], native'[o]) /\ (o \notin C => Behind(R[o].status, native'[o]))
      BY <2>1, <3>1, <3>2 DEF Moves, May, Behind
    <3>4. N[o] \in {R[o].status, native'[o]}
      BY <2>1, <3>1 DEF Moves, Behind
    <3> QED BY <2>1, <3>1, <3>2, <3>3, <3>4 DEF Moves, Behind
  <2> QED BY <2>1 DEF TurnReady, Enters, Shape, NativeShape, RecordsInv
<1>2. TurnDone(R, f, C, A)
  BY <1>1, ReactSound
<1>3. ASSUME NEW o \in Ops, hist[o] = "known"
      PROVE  /\ Evolves(rec[o], rec'[o])
             /\ rec[o].reply = "none" /\ rec'[o].reply # "none" =>
                 rec'[o].reply \in Codes /\ (fault' # "none" \/ rec'[o].revoked)
             /\ rec'[o].status = "unconfirmed" => fault' # "none"
  <2>1. /\ rec[o] \in Records /\ R[o] \in Records /\ rec'[o] \in Records
        /\ Evolves(rec[o], R[o]) /\ Evolves(R[o], rec'[o])
    BY <1>2, <1>3 DEF RecordsInv, Enters, TurnDone
  <2>2. Evolves(rec[o], rec'[o])
    BY <2>1, EvolvesTransitive
  <2>3. o \in A => rec'[o].revoked
    BY <2>1, <1>3 DEF Enters, Evolves
  <2>4. rec'[o].status = "unconfirmed" => fault' # "none"
    <3>1. R[o].status = "unconfirmed" => fault # "none"
      BY <1>3 DEF Enters, RecordsInv, RecordInv
    <3> QED BY <1>2, <1>3, <3>1 DEF TurnDone
  <2> QED BY <1>2, <1>3, <2>2, <2>3, <2>4 DEF TurnDone, Enters
<1>4. ASSUME NEW o \in Ops, hist[o] # "known" PROVE rec'[o] = rec[o]
  BY <1>2, <1>4 DEF TurnDone, Enters
<1> QED BY <1>2, <1>3, <1>4 DEF TurnDone, LedgerTurn

LEMMA RecordsEnter == ASSUME RecordsInv PROVE Enters(rec, {})
BY EvolvesReflexive DEF RecordsInv, RecordInv, Follows, Enters

\* A revocation marks records that stay consistent.
LEMMA MarkedEnter ==
    ASSUME RecordsInv, NEW S \in SUBSET Ops
    PROVE  Enters(Marked(S), S \cap Known)
<1>1. ASSUME NEW o \in Ops
      PROVE  /\ Marked(S)[o] \in Records /\ ~Marked(S)[o].broken
             /\ hist[o] # "known" => Marked(S)[o] = rec[o]
             /\ hist[o] = "known" =>
                 /\ Consistent(Marked(S)[o]) /\ Evolves(rec[o], Marked(S)[o])
                 /\ Marked(S)[o].status = rec[o].status /\ Marked(S)[o].failure = rec[o].failure
                 /\ Marked(S)[o].reply = rec[o].reply
                 /\ o \in S => Marked(S)[o].revoked
  <2>1. rec[o] \in Records /\ ~rec[o].broken /\ (hist[o] = "known" => Consistent(rec[o]))
    BY DEF RecordsInv, RecordInv, Follows
  <2>2. CASE o \in S /\ hist[o] = "known" /\ ~rec[o].revoked
    <3>1. Marked(S)[o] = [rec[o] EXCEPT !.revoked = TRUE, !.rev = rec[o].rev + 1]
      BY <2>2 DEF Marked
    <3>2. /\ Marked(S)[o] \in Records /\ Marked(S)[o].rev = rec[o].rev + 1
          /\ Marked(S)[o].revoked = TRUE /\ rec[o].rev \in Nat
      <4>1. rec[o].rev + 1 \in Nat /\ rec[o].rev \in Nat
        BY <2>1 DEF Records
      <4>2. Marked(S)[o] \in Records
        BY <2>1, <3>1, <4>1 DEF Records
      <4>3. Marked(S)[o].rev = rec[o].rev + 1 /\ Marked(S)[o].revoked = TRUE
        BY <2>1, <3>1 DEF Records
      <4> QED BY <4>1, <4>2, <4>3
    <3>3. /\ Marked(S)[o].status = rec[o].status /\ Marked(S)[o].failure = rec[o].failure
          /\ Marked(S)[o].reply = rec[o].reply /\ Marked(S)[o].logical = rec[o].logical
          /\ Marked(S)[o].cleanup = rec[o].cleanup /\ Marked(S)[o].broken = rec[o].broken
      BY <2>1, <3>1 DEF Records
    <3>4. Consistent(Marked(S)[o])
      BY <2>1, <2>2, <3>3 DEF Consistent
    <3>5. Evolves(rec[o], Marked(S)[o])
      <4>1. Marked(S)[o].rev > rec[o].rev
        BY <3>2
      <4>2. Marked(S)[o].rev >= rec[o].rev /\ Marked(S)[o].rev # rec[o].rev
        BY <3>2, <4>1
      <4> QED BY <3>2, <3>3, <4>2 DEF Evolves
    <3> QED BY <2>1, <2>2, <3>2, <3>3, <3>4, <3>5
  <2>3. CASE ~(o \in S /\ hist[o] = "known" /\ ~rec[o].revoked)
    <3>1. Marked(S)[o] = rec[o]
      BY <2>3 DEF Marked
    <3> QED BY <2>1, <2>3, <3>1, EvolvesReflexive
  <2> QED BY <2>2, <2>3
<1>2. Marked(S) = [o \in Ops |-> Marked(S)[o]]
  BY DEF Marked
<1>3. Marked(S) \in [Ops -> Records]
  BY <1>1, <1>2
<1> QED BY <1>1, <1>3 DEF Enters

\* Nothing is heard and nothing of the native side changes.
LEMMA Silence ==
    ASSUME RecordsInv, rec' = rec, fault' = fault, native' = native
    PROVE  LedgerTurn
<1>1. ASSUME NEW o \in Ops
      PROVE  rec[o] \in Records /\ Evolves(rec[o], rec[o])
  BY EvolvesReflexive DEF RecordsInv
<1> QED BY <1>1 DEF RecordsInv, RecordInv, LedgerTurn

\* A turn keeps the records, and the fault, sound.
LEMMA TurnKeepsRecords ==
    ASSUME Shape, Shape', RecordsInv, LedgerTurn, MemoryTurn
    PROVE  RecordsInv'
<1>1. ASSUME NEW o \in Ops, hist'[o] = "known" PROVE RecordInv(o)'
  <2>1. /\ hist[o] = "known" /\ (pc[o] = "over" => pc'[o] = "over")
        /\ pc'[o] = "over" => pc[o] = "over" \/ rec'[o].reply # "none"
    BY <1>1 DEF MemoryTurn
  <2>2. rec[o] \in Records /\ rec'[o] \in Records /\ Evolves(rec[o], rec'[o])
    BY <2>1 DEF RecordsInv, LedgerTurn
  <2>3. rec'[o].reply # "none" => fault' # "none" \/ rec'[o].revoked \/ pc'[o] = "over"
    BY <2>1, <2>2 DEF RecordsInv, RecordInv, LedgerTurn, Evolves
  <2>4. pc'[o] = "over" => rec'[o].reply # "none"
    BY <2>1, <2>2 DEF RecordsInv, RecordInv, Evolves
  <2> QED BY <2>1, <2>3, <2>4 DEF LedgerTurn, RecordInv
<1>2. ASSUME NEW o \in Ops, hist'[o] = "unknown" PROVE rec'[o] = Fresh
  BY <1>2 DEF MemoryTurn, RecordsInv, LedgerTurn
<1> QED BY <1>1, <1>2 DEF RecordsInv, LedgerTurn
\* A native receipt that is heard is a turn.
LEMMA HeardTurns ==
    ASSUME Shape, Shape', RecordsInv, NEW C, Heard(C), Moves(fault, C)
    PROVE  LedgerTurn
<1>1. React(rec, fault, native, C, {}, FALSE)
  BY DEF Heard
<1>2. fault \in Faults \cup {"none"} /\ Enters(rec, {})
  BY RecordsEnter DEF RecordsInv
<1> QED BY <1>1, <1>2, ReactTurns

\* An admission beyond the quota fences the domain in a turn.
LEMMA NotifiedTurns ==
    ASSUME Shape, RecordsInv, fault = "none", native' = native, fault' = "quota-exceeded",
           rec' = Notified(rec, native, "quota-exceeded")
    PROVE  LedgerTurn
<1>1. ASSUME NEW o \in Ops
      PROVE  /\ rec'[o] \in Records /\ ~rec'[o].broken
             /\ hist[o] # "known" => rec'[o] = rec[o]
             /\ hist[o] = "known" =>
                 /\ Follows(rec'[o], native'[o]) /\ Evolves(rec[o], rec'[o])
                 /\ rec[o].reply = "none" => rec'[o].reply \in Codes
                 /\ rec'[o].reply # "none"
  <2>1. rec[o] \in Records /\ ~rec[o].broken /\ native[o] \in Statuses
        /\ (hist[o] = "known" => Follows(rec[o], native[o]))
    BY DEF RecordsInv, RecordInv, Shape, NativeShape
  <2>2. PICK ok \in BOOLEAN : ok = IsAllowed(o)'
    BY DEF IsAllowed
  <2>3. CASE hist[o] = "known" /\ rec[o].reply = "none"
    <3>1. rec'[o] = FailReplied(o, rec[o], native[o], "quota-exceeded", ok)
      BY <2>2, <2>3 DEF Notified
    <3>2. May(rec[o], native[o]) /\ Consistent(rec[o]) /\ "quota-exceeded" \in Faults \cup {"none"}
      BY <2>1, <2>3 DEF May, Follows, Behind, Faults
    <3>3. Tracks(rec'[o], native[o]) /\ Evolves(rec[o], rec'[o]) /\ rec'[o].reply # "none"
          /\ rec'[o].reply \in Codes
      BY <2>1, <2>3, <3>1, <3>2, FailReplies
    <3> QED BY <2>3, <3>3 DEF Tracks, Follows, Behind, Consistent
  <2>4. CASE ~(hist[o] = "known" /\ rec[o].reply = "none")
    <3>1. rec'[o] = rec[o]
      BY <2>4 DEF Notified
    <3> QED BY <2>1, <2>4, <3>1, EvolvesReflexive
  <2> QED BY <2>3, <2>4
<1>2. rec' = [o \in Ops |-> rec'[o]]
  BY DEF Notified
<1>3. rec' \in [Ops -> Records]
  BY <1>1, <1>2
<1> QED BY <1>1, <1>3 DEF LedgerTurn, Faults

\* A cancellation moves the native side only as a record may hear of it.
LEMMA CancelMoves ==
    ASSUME Shape, NEW S \in SUBSET Ops, NEW U, NEW halt, CancelEffect(S, U, halt), NEW f
    PROVE  Moves(f, Touched(S, halt))
<1> SUFFICES ASSUME NEW o \in Ops
             PROVE  \/ native'[o] = native[o]
                    \/ /\ o \in Touched(S, halt)
                       /\ \/ /\ native'[o] = "stopping"
                             /\ native[o] \in {"not-dispatched", "starting", "running"}
                          \/ native'[o] = "confirmed" /\ native[o] # "unconfirmed"
  BY DEF Moves, Behind
<1>1. native'[o] = IF o \in Unused(S) THEN "confirmed"
                  ELSE IF o \in (Working(S) \cap UNION lost) \cup
                                (IF StopsIntent(S, halt) THEN Affected \ U ELSE {})
                    THEN "stopping"
                  ELSE native[o]
  BY DEF CancelEffect
<1>2. o \in Unused(S) => native[o] \in {"not-dispatched", "stopping"}
  BY DEF Unused
<1>3. o \in Working(S) => native[o] \in {"starting", "running"}
  BY DEF Working
<1>4. o \in Affected => native[o] \in {"not-dispatched", "starting", "running"}
  BY DEF Affected
<1> QED BY <1>1, <1>2, <1>3, <1>4 DEF Touched

\* A cancellation, with the ledger's reaction to it, is a turn.
LEMMA CancelTurns ==
    ASSUME Shape, Shape', RecordsInv, NEW S \in SUBSET Ops, NEW U, NEW halt, NEW R, NEW A,
           NEW f \in Faults \cup {"none"}, CancelEffect(S, U, halt), Enters(R, A),
           React(R, f, native, Touched(S, halt), A, RefusedOf(S) # {}),
           fault # "none" => f # "none"
    PROVE  LedgerTurn
<1>1. Moves(f, Touched(S, halt))
  BY CancelMoves
<1> DEFINE broke == RefusedOf(S) # {}
<1>2. React(R, f, native, Touched(S, halt), A, broke)
  OBVIOUS
<1> HIDE DEF broke
<1> QED BY <1>1, <1>2, ReactTurns

\* A step of the ledger that neither admits an operation nor ends its task.
Turns == LedgerTurn /\ MemoryTurn

\* The ledger has heard all there is to hear of o.
Informed(o) == rec[o].status = native[o]

\* The steps that do.
AdmitsOrEnds ==
    \E o \in Ops : \/ \E v \in BOOLEAN : Admit(o, v)
                   \/ Deliver(o)
                   \/ GiveUp(o) /\ Informed(o)

\* A task that gives up before the ledger has heard of the stop that took it down: its
\* own producer() fences the domain, which answers everybody.
LEMMA LateGiveUpTurns ==
    ASSUME Shape, NativeInv, RecordsInv, NEW o \in Ops, GiveUp(o), ~Informed(o)
    PROVE  Turns
<1> DEFINE R2 == [rec EXCEPT ![o] = IF hist[o] = "known" THEN Produced(@, native[o]) ELSE @]
           f2 == FaultAfter(fault, R2, {o}, native)
           released == ~TRUE \/ files[o] \in {"none", "removed"}
           r3 == IF hist[o] = "known"
                   THEN Finished(o, R2[o], native[o], TRUE, released, f2, IsAllowed(o))
                   ELSE R2[o]
           R3 == [R2 EXCEPT ![o] = r3]
<1>1. /\ pc[o] # "over" /\ hist[o] = "known" /\ native' = native
      /\ native[o] = "unconfirmed" /\ rec[o].status = "confirmed"
      /\ rec[o] \in Records /\ Consistent(rec[o]) /\ ~rec[o].broken
      /\ rec \in [Ops -> Records] /\ fault \in Faults \cup {"none"}
  BY DEF GiveUp, At, NativeInv, PlaceInv, nativeVars, Informed, RecordsInv, RecordInv, Follows,
         Behind
<1>2. /\ fault' = FaultAfter(f2, R3, {}, native) /\ rec' = Notified(R3, native, fault')
      /\ pc' = [pc EXCEPT ![o] = "over"]
      /\ hist' = [hist EXCEPT ![o] = IF Retires(o, r3) THEN "retired" ELSE @]
  <2>0. EndTask(o, TRUE)
    BY DEF GiveUp
  <2>1. fault' = FaultAfter(f2, R3, {}, native)
    BY <2>0 DEF EndTask
  <2>2. rec' = Notified(R3, native, fault')
    BY <2>0 DEF EndTask
  <2>3. pc' = [pc EXCEPT ![o] = "over"]
    BY <2>0 DEF EndTask
  <2>4. hist' = [hist EXCEPT ![o] = IF Retires(o, r3) THEN "retired" ELSE @]
    <3>1. \E r : r = r3 /\ hist' = [hist EXCEPT ![o] = IF Retires(o, r) THEN "retired" ELSE @]
      BY <2>0 DEF EndTask
    <3> HIDE DEF r3
    <3> QED BY <3>1
  <2> QED BY <2>1, <2>2, <2>3, <2>4
<1> DEFINE q == Produced(rec[o], "unconfirmed")
<1>3. /\ q \in Records /\ Consistent(q) /\ q.status = "unconfirmed" /\ q.reply = rec[o].reply
      /\ Evolves(rec[o], q)
  BY <1>1, MayProduce DEF May, Statuses
<1>4. R2 = [rec EXCEPT ![o] = q] /\ R2[o] = q
  <2> HIDE DEF q
  <2>1. Produced(rec[o], native[o]) = q
    BY <1>1 DEF q
  <2> QED BY <1>1, <2>1
<1>5. f2 \in Faults /\ (fault # "none" => f2 = fault) /\ fault' = f2
  <2>1. f2 \in Faults /\ (fault # "none" => f2 = fault)
    <3> HIDE DEF R2
    <3> QED BY <1>1 DEF FaultAfter, Faults
  <2>2. f2 # "none"
    BY <2>1 DEF Faults
  <2> HIDE DEF f2, R3
  <2> QED BY <1>2, <2>1, <2>2 DEF FaultAfter
<1>6. FinishSound(o, q, released, f2, r3)
  <2> HIDE DEF q, R2, f2, released
  <2>1. PICK ok \in BOOLEAN : ok = IsAllowed(o)
    BY DEF IsAllowed
  <2>2. PICK rel \in BOOLEAN : rel = released
    BY DEF released
  <2>3. r3 = Finished(o, q, q.status, TRUE, rel, f2, ok)
    BY <1>1, <1>3, <1>4, <2>1, <2>2
  <2> HIDE DEF r3
  <2> QED BY <1>3, <1>5, <2>2, <2>3, FinishFails
<1> HIDE DEF R2, f2, released, r3, R3, q
<1>7. /\ r3 \in Records /\ Consistent(r3) /\ r3.status = "unconfirmed" /\ Evolves(rec[o], r3)
      /\ r3.reply # "none" /\ (rec[o].reply = "none" => r3.reply \in Codes)
  <2>1. /\ r3 \in Records /\ Consistent(r3) /\ r3.status = "unconfirmed" /\ Evolves(q, r3)
        /\ r3.reply # "none" /\ (rec[o].reply = "none" => r3.reply \in Codes)
    BY <1>3, <1>6 DEF FinishSound, Safe
  <2> QED BY <1>1, <1>3, <2>1, EvolvesTransitive
<1>8. R3 = [rec EXCEPT ![o] = r3]
  BY <1>1, <1>4 DEF R3
<1>9. ASSUME NEW p \in Ops
      PROVE  /\ rec'[p] \in Records /\ ~rec'[p].broken
             /\ hist[p] # "known" => rec'[p] = rec[p]
             /\ hist[p] = "known" =>
                 /\ Follows(rec'[p], native[p]) /\ Evolves(rec[p], rec'[p])
                 /\ rec[p].reply = "none" => rec'[p].reply \in Codes
                 /\ rec'[p].reply # "none"
  <2>1. /\ rec[p] \in Records /\ ~rec[p].broken /\ native[p] \in Statuses
        /\ hist[p] = "known" => Follows(rec[p], native[p])
    BY DEF RecordsInv, RecordInv, Shape, NativeShape
  <2>2. PICK ok \in BOOLEAN : ok = IsAllowed(p)'
    BY DEF IsAllowed
  <2>3. CASE p = o
    <3>1. rec'[o] = r3
      BY <1>1, <1>2, <1>7, <1>8 DEF Notified
    <3> QED BY <1>1, <1>7, <2>3, <3>1 DEF Follows, Behind, Consistent
  <2>4. CASE p # o /\ hist[p] = "known" /\ rec[p].reply = "none"
    <3>1. rec'[p] = FailReplied(p, rec[p], native[p], f2, ok)
      BY <1>1, <1>2, <1>5, <1>8, <2>2, <2>4 DEF Notified, Faults
    <3>2. May(rec[p], native[p]) /\ Consistent(rec[p]) /\ f2 \in Faults \cup {"none"}
      BY <1>5, <2>1, <2>4 DEF May, Follows, Behind
    <3>3. Tracks(rec'[p], native[p]) /\ Evolves(rec[p], rec'[p]) /\ rec'[p].reply # "none"
          /\ rec'[p].reply \in Codes
      BY <2>1, <2>4, <3>1, <3>2, FailReplies
    <3> QED BY <2>4, <3>3 DEF Tracks, Follows, Behind, Consistent
  <2>5. CASE p # o /\ ~(hist[p] = "known" /\ rec[p].reply = "none")
    <3>1. rec'[p] = rec[p]
      BY <1>1, <1>2, <1>8, <2>5 DEF Notified
    <3> QED BY <2>1, <2>5, <3>1, EvolvesReflexive
  <2> QED BY <2>3, <2>4, <2>5
<1>10. rec' = [p \in Ops |-> rec'[p]]
  BY <1>2 DEF Notified
<1>11. LedgerTurn
  <2>1. rec' \in [Ops -> Records]
    BY <1>9, <1>10
  <2>2. fault' # "none" /\ fault' \in Faults \cup {"none"}
    BY <1>5 DEF Faults
  <2> QED BY <1>1, <1>9, <2>1, <2>2 DEF LedgerTurn
<1>12. MemoryTurn
  <2>1. hist' = hist
    BY <1>2, <1>7 DEF Retires, Safe, Shape, RestShape
  <2> QED BY <1>1, <1>2, <1>9, <2>1 DEF MemoryTurn, Shape, RestShape
<1> QED BY <1>11, <1>12 DEF Turns

LEMMA StepTurns ==
    ASSUME Shape, Shape', NativeInv, RecordsInv, [Next]_vars
    PROVE  Turns \/ AdmitsOrEnds
<1>1. CASE Next
  <2>1. ASSUME NEW o \in Ops, AdmitOverflow(o)
        PROVE  Turns
    <3>1. LedgerTurn
      BY <2>1, NotifiedTurns DEF AdmitOverflow, MayAdmit, nativeVars
    <3>2. MemoryTurn
      BY <2>1
      DEF AdmitOverflow, MemoryTurn, taskVars
    <3> QED BY <3>1, <3>2 DEF Turns
  <2>2. ASSUME NEW o \in Ops, AdmitNoHandle(o)
        PROVE  Turns
    <3>1. LedgerTurn
      BY <2>2, NotifiedTurns DEF AdmitNoHandle, MayAdmit, nativeVars
    <3>2. MemoryTurn
      BY <2>2
      DEF AdmitNoHandle, MayAdmit, MemoryTurn, taskVars
    <3> QED BY <3>1, <3>2 DEF Turns
  <2>3. ASSUME NEW o \in Ops, NEW v \in BOOLEAN, Admit(o, v)
        PROVE  AdmitsOrEnds
    BY <2>3 DEF AdmitsOrEnds
  <2>4. ASSUME NEW S \in SUBSET Ops, NEW U \in SUBSET Ops, Revoke(S, U)
        PROVE  Turns
    <3> DEFINE K == S \cap Known
               f == IF ~Capacity(doc, Cardinality({o \in S : hist[o] = "unknown"}), FALSE)
                     THEN "quota-exceeded" ELSE fault
    <3>1. RevokeEffect(S, U, FALSE, f)
      BY <2>4 DEF Revoke
    <3>2. K \in SUBSET Ops /\ K \cap Known = K
      BY DEF Known
    <3>3. f \in Faults \cup {"none"} /\ (fault # "none" => f # "none")
      BY DEF RecordsInv, Faults
    <3> HIDE DEF f
    <3>4. /\ CancelEffect(K, U, FALSE)
          /\ React(Marked(K), f, native, Touched(K, FALSE), K, RefusedOf(K) # {})
      BY <3>1 DEF RevokeEffect
    <3> HIDE DEF K
    <3>5. Enters(Marked(K), K)
      BY <3>2, MarkedEnter
    <3>6. LedgerTurn
      BY <3>2, <3>3, <3>4, <3>5, CancelTurns
    <3>7. MemoryTurn
      BY <2>4 DEF Revoke, MemoryTurn
    <3> QED BY <3>6, <3>7 DEF Turns
  <2>5. ASSUME NEW U \in SUBSET Ops, CloseDocument(U)
        PROVE  Turns
    <3> DEFINE K == OfOwner(Ops, doc) \cap Known
               f == fault
    <3>1. RevokeEffect(OfOwner(Ops, doc), U, FALSE, f)
      BY <2>5 DEF CloseDocument
    <3>2. K \in SUBSET Ops /\ K \cap Known = K
      BY DEF Known
    <3>3. f \in Faults \cup {"none"} /\ (fault # "none" => f # "none")
      BY DEF RecordsInv
    <3> HIDE DEF f
    <3>4. /\ CancelEffect(K, U, FALSE)
          /\ React(Marked(K), f, native, Touched(K, FALSE), K, RefusedOf(K) # {})
      BY <3>1 DEF RevokeEffect
    <3> HIDE DEF K
    <3>5. Enters(Marked(K), K)
      BY <3>2, MarkedEnter
    <3>6. LedgerTurn
      BY <3>2, <3>3, <3>4, <3>5, CancelTurns
    <3>7. MemoryTurn
      BY <2>5 DEF CloseDocument, MemoryTurn
    <3> QED BY <3>6, <3>7 DEF Turns
  <2>6. ASSUME NEW U \in SUBSET Ops, Quit(U)
        PROVE  Turns
    <3> DEFINE K == Ops \cap Known
               f == fault
    <3>1. RevokeEffect(Ops, U, TRUE, f)
      BY <2>6 DEF Quit
    <3>2. K \in SUBSET Ops /\ K \cap Known = K
      BY DEF Known
    <3>3. f \in Faults \cup {"none"} /\ (fault # "none" => f # "none")
      BY DEF RecordsInv
    <3> HIDE DEF f
    <3>4. /\ CancelEffect(K, U, TRUE)
          /\ React(Marked(K), f, native, Touched(K, TRUE), K, RefusedOf(K) # {})
      BY <3>1 DEF RevokeEffect
    <3> HIDE DEF K
    <3>5. Enters(Marked(K), K)
      BY <3>2, MarkedEnter
    <3>6. LedgerTurn
      BY <3>2, <3>3, <3>4, <3>5, CancelTurns
    <3>7. MemoryTurn
      BY <2>6 DEF Quit, MemoryTurn
    <3> QED BY <3>6, <3>7 DEF Turns
  <2>7. ASSUME NEW w \in Owners, OpenDocument(w)
        PROVE  Turns
    <3>1. LedgerTurn
      BY <2>7, Silence DEF OpenDocument, ledgerVars, nativeVars
    <3>2. MemoryTurn
      BY <2>7
      DEF OpenDocument, MemoryTurn, ledgerVars, taskVars
    <3> QED BY <3>1, <3>2 DEF Turns
  <2>8. ASSUME NEW o \in Ops, DirectoryReady(o)
        PROVE  Turns
    <3>1. LedgerTurn
      BY <2>8, Silence DEF DirectoryReady, ledgerVars, nativeVars
    <3>2. MemoryTurn
      BY <2>8
      DEF DirectoryReady, MemoryTurn, ledgerVars, At, Goes
    <3> QED BY <3>1, <3>2 DEF Turns
  <2>9. ASSUME NEW o \in Ops, DirectoryFails(o)
        PROVE  Turns
    <3>1. LedgerTurn
      BY <2>9, Silence DEF DirectoryFails, ledgerVars, nativeVars
    <3>2. MemoryTurn
      BY <2>9
      DEF DirectoryFails, MemoryTurn, ledgerVars, At, Goes
    <3> QED BY <3>1, <3>2 DEF Turns
  <2>10. ASSUME NEW o \in Ops, Submit(o)
        PROVE  Turns
    <3>1. Heard({o})
      BY <2>10 DEF Submit
    <3>2. Moves(fault, {o})
      BY <2>10
      DEF Submit, Moves, Behind, At, RequestEffect, Allowed, NativeInv, UsedInv
    <3>3. LedgerTurn
      BY <3>1, <3>2, HeardTurns
    <3>4. MemoryTurn
      BY <2>10 DEF Submit, MemoryTurn, At, Goes
    <3> QED BY <3>3, <3>4 DEF Turns
  <2>11. ASSUME NEW o \in Ops, WriteFails(o)
        PROVE  Turns
    <3>1. Heard({o}) /\ Moves(fault, {o})
      BY <2>11 DEF WriteFails, Moves, Behind, nativeVars
    <3>3. LedgerTurn
      BY <3>1, HeardTurns
    <3>2. MemoryTurn
      BY <2>11
      DEF WriteFails, MemoryTurn, At, Goes
    <3> QED BY <3>2, <3>3 DEF Turns
  <2>12. ASSUME NEW o \in Ops, TtsReturns(o)
        PROVE  Turns
    <3>1. LedgerTurn
      BY <2>12, Silence DEF TtsReturns, ledgerVars, nativeVars
    <3>2. MemoryTurn
      BY <2>12
      DEF TtsReturns, MemoryTurn, ledgerVars, At, Goes
    <3> QED BY <3>1, <3>2 DEF Turns
  <2>13. ASSUME NEW o \in Ops, SttReturns(o)
        PROVE  Turns
    <3>1. Heard({o}) /\ Moves(fault, {o})
      BY <2>13 DEF SttReturns, Moves, Behind, nativeVars
    <3>3. LedgerTurn
      BY <3>1, HeardTurns
    <3>2. MemoryTurn
      BY <2>13
      DEF SttReturns, MemoryTurn, At, Goes
    <3> QED BY <3>2, <3>3 DEF Turns
  <2>14. ASSUME NEW o \in Ops, SttHeld(o)
        PROVE  Turns
    <3>1. Heard({o}) /\ Moves(fault, {o})
      BY <2>14 DEF SttHeld, Moves, Behind, nativeVars
    <3>3. LedgerTurn
      BY <3>1, HeardTurns
    <3>2. MemoryTurn
      BY <2>14
      DEF SttHeld, MemoryTurn, At, Goes
    <3> QED BY <3>2, <3>3 DEF Turns
  <2>15. ASSUME NEW o \in Ops, NEW U \in SUBSET Ops, SttJoins(o, U)
        PROVE  Turns
    <3>1. /\ CancelEffect({o}, U, FALSE) /\ ({o}) \in SUBSET Ops
          /\ React(rec, fault, native, Touched({o}, FALSE), {}, RefusedOf({o}) # {})
      BY <2>15 DEF SttJoins, Cancelling
    <3>3. fault \in Faults \cup {"none"} /\ Enters(rec, {})
      BY RecordsEnter DEF RecordsInv
    <3>4. LedgerTurn
      BY <3>1, <3>3, CancelTurns
    <3>2. MemoryTurn
      BY <2>15 DEF SttJoins, MemoryTurn, At, Goes
    <3> QED BY <3>2, <3>4 DEF Turns
  <2>16. ASSUME NEW o \in Ops, NEW U \in SUBSET Ops, CatchCancels(o, U)
        PROVE  Turns
    <3>1. /\ CancelEffect({o}, U, FALSE) /\ ({o}) \in SUBSET Ops
          /\ React(rec, fault, native, Touched({o}, FALSE), {}, RefusedOf({o}) # {})
      BY <2>16 DEF CatchCancels, Cancelling
    <3>3. fault \in Faults \cup {"none"} /\ Enters(rec, {})
      BY RecordsEnter DEF RecordsInv
    <3>4. LedgerTurn
      BY <3>1, <3>3, CancelTurns
    <3>2. MemoryTurn
      BY <2>16 DEF CatchCancels, MemoryTurn, At, Goes
    <3> QED BY <3>2, <3>4 DEF Turns
  <2>17. ASSUME NEW o \in Ops, Joined(o)
        PROVE  Turns
    <3>1. Heard({o}) /\ Moves(fault, {o})
      BY <2>17 DEF Joined, Moves, Behind, nativeVars
    <3>3. LedgerTurn
      BY <3>1, HeardTurns
    <3>2. MemoryTurn
      BY <2>17
      DEF Joined, MemoryTurn, At, Goes
    <3> QED BY <3>2, <3>3 DEF Turns
  <2>18. ASSUME NEW o \in Ops, JoinedInVain(o)
        PROVE  Turns
    <3>1. Heard({o}) /\ Moves(fault, {o})
      BY <2>18 DEF JoinedInVain, Moves, Behind, nativeVars
    <3>3. LedgerTurn
      BY <3>1, HeardTurns
    <3>2. MemoryTurn
      BY <2>18
      DEF JoinedInVain, MemoryTurn, At, Goes
    <3> QED BY <3>2, <3>3 DEF Turns
  <2>19. ASSUME NEW o \in Ops, FinalStopSeen(o)
        PROVE  Turns
    <3>1. Heard({o}) /\ Moves(fault, {o})
      BY <2>19 DEF FinalStopSeen, Moves, Behind, nativeVars
    <3>3. LedgerTurn
      BY <3>1, HeardTurns
    <3>2. MemoryTurn
      BY <2>19
      DEF FinalStopSeen, MemoryTurn, At, Goes
    <3> QED BY <3>2, <3>3 DEF Turns
  <2>20. ASSUME NEW o \in Ops, RemoveInput(o)
        PROVE  Turns
    <3>1. LedgerTurn
      BY <2>20, Silence DEF RemoveInput, ledgerVars, nativeVars
    <3>2. MemoryTurn
      BY <2>20
      DEF RemoveInput, MemoryTurn, ledgerVars, At, Goes
    <3> QED BY <3>1, <3>2 DEF Turns
  <2>21. ASSUME NEW o \in Ops, RemoveInputFails(o)
        PROVE  Turns
    <3>1. LedgerTurn
      BY <2>21, Silence DEF RemoveInputFails, ledgerVars, nativeVars
    <3>2. MemoryTurn
      BY <2>21
      DEF RemoveInputFails, MemoryTurn, ledgerVars, At, Goes
    <3> QED BY <3>1, <3>2 DEF Turns
  <2>22. ASSUME NEW o \in Ops, Deliver(o)
        PROVE  AdmitsOrEnds
    BY <2>22 DEF AdmitsOrEnds
  <2>23. ASSUME NEW o \in Ops, TooLate(o)
        PROVE  Turns
    <3>1. Heard({o}) /\ Moves(fault, {o})
      BY <2>23 DEF TooLate, Moves, Behind, nativeVars
    <3>3. LedgerTurn
      BY <3>1, HeardTurns
    <3>2. MemoryTurn
      BY <2>23
      DEF TooLate, MemoryTurn, At, Goes
    <3> QED BY <3>2, <3>3 DEF Turns
  <2>24. ASSUME NEW o \in Ops, GiveUp(o)
        PROVE  Turns \/ AdmitsOrEnds
    <3>1. CASE Informed(o)
      BY <2>24, <3>1 DEF AdmitsOrEnds
    <3>2. CASE ~Informed(o)
      BY <2>24, <3>2, LateGiveUpTurns
    <3> QED BY <3>1, <3>2
  <2>25. ASSUME NEW o \in Ops, Dispatch(o)
        PROVE  Turns
    <3>1. Heard({o})
      BY <2>25 DEF Dispatch
    <3>2. Moves(fault, {o})
      BY <2>25 DEF Dispatch, Moves, Behind
    <3>3. LedgerTurn
      BY <3>1, <3>2, HeardTurns
    <3>4. MemoryTurn
      BY <2>25 DEF Dispatch, MemoryTurn, taskVars
    <3> QED BY <3>3, <3>4 DEF Turns
  <2>26. ASSUME NEW o \in Ops, Timeout(o)
        PROVE  Turns
    <3>1. /\ CancelEffect({}, {}, TRUE) /\ ({}) \in SUBSET Ops
          /\ React(rec, fault, native, Touched({}, TRUE), {}, RefusedOf({}) # {})
      BY <2>26 DEF Timeout, Cancelling
    <3>3. fault \in Faults \cup {"none"} /\ Enters(rec, {})
      BY RecordsEnter DEF RecordsInv
    <3>4. LedgerTurn
      BY <3>1, <3>3, CancelTurns
    <3>2. MemoryTurn
      BY <2>26 DEF Timeout, MemoryTurn
    <3> QED BY <3>2, <3>4 DEF Turns
  <2>27. ASSUME NEW o \in Ops, NEW b \in BOOLEAN, Complete(o, b)
        PROVE  Turns
    <3>1. Heard({o})
      BY <2>27 DEF Complete
    <3>2. Moves(fault, {o})
      BY <2>27 DEF Complete, Moves, Behind
    <3>3. LedgerTurn
      BY <3>1, <3>2, HeardTurns
    <3>4. MemoryTurn
      BY <2>27 DEF Complete, MemoryTurn, taskVars
    <3> QED BY <3>3, <3>4 DEF Turns
  <2>28. ASSUME StopClient
        PROVE  Turns
    <3>1. /\ CancelEffect({}, {}, TRUE) /\ ({}) \in SUBSET Ops
          /\ React(rec, fault, native, Touched({}, TRUE), {}, RefusedOf({}) # {})
      BY <2>28 DEF StopClient, Cancelling
    <3>3. fault \in Faults \cup {"none"} /\ Enters(rec, {})
      BY RecordsEnter DEF RecordsInv
    <3>4. LedgerTurn
      BY <3>1, <3>3, CancelTurns
    <3>2. MemoryTurn
      BY <2>28 DEF StopClient, MemoryTurn
    <3> QED BY <3>2, <3>4 DEF Turns
  <2>29. ASSUME NEW s \in stops, StopConfirmed(s)
        PROVE  Turns
    <3>1. Heard(s.ops \ Withdrawn)
      BY <2>29 DEF StopConfirmed
    <3>2. Moves(fault, s.ops \ Withdrawn)
      BY <2>29 DEF StopConfirmed, Moves, Behind, NativeInv, Bound, StopsInv, UsedInv, Withdrawn
    <3>3. LedgerTurn
      BY <3>1, <3>2, HeardTurns
    <3>4. MemoryTurn
      BY <2>29 DEF StopConfirmed, MemoryTurn, taskVars
    <3> QED BY <3>3, <3>4 DEF Turns
  <2>30. ASSUME NEW s \in stops, NEW b \in BOOLEAN, StopUnconfirmed(s, b)
        PROVE  Turns
    <3> DEFINE f == IF fault = "none" /\ b THEN "termination-unconfirmed" ELSE fault
    <3>1. React(rec, f, native', s.ops \ Withdrawn, {}, FALSE)
      BY <2>30 DEF StopUnconfirmed
    <3>2. f \in Faults \cup {"none"} /\ (fault # "none" => f # "none") /\ Enters(rec, {})
      BY RecordsEnter DEF RecordsInv, Faults
    <3> HIDE DEF f
    <3>3. Moves(f, s.ops \ Withdrawn)
      BY <2>30 DEF StopUnconfirmed, Moves, Behind, NativeInv, Bound, StopsInv, UsedInv, Withdrawn
    <3>4. LedgerTurn
      BY <3>1, <3>2, <3>3, ReactTurns
    <3>5. MemoryTurn
      BY <2>30 DEF StopUnconfirmed, MemoryTurn, taskVars
    <3> QED BY <3>4, <3>5 DEF Turns
  <2>31. ASSUME IntentLost
        PROVE  Turns
    <3>1. LedgerTurn
      BY <2>31, Silence DEF IntentLost, ledgerVars
    <3>2. MemoryTurn
      BY <2>31
      DEF IntentLost, MemoryTurn, ledgerVars, taskVars
    <3> QED BY <3>1, <3>2 DEF Turns
  <2>32. ASSUME WindowsExit
        PROVE  Turns
    <3> DEFINE hit == Affected \cap used
    <3>1. React(rec, fault, native', hit, {}, FALSE)
      BY <2>32 DEF WindowsExit
    <3>2. fault \in Faults \cup {"none"} /\ Enters(rec, {})
      BY RecordsEnter DEF RecordsInv
    <3>3. Moves(fault, hit)
      BY <2>32 DEF WindowsExit, Moves, Behind
    <3> HIDE DEF hit
    <3>4. LedgerTurn
      BY <3>1, <3>2, <3>3, ReactTurns
    <3>5. MemoryTurn
      BY <2>32 DEF WindowsExit, MemoryTurn, taskVars
    <3> QED BY <3>4, <3>5 DEF Turns
  <2>33. ASSUME LateExit
        PROVE  Turns
    <3>1. LedgerTurn
      BY <2>33, Silence DEF LateExit, ledgerVars
    <3>2. MemoryTurn
      BY <2>33
      DEF LateExit, MemoryTurn, ledgerVars, taskVars
    <3> QED BY <3>1, <3>2 DEF Turns
  <2>34. ASSUME FinalStopOk
        PROVE  Turns
    <3>1. LedgerTurn
      BY <2>34, Silence DEF FinalStopOk, ledgerVars, nativeVars
    <3>2. MemoryTurn
      BY <2>34
      DEF FinalStopOk, MemoryTurn, ledgerVars, taskVars
    <3> QED BY <3>1, <3>2 DEF Turns
  <2>35. ASSUME FinalStopFails
        PROVE  Turns
    <3>1. LedgerTurn
      BY <2>35, Silence DEF FinalStopFails, ledgerVars, nativeVars
    <3>2. MemoryTurn
      BY <2>35
      DEF FinalStopFails, MemoryTurn, ledgerVars, taskVars
    <3> QED BY <3>1, <3>2 DEF Turns
  <2>36. ASSUME TasksSettled
        PROVE  Turns
    <3>1. LedgerTurn
      BY <2>36, Silence DEF TasksSettled, ledgerVars, nativeVars
    <3>2. MemoryTurn
      BY <2>36
      DEF TasksSettled, MemoryTurn, ledgerVars, taskVars
    <3> QED BY <3>1, <3>2 DEF Turns
  <2>37. ASSUME NEW o \in Ops, Drain(o)
        PROVE  Turns
    <3>1. LedgerTurn
      BY <2>37, Silence DEF Drain, nativeVars
    <3>2. MemoryTurn
      BY <2>37
      DEF Drain, MemoryTurn, NativeInv, PlaceInv
    <3> QED BY <3>1, <3>2 DEF Turns
  <2>38. ASSUME NEW o \in Ops, DrainFails(o)
        PROVE  Turns
    <3>1. LedgerTurn
      BY <2>38, Silence DEF DrainFails, ledgerVars, nativeVars
    <3>2. MemoryTurn
      BY <2>38
      DEF DrainFails, MemoryTurn, ledgerVars, taskVars
    <3> QED BY <3>1, <3>2 DEF Turns
  <2>39. ASSUME Drained
        PROVE  Turns
    <3>1. LedgerTurn
      BY <2>39, Silence DEF Drained, ledgerVars, nativeVars
    <3>2. MemoryTurn
      BY <2>39
      DEF Drained, MemoryTurn, ledgerVars, taskVars
    <3> QED BY <3>1, <3>2 DEF Turns
  <2>40. ASSUME QuitDone
        PROVE  Turns
    <3>1. LedgerTurn
      BY <2>40, Silence DEF QuitDone, vars, ledgerVars, nativeVars
    <3>2. MemoryTurn
      BY <2>40
      DEF QuitDone, MemoryTurn, vars, ledgerVars, taskVars
    <3> QED BY <3>1, <3>2 DEF Turns
  <2>41. QED
    BY <1>1, <2>1, <2>2, <2>3, <2>4, <2>5, <2>6, <2>7, <2>8, <2>9, <2>10, <2>11, <2>12,
       <2>13, <2>14, <2>15, <2>16, <2>17, <2>18, <2>19, <2>20, <2>21, <2>22, <2>23,
       <2>24, <2>25, <2>26, <2>27, <2>28, <2>29, <2>30, <2>31, <2>32, <2>33, <2>34,
       <2>35, <2>36, <2>37, <2>38, <2>39, <2>40
    DEF Next, Request, TaskStep, NativeStep, QuitStep, Ends, Unused, Known
<1>2. CASE UNCHANGED vars
  <2>1. LedgerTurn
    BY <1>2, Silence DEF vars, ledgerVars, nativeVars
  <2>2. MemoryTurn
    BY <1>2 DEF MemoryTurn, vars, ledgerVars, taskVars
  <2> QED BY <2>1, <2>2 DEF Turns
<1>3. QED BY <1>1, <1>2


---------------------------------------------------------------------------
(* Admission, the end of a task, and what is left of an operation.         *)

\* What admission leaves behind.
LEMMA AdmitRecord ==
    ASSUME Shape, NativeInv, RecordsInv, NEW o \in Ops, NEW v \in BOOLEAN, Admit(o, v)
    PROVE  /\ hist[o] = "unknown" /\ fault = "none" /\ fault' = "none"
           /\ hist' = [hist EXCEPT ![o] = "known"]
           /\ rec' = [rec EXCEPT ![o] = rec'[o]]
           /\ native' = [native EXCEPT ![o] = native'[o]]
           /\ Tracks(rec'[o], native'[o]) /\ native'[o] \in {"not-dispatched", "starting"}
           /\ rec'[o].reply = "none" /\ rec'[o].failure = "none"
           /\ pc' = [pc EXCEPT ![o] = pc'[o]] /\ pc'[o] \in {"catch", "mkdir", "requested"}
           /\ pc'[o] = "mkdir" => o \in Stt
           /\ files' = files /\ drain' = drain /\ quit' = quit
<1> DEFINE ready == Changed(Fresh, [Fresh EXCEPT !.logical = "preparing"])
<1>1. /\ hist[o] = "unknown" /\ fault = "none" /\ fault' = "none" /\ native[o] = "not-dispatched"
      /\ hist' = [hist EXCEPT ![o] = "known"]
      /\ files' = files /\ drain' = drain /\ quit' = quit
      /\ pc' = [pc EXCEPT ![o] = pc'[o]] /\ pc'[o] \in {"catch", "mkdir", "requested"}
      /\ pc'[o] = "mkdir" => o \in Stt
  BY DEF Admit, MayAdmit, NativeInv, UnknownInv, Goes, Shape, RestShape, quitVars
<1>2. [Fresh EXCEPT !.logical = "preparing"] \in Records
  BY DEF Fresh, Records, Statuses
<1>3. /\ ready \in Records /\ Consistent(ready) /\ ready.status = "not-dispatched"
      /\ ready.reply = "none" /\ ready.failure = "none"
  <2> DEFINE u == [Fresh EXCEPT !.logical = "preparing"]
  <2>1. Consistent(u) /\ u.status = "not-dispatched" /\ u.reply = "none" /\ u.failure = "none"
        /\ u.rev = 1
    BY DEF Consistent, Fresh
  <2>2. Valid(u)
    BY <1>2, <2>1, ConsistentIsValid
  <2>3. ready = u \/ ready = [u EXCEPT !.rev = Fresh.rev + 1]
    BY <2>2 DEF Changed
  <2>4. Fresh.rev + 1 \in Nat
    BY DEF Fresh
  <2> HIDE DEF u, ready
  <2> QED BY <1>2, <2>1, <2>3, <2>4, ZenonT(60) DEF Records, Consistent, u
<1> HIDE DEF ready
<1>4. CASE v /\ o \notin Stt
  <2>1. /\ native' = [native EXCEPT ![o] = "starting"]
        /\ rec' = [rec EXCEPT ![o] = Produced(ready, "starting")]
    BY <1>4 DEF Admit, ready
  <2>2. May(ready, "starting") /\ "starting" \in Statuses
    BY <1>3 DEF May, Statuses
  <2>3. /\ Tracks(Produced(ready, "starting"), "starting")
        /\ Produced(ready, "starting").reply = "none" /\ Produced(ready, "starting").failure = "none"
    BY <1>3, <2>2, MayProduce DEF Tracks
  <2> QED BY <1>1, <2>1, <2>3 DEF RecordsInv, Shape, NativeShape
<1>5. CASE ~(v /\ o \notin Stt)
  <2>1. native' = native /\ rec' = [rec EXCEPT ![o] = ready]
    BY <1>5 DEF Admit, ready
  <2>2. Tracks(ready, "not-dispatched")
    BY <1>3 DEF Tracks
  <2> QED BY <1>1, <1>3, <2>1, <2>2 DEF RecordsInv, Shape, NativeShape
<1> QED BY <1>4, <1>5

LEMMA AdmitKeepsRecords ==
    ASSUME Shape, NativeInv, RecordsInv, NEW o \in Ops, NEW v \in BOOLEAN, Admit(o, v)
    PROVE  RecordsInv'
<1>1. /\ hist[o] = "unknown" /\ fault = "none" /\ fault' = "none"
      /\ hist' = [hist EXCEPT ![o] = "known"]
      /\ rec' = [rec EXCEPT ![o] = rec'[o]]
      /\ native' = [native EXCEPT ![o] = native'[o]]
      /\ Tracks(rec'[o], native'[o]) /\ native'[o] \in {"not-dispatched", "starting"}
      /\ rec'[o].reply = "none" /\ rec'[o].failure = "none"
      /\ pc' = [pc EXCEPT ![o] = pc'[o]] /\ pc'[o] \in {"catch", "mkdir", "requested"}
  BY AdmitRecord
<1>2. RecordInv(o)' /\ rec'[o] \in Records /\ ~rec'[o].broken
  BY <1>1 DEF RecordInv, Tracks, Follows, Behind, Consistent
<1>3. ASSUME NEW p \in Ops, p # o
      PROVE  /\ rec'[p] = rec[p] /\ native'[p] = native[p] /\ pc'[p] = pc[p]
             /\ hist'[p] = hist[p]
  BY <1>1, <1>3 DEF RecordsInv, Shape, NativeShape, RestShape
<1>4. ASSUME NEW p \in Ops, p # o
      PROVE  /\ ~rec'[p].broken /\ (hist'[p] = "unknown" => rec'[p] = Fresh)
             /\ hist'[p] = "known" => RecordInv(p)'
  BY <1>1, <1>3, <1>4 DEF RecordsInv, RecordInv
<1>5. rec' \in [Ops -> Records]
  BY <1>1, <1>2 DEF RecordsInv
<1>6. hist'[o] = "known"
  BY <1>1 DEF Shape, RestShape
<1> QED BY <1>1, <1>2, <1>4, <1>5, <1>6 DEF RecordsInv

\* The end of a task, for one whose end gives an answer.
LEMMA EndTaskIs ==
    ASSUME Shape, RecordsInv, NEW o \in Ops, hist[o] = "known", Informed(o),
           NEW failed, EndTask(o, failed),
           \A t : t = Finished(o, rec[o], native[o], failed, ~failed \/ files[o] \in {"none", "removed"},
                               fault, IsAllowed(o)) => ~t.broken /\ t.reply # "none"
    PROVE  /\ fault' = fault /\ pc' = [pc EXCEPT ![o] = "over"]
           /\ rec' = [rec EXCEPT ![o] =
                        Finished(o, rec[o], native[o], failed,
                                 ~failed \/ files[o] \in {"none", "removed"}, fault, IsAllowed(o))]
           /\ hist' = [hist EXCEPT ![o] = IF Retires(o, rec'[o]) THEN "retired" ELSE @]
<1> DEFINE R2 == [rec EXCEPT ![o] = IF hist[o] = "known" THEN Produced(@, native[o]) ELSE @]
           f2 == FaultAfter(fault, R2, {o}, native)
           r3 == IF hist[o] = "known"
                   THEN Finished(o, R2[o], native[o], failed,
                                 ~failed \/ files[o] \in {"none", "removed"}, f2, IsAllowed(o))
                   ELSE R2[o]
           R3 == [R2 EXCEPT ![o] = r3]
<1>1. /\ fault' = FaultAfter(f2, R3, {}, native) /\ rec' = Notified(R3, native, fault')
      /\ hist' = [hist EXCEPT ![o] = IF Retires(o, r3) THEN "retired" ELSE @]
      /\ pc' = [pc EXCEPT ![o] = "over"]
  <2>1. pc' = [pc EXCEPT ![o] = "over"]
    BY DEF EndTask
  <2>2. fault' = FaultAfter(f2, R3, {}, native)
    BY DEF EndTask
  <2>3. rec' = Notified(R3, native, fault')
    BY DEF EndTask
  <2>4. hist' = [hist EXCEPT ![o] = IF Retires(o, r3) THEN "retired" ELSE @]
    <3>1. \E r : r = r3 /\ hist' = [hist EXCEPT ![o] = IF Retires(o, r) THEN "retired" ELSE @]
      BY DEF EndTask
    <3> HIDE DEF r3
    <3> QED BY <3>1
  <2> QED BY <2>1, <2>2, <2>3, <2>4
<1>2. /\ rec \in [Ops -> Records] /\ rec[o].status = native[o] /\ Consistent(rec[o])
      /\ native[o] \in Statuses
  BY DEF Informed, RecordsInv, RecordInv, Follows, Shape, NativeShape
<1>3. R2 = rec
  <2>1. Produced(rec[o], native[o]) = rec[o]
    <3>1. May(rec[o], native[o])
      BY <1>2 DEF May
    <3> QED BY <1>2, <3>1, MayProduce
  <2> QED BY <1>2, <2>1
<1>4. f2 = fault
  <2> HIDE DEF R2
  <2> QED BY <1>2, <1>3 DEF FaultAfter, RecordsInv, RecordInv
<1>5. ~r3.broken /\ r3.reply # "none"
  <2> HIDE DEF R2, f2
  <2> QED BY <1>3, <1>4
<1>6. R3 = [rec EXCEPT ![o] = r3] /\ R3[o] = r3
  <2> HIDE DEF R2, r3
  <2> QED BY <1>2, <1>3
<1>7. \A p \in Ops : ~R3[p].broken
  <2> HIDE DEF R3, r3
  <2> QED BY <1>2, <1>5, <1>6 DEF RecordsInv
<1>8. fault' = fault
  <2> HIDE DEF R3, f2
  <2> QED BY <1>1, <1>4, <1>7 DEF FaultAfter
<1>9. rec' = R3
  <2> HIDE DEF R3, r3
  <2>1. ASSUME NEW p \in Ops PROVE rec'[p] = R3[p]
    <3>1. fault # "none" /\ hist[p] = "known" => R3[p].reply # "none"
      BY <1>2, <1>5, <1>6 DEF RecordsInv, RecordInv
    <3> QED BY <1>1, <1>8, <3>1 DEF Notified
  <2> QED BY <1>1, <1>2, <1>6, <2>1 DEF Notified
<1>10. r3 = Finished(o, rec[o], native[o], failed,
                     ~failed \/ files[o] \in {"none", "removed"}, fault, IsAllowed(o))
  <2> HIDE DEF R2, f2
  <2> QED BY <1>3, <1>4
<1>11. rec'[o] = r3
  BY <1>6, <1>9
<1> HIDE DEF r3, R3
<1> QED BY <1>1, <1>6, <1>8, <1>9, <1>10, <1>11

\* The input file of a task, and what a task that is done relies on.
FilesInv ==
    \A o \in Ops :
        /\ files[o] = "held" =>
             o \in Stt /\ pc[o] \in {"writing", "requested", "joining", "held", "removing"}
        /\ files[o] = "stuck" => pc[o] \in {"catch", "catchjoin", "over"} /\ hist[o] # "retired"
        /\ pc[o] = "mkdir" => o \in Stt
        /\ pc[o] = "done" => native[o] = "completed" /\ o \notin wrong

\* A delivery: the domain is open, and the operation answered with its result.
LEMMA DeliverIs ==
    ASSUME Shape, NativeInv, RecordsInv, FilesInv, NEW o \in Ops, Deliver(o)
    PROVE  /\ hist[o] = "known" /\ fault = "none" /\ fault' = "none" /\ native' = native
           /\ pc' = [pc EXCEPT ![o] = "over"] /\ hist' = [hist EXCEPT ![o] = "retired"]
           /\ rec' \in [Ops -> Records] /\ rec' = [rec EXCEPT ![o] = rec'[o]]
           /\ Evolves(rec[o], rec'[o]) /\ ~rec'[o].broken
           /\ rec[o].reply = "none" /\ rec'[o].reply = "result"
<1> DEFINE released == ~FALSE \/ files[o] \in {"none", "removed"}
           t == Finished(o, rec[o], native[o], FALSE, released, fault, IsAllowed(o))
<1>1. /\ pc[o] = "done" /\ hist[o] = "known" /\ fault = "none" /\ ~rec[o].revoked
      /\ EndTask(o, FALSE) /\ native' = native
      /\ native[o] = "completed" /\ files[o] # "stuck"
  BY DEF Deliver, At, Allowed, FilesInv, nativeVars
<1>2. /\ rec[o] \in Records /\ Consistent(rec[o]) /\ rec[o].status = native[o]
      /\ rec[o].reply = "none" /\ rec[o].failure = "none"
  BY <1>1 DEF RecordsInv, RecordInv, Follows, Behind
<1>3. PICK ok \in BOOLEAN : ok = IsAllowed(o)
  BY DEF IsAllowed
<1>4. t = Finished(o, rec[o], rec[o].status, FALSE, TRUE, "none", ok)
  BY <1>1, <1>2, <1>3
<1> HIDE DEF t
<1>5. /\ t \in Records /\ ~t.broken /\ t.status = rec[o].status /\ Evolves(rec[o], t)
      /\ t.cleanup = "released" /\ t.reply = "result"
  <2>1. "none" \in Faults \cup {"none"}
    OBVIOUS
  <2>2. DeliverSound(rec[o], t)
    BY <1>1, <1>2, <1>4, <2>1, FinishDelivers
  <2> QED BY <1>2, <2>2 DEF DeliverSound
<1>6. /\ fault' = fault /\ pc' = [pc EXCEPT ![o] = "over"]
      /\ rec' = [rec EXCEPT ![o] = t]
      /\ hist' = [hist EXCEPT ![o] = IF Retires(o, rec'[o]) THEN "retired" ELSE @]
  BY <1>1, <1>2, <1>5, EndTaskIs DEF t, Informed
<1>7. rec'[o] = t /\ rec' \in [Ops -> Records]
  BY <1>5, <1>6 DEF RecordsInv
<1>8. Retires(o, t)
  BY <1>1, <1>2, <1>5 DEF Retires, Safe
<1> QED BY <1>1, <1>2, <1>5, <1>6, <1>7, <1>8

\* A task that gives up: answered, and reclaimed only without an input.
LEMMA GiveUpIs ==
    ASSUME Shape, NativeInv, RecordsInv, FilesInv, NEW o \in Ops, GiveUp(o), Informed(o)
    PROVE  /\ hist[o] = "known" /\ fault' = fault /\ native' = native
           /\ pc[o] \in {"catch", "catchjoin"} /\ pc' = [pc EXCEPT ![o] = "over"]
           /\ hist' = [hist EXCEPT ![o] = hist'[o]] /\ hist'[o] \in {"known", "retired"}
           /\ hist'[o] = "retired" => files[o] \in {"none", "removed"}
           /\ rec' \in [Ops -> Records] /\ rec' = [rec EXCEPT ![o] = rec'[o]]
           /\ Evolves(rec[o], rec'[o]) /\ ~rec'[o].broken /\ rec'[o].reply # "none"
           /\ hist'[o] = "known" => Tracks(rec'[o], native[o])
           /\ rec[o].reply = "none" =>
                \/ rec'[o].reply \in Codes
                \/ /\ rec'[o].reply = "fallback" /\ fault = "none"
                   /\ files[o] \in {"none", "removed"}
                   /\ \/ native[o] = "completed" /\ o \in wrong
                      \/ native[o] = "confirmed" /\ o \in timedOut
<1> DEFINE released == ~TRUE \/ files[o] \in {"none", "removed"}
           t == Finished(o, rec[o], native[o], TRUE, released, fault, IsAllowed(o))
<1>1. /\ pc[o] \in {"catch", "catchjoin"} /\ hist[o] = "known"
      /\ EndTask(o, TRUE) /\ native' = native
  BY DEF GiveUp, At, NativeInv, PlaceInv, nativeVars
<1>2. /\ rec[o] \in Records /\ Consistent(rec[o]) /\ rec[o].status = native[o]
      /\ fault \in Faults \cup {"none"}
  BY <1>1 DEF Informed, RecordsInv, RecordInv, Follows
<1>3. PICK ok \in BOOLEAN : ok = IsAllowed(o)
  BY DEF IsAllowed
<1>4. PICK rel \in BOOLEAN : rel = released /\ (rel <=> files[o] \in {"none", "removed"})
  OBVIOUS
<1>5. t = Finished(o, rec[o], rec[o].status, TRUE, rel, fault, ok)
  BY <1>2, <1>3, <1>4
<1> HIDE DEF t, released
<1>6. FinishSound(o, rec[o], rel, fault, t)
  BY <1>2, <1>5, FinishFails
<1>7. /\ fault' = fault /\ pc' = [pc EXCEPT ![o] = "over"]
      /\ rec' = [rec EXCEPT ![o] = t]
      /\ hist' = [hist EXCEPT ![o] = IF Retires(o, rec'[o]) THEN "retired" ELSE @]
  BY <1>1, <1>6, EndTaskIs DEF t, released, FinishSound
<1>8. rec'[o] = t /\ rec' \in [Ops -> Records]
  BY <1>6, <1>7 DEF RecordsInv, FinishSound
<1>9. /\ hist' = [hist EXCEPT ![o] = hist'[o]]
      /\ hist'[o] = IF Retires(o, t) THEN "retired" ELSE "known"
  BY <1>1, <1>7, <1>8 DEF Shape, RestShape
<1>10. t.cleanup = "released" => rel
  BY <1>6 DEF FinishSound, Consistent
<1>11. Retires(o, t) => rel
  BY <1>10 DEF Retires
<1>12. ~Retires(o, t) => Tracks(t, native[o])
  BY <1>2, <1>6 DEF FinishSound, Retires, Tracks
<1>13. rec[o].reply = "none" =>
         \/ t.reply \in Codes
         \/ /\ t.reply = "fallback" /\ fault = "none" /\ files[o] \in {"none", "removed"}
            /\ \/ native[o] = "completed" /\ o \in wrong
               \/ native[o] = "confirmed" /\ o \in timedOut
  BY <1>2, <1>4, <1>6, <1>10 DEF FinishSound
<1> QED BY <1>1, <1>4, <1>6, <1>7, <1>8, <1>9, <1>11, <1>12, <1>13 DEF FinishSound

LEMMA EndKeepsRecords ==
    ASSUME Shape, NativeInv, RecordsInv, FilesInv, NEW o \in Ops,
           Deliver(o) \/ (GiveUp(o) /\ Informed(o))
    PROVE  RecordsInv'
<1>1. /\ hist[o] = "known" /\ fault' = fault /\ native' = native
      /\ pc' = [pc EXCEPT ![o] = "over"] /\ hist' = [hist EXCEPT ![o] = hist'[o]]
      /\ hist'[o] \in {"known", "retired"}
      /\ rec' \in [Ops -> Records] /\ rec' = [rec EXCEPT ![o] = rec'[o]]
      /\ ~rec'[o].broken /\ rec'[o].reply # "none"
      /\ hist'[o] = "known" => /\ Tracks(rec'[o], native[o])
                               /\ native[o] = "unconfirmed" => fault # "none"
  <2>1. CASE Deliver(o)
    <3>1. /\ hist[o] = "known" /\ fault = "none" /\ fault' = "none" /\ native' = native
          /\ pc' = [pc EXCEPT ![o] = "over"] /\ hist' = [hist EXCEPT ![o] = "retired"]
          /\ rec' \in [Ops -> Records] /\ rec' = [rec EXCEPT ![o] = rec'[o]]
          /\ ~rec'[o].broken /\ rec'[o].reply = "result"
      BY <2>1, DeliverIs
    <3> QED BY <3>1 DEF Shape, RestShape
  <2>2. CASE GiveUp(o) /\ Informed(o)
    <3>1. native[o] = "unconfirmed" => fault # "none"
      BY <2>2, GiveUpIs DEF Informed, RecordsInv, RecordInv
    <3> QED BY <2>2, <3>1, GiveUpIs
  <2> QED BY <2>1, <2>2
<1>2. ASSUME NEW p \in Ops, p # o
      PROVE  /\ rec'[p] = rec[p] /\ native'[p] = native[p] /\ pc'[p] = pc[p]
             /\ hist'[p] = hist[p]
  BY <1>1, <1>2 DEF RecordsInv, Shape, RestShape
<1>3. ASSUME NEW p \in Ops, p # o
      PROVE  /\ ~rec'[p].broken /\ (hist'[p] = "unknown" => rec'[p] = Fresh)
             /\ hist'[p] = "known" => RecordInv(p)'
  BY <1>1, <1>2, <1>3 DEF RecordsInv, RecordInv
<1>4. hist'[o] = "known" => RecordInv(o)'
  <2>1. hist'[o] = "known" => Follows(rec'[o], native'[o]) /\ rec'[o].status = native[o]
    BY <1>1 DEF Tracks, Follows, Behind
  <2> QED BY <1>1, <2>1 DEF RecordsInv, RecordInv, Shape, RestShape
<1> QED BY <1>1, <1>3, <1>4 DEF RecordsInv

\* Every step is a turn, an admission or the end of a task; each keeps the records.
LEMMA StepRecords ==
    ASSUME Shape, Shape', NativeInv, RecordsInv, FilesInv, [Next]_vars
    PROVE  RecordsInv'
<1>1. CASE Turns
  BY <1>1, TurnKeepsRecords DEF Turns
<1>2. CASE AdmitsOrEnds
  BY <1>2, AdmitKeepsRecords, EndKeepsRecords DEF AdmitsOrEnds
<1> QED BY <1>1, <1>2, StepTurns

\* What no step takes back.
Stays ==
    \A o \in Ops :
        /\ o \in used => o \in used'
        /\ o \in wrong => o \in wrong'
        /\ o \in used /\ native[o] \in {"completed", "confirmed"} => native'[o] = native[o]
        /\ pc[o] = "over" => /\ pc'[o] = "over" /\ files'[o] \in {files[o], "removed"}
                             /\ o \in timedOut => o \in timedOut'
        /\ o \in used' /\ o \notin used => pc[o] \in {"idle", "writing"}

\* What was used and is over is no business of a cancellation.
LEMMA CancelStays ==
    ASSUME Shape, NEW S, NEW U, NEW halt, CancelEffect(S, U, halt), NEW o \in Ops,
           o \in used, native[o] \in {"completed", "confirmed"}
    PROVE  native'[o] = native[o]
<1>1. o \notin Unused(S) /\ o \notin Working(S) /\ o \notin Affected
  BY DEF Unused, Working, Affected
<1> QED BY <1>1 DEF CancelEffect

\* Nor of any other step.
LEMMA StepStays ==
    ASSUME Shape, Shape', NativeInv, [Next]_vars
    PROVE  Stays
<1>1. CASE Next
  <2>1. ASSUME NEW o \in Ops, AdmitOverflow(o)
        PROVE  Stays
    BY <2>1
    DEF AdmitOverflow, Stays, nativeVars, taskVars
  <2>2. ASSUME NEW o \in Ops, AdmitNoHandle(o)
        PROVE  Stays
    BY <2>2
    DEF AdmitNoHandle, Stays, nativeVars, taskVars
  <2>3. ASSUME NEW o \in Ops, NEW v \in BOOLEAN, Admit(o, v)
        PROVE  Stays
    BY <2>3
    DEF Admit, Stays, Shape, NativeShape, Goes, MayAdmit, NativeInv, PlaceInv, UnknownInv
  <2>4. ASSUME NEW S \in SUBSET Ops, NEW U \in SUBSET Ops, Revoke(S, U)
        PROVE  Stays
    <3>1. CancelEffect(S \cap Known, U, FALSE)
      BY <2>4 DEF Revoke, RevokeEffect
    <3>2. \A p \in Ops :
            p \in used /\ native[p] \in {"completed", "confirmed"} => native'[p] = native[p]
      BY <3>1, CancelStays
    <3> QED
      BY <2>4, <3>2 DEF Stays, Revoke
  <2>5. ASSUME NEW U \in SUBSET Ops, CloseDocument(U)
        PROVE  Stays
    <3>1. CancelEffect(OfOwner(Ops, doc) \cap Known, U, FALSE)
      BY <2>5 DEF CloseDocument, RevokeEffect
    <3>2. \A p \in Ops :
            p \in used /\ native[p] \in {"completed", "confirmed"} => native'[p] = native[p]
      BY <3>1, CancelStays
    <3> QED
      BY <2>5, <3>2 DEF Stays, CloseDocument
  <2>6. ASSUME NEW U \in SUBSET Ops, Quit(U)
        PROVE  Stays
    <3>1. CancelEffect(Ops \cap Known, U, TRUE)
      BY <2>6 DEF Quit, RevokeEffect
    <3>2. \A p \in Ops :
            p \in used /\ native[p] \in {"completed", "confirmed"} => native'[p] = native[p]
      BY <3>1, CancelStays
    <3> QED
      BY <2>6, <3>2 DEF Stays, Quit
  <2>7. ASSUME NEW w \in Owners, OpenDocument(w)
        PROVE  Stays
    BY <2>7
    DEF OpenDocument, Stays, nativeVars, taskVars
  <2>8. ASSUME NEW o \in Ops, DirectoryReady(o)
        PROVE  Stays
    BY <2>8
    DEF DirectoryReady, Stays, nativeVars, At, Goes
  <2>9. ASSUME NEW o \in Ops, DirectoryFails(o)
        PROVE  Stays
    BY <2>9
    DEF DirectoryFails, Stays, nativeVars, At, Goes
  <2>10. ASSUME NEW o \in Ops, Submit(o)
        PROVE  Stays
    BY <2>10
    DEF Submit, Stays, At, Goes, RequestEffect, NativeInv, UsedInv
  <2>11. ASSUME NEW o \in Ops, WriteFails(o)
        PROVE  Stays
    BY <2>11
    DEF WriteFails, Stays, nativeVars, At, Goes
  <2>12. ASSUME NEW o \in Ops, TtsReturns(o)
        PROVE  Stays
    BY <2>12
    DEF TtsReturns, Stays, nativeVars, At, Goes
  <2>13. ASSUME NEW o \in Ops, SttReturns(o)
        PROVE  Stays
    BY <2>13
    DEF SttReturns, Stays, nativeVars, At, Goes
  <2>14. ASSUME NEW o \in Ops, SttHeld(o)
        PROVE  Stays
    BY <2>14
    DEF SttHeld, Stays, nativeVars, At, Goes
  <2>15. ASSUME NEW o \in Ops, NEW U \in SUBSET Ops, SttJoins(o, U)
        PROVE  Stays
    <3>1. CancelEffect({o}, U, FALSE)
      BY <2>15 DEF SttJoins, Cancelling
    <3>2. \A p \in Ops :
            p \in used /\ native[p] \in {"completed", "confirmed"} => native'[p] = native[p]
      BY <3>1, CancelStays
    <3> QED
      BY <2>15, <3>2
      DEF Stays, SttJoins, At, Goes
  <2>16. ASSUME NEW o \in Ops, NEW U \in SUBSET Ops, CatchCancels(o, U)
        PROVE  Stays
    <3>1. CancelEffect({o}, U, FALSE)
      BY <2>16 DEF CatchCancels, Cancelling
    <3>2. \A p \in Ops :
            p \in used /\ native[p] \in {"completed", "confirmed"} => native'[p] = native[p]
      BY <3>1, CancelStays
    <3> QED
      BY <2>16, <3>2
      DEF Stays, CatchCancels, At, Goes
  <2>17. ASSUME NEW o \in Ops, Joined(o)
        PROVE  Stays
    BY <2>17
    DEF Joined, Stays, nativeVars, At, Goes
  <2>18. ASSUME NEW o \in Ops, JoinedInVain(o)
        PROVE  Stays
    BY <2>18
    DEF JoinedInVain, Stays, nativeVars, At, Goes
  <2>19. ASSUME NEW o \in Ops, FinalStopSeen(o)
        PROVE  Stays
    BY <2>19
    DEF FinalStopSeen, Stays, nativeVars, At, Goes
  <2>20. ASSUME NEW o \in Ops, RemoveInput(o)
        PROVE  Stays
    BY <2>20
    DEF RemoveInput, Stays, nativeVars, At, Goes
  <2>21. ASSUME NEW o \in Ops, RemoveInputFails(o)
        PROVE  Stays
    BY <2>21
    DEF RemoveInputFails, Stays, nativeVars, At, Goes
  <2>22. ASSUME NEW o \in Ops, Deliver(o)
        PROVE  Stays
    <3>1. pc' = [pc EXCEPT ![o] = "over"]
      BY <2>22, EndTaskFrame DEF Deliver
    <3> QED
      BY <2>22, <3>1
      DEF Stays, Deliver, nativeVars
  <2>23. ASSUME NEW o \in Ops, TooLate(o)
        PROVE  Stays
    BY <2>23
    DEF TooLate, Stays, nativeVars, At, Goes
  <2>24. ASSUME NEW o \in Ops, GiveUp(o)
        PROVE  Stays
    <3>1. pc' = [pc EXCEPT ![o] = "over"]
      BY <2>24, EndTaskFrame DEF GiveUp
    <3> QED
      BY <2>24, <3>1
      DEF Stays, GiveUp, nativeVars
  <2>25. ASSUME NEW o \in Ops, Dispatch(o)
        PROVE  Stays
    BY <2>25
    DEF Dispatch, Stays, taskVars
  <2>26. ASSUME NEW o \in Ops, Timeout(o)
        PROVE  Stays
    <3>1. CancelEffect({}, {}, TRUE)
      BY <2>26 DEF Timeout, Cancelling
    <3>2. \A p \in Ops :
            p \in used /\ native[p] \in {"completed", "confirmed"} => native'[p] = native[p]
      BY <3>1, CancelStays
    <3> QED
      BY <2>26, <3>2 DEF Stays, Timeout
  <2>27. ASSUME NEW o \in Ops, NEW b \in BOOLEAN, Complete(o, b)
        PROVE  Stays
    BY <2>27
    DEF Complete, Stays, taskVars
  <2>28. ASSUME StopClient
        PROVE  Stays
    <3>1. CancelEffect({}, {}, TRUE)
      BY <2>28 DEF StopClient, Cancelling
    <3>2. \A p \in Ops :
            p \in used /\ native[p] \in {"completed", "confirmed"} => native'[p] = native[p]
      BY <3>1, CancelStays
    <3> QED
      BY <2>28, <3>2 DEF Stays, StopClient
  <2>29. ASSUME NEW s \in stops, StopConfirmed(s)
        PROVE  Stays
    BY <2>29
    DEF StopConfirmed, Stays, taskVars, NativeInv, Bound, StopsInv
  <2>30. ASSUME NEW s \in stops, NEW b \in BOOLEAN, StopUnconfirmed(s, b)
        PROVE  Stays
    BY <2>30
    DEF StopUnconfirmed, Stays, taskVars, NativeInv, Bound, StopsInv
  <2>31. ASSUME IntentLost
        PROVE  Stays
    BY <2>31
    DEF IntentLost, Stays, taskVars
  <2>32. ASSUME WindowsExit
        PROVE  Stays
    BY <2>32
    DEF WindowsExit, Stays, taskVars, Affected
  <2>33. ASSUME LateExit
        PROVE  Stays
    BY <2>33
    DEF LateExit, Stays, taskVars
  <2>34. ASSUME FinalStopOk
        PROVE  Stays
    BY <2>34
    DEF FinalStopOk, Stays, nativeVars, taskVars
  <2>35. ASSUME FinalStopFails
        PROVE  Stays
    BY <2>35
    DEF FinalStopFails, Stays, nativeVars, taskVars
  <2>36. ASSUME TasksSettled
        PROVE  Stays
    BY <2>36
    DEF TasksSettled, Stays, nativeVars, taskVars
  <2>37. ASSUME NEW o \in Ops, Drain(o)
        PROVE  Stays
    BY <2>37 DEF Drain, Stays, nativeVars
  <2>38. ASSUME NEW o \in Ops, DrainFails(o)
        PROVE  Stays
    BY <2>38
    DEF DrainFails, Stays, nativeVars, taskVars
  <2>39. ASSUME Drained
        PROVE  Stays
    BY <2>39
    DEF Drained, Stays, nativeVars, taskVars
  <2>40. ASSUME QuitDone
        PROVE  Stays
    BY <2>40
    DEF QuitDone, Stays, vars, nativeVars, taskVars
  <2>41. QED
    BY <1>1, <2>1, <2>2, <2>3, <2>4, <2>5, <2>6, <2>7, <2>8, <2>9, <2>10, <2>11, <2>12,
       <2>13, <2>14, <2>15, <2>16, <2>17, <2>18, <2>19, <2>20, <2>21, <2>22, <2>23,
       <2>24, <2>25, <2>26, <2>27, <2>28, <2>29, <2>30, <2>31, <2>32, <2>33, <2>34,
       <2>35, <2>36, <2>37, <2>38, <2>39, <2>40
    DEF Next, Request, TaskStep, NativeStep, QuitStep, Ends, Unused, Known
<1>2. CASE UNCHANGED vars
  BY <1>2 DEF vars, nativeVars, taskVars, Stays
<1>3. QED BY <1>1, <1>2


\* An input that may go.
InputInv ==
    \A o \in Ops :
        /\ pc[o] = "removing" => \/ o \notin used
                                 \/ native[o] \in {"completed", "confirmed"}
                                 \/ drain[o] = "confirmed"
        /\ drain[o] = "confirmed" /\ pc[o] \notin {"idle", "over"} => quit = "settling"
        /\ hist[o] = "unknown" => drain[o] = "none"

\* Inputs are written, and removed, at the moments the invariant says.
LEMMA StepFiles ==
    ASSUME Shape, Shape', NativeInv, RecordsInv, FilesInv, InputInv, Stays, [Next]_vars
    PROVE  FilesInv' /\ InputInv'
<1>1. CASE Next
  <2>1. ASSUME NEW o \in Ops, AdmitOverflow(o)
        PROVE  FilesInv' /\ InputInv'
    <3>1. FilesInv'
      BY <2>1
      DEF FilesInv, AdmitOverflow, nativeVars, taskVars
    <3>2. InputInv'
      BY <2>1
      DEF InputInv, Stays, AdmitOverflow, taskVars, quitVars
    <3> QED BY <3>1, <3>2
  <2>2. ASSUME NEW o \in Ops, AdmitNoHandle(o)
        PROVE  FilesInv' /\ InputInv'
    <3>1. FilesInv'
      BY <2>2
      DEF FilesInv, AdmitNoHandle, NativeInv, PlaceInv, nativeVars, taskVars, MayAdmit
    <3>2. InputInv'
      BY <2>2
      DEF InputInv, Stays, AdmitNoHandle, taskVars, quitVars
    <3> QED BY <3>1, <3>2
  <2>3. ASSUME NEW o \in Ops, NEW v \in BOOLEAN, Admit(o, v)
        PROVE  FilesInv' /\ InputInv'
    <3>1. FilesInv'
      BY <2>3
      DEF FilesInv, Stays, Admit, NativeInv, UsedInv, PlaceInv, Goes, MayAdmit
    <3>2. InputInv'
      BY <2>3
      DEF InputInv, Stays, Admit, quitVars, Goes, MayAdmit
    <3> QED BY <3>1, <3>2
  <2>4. ASSUME NEW S \in SUBSET Ops, NEW U \in SUBSET Ops, Revoke(S, U)
        PROVE  FilesInv' /\ InputInv'
    <3>0. /\ files' = files /\ drain' = drain /\ quit' = quit /\ used' = used /\ wrong' = wrong
          /\ pc' = pc /\ \A p \in Ops : hist'[p] = hist[p] \/ hist[p] = "unknown"
          /\ \A p \in Ops : hist'[p] = "unknown" => hist[p] = "unknown"
      BY <2>4 DEF Revoke, quitVars
    <3>1. FilesInv'
      BY <3>0 DEF FilesInv, Stays, NativeInv, UsedInv, PlaceInv
    <3>2. InputInv'
      BY <3>0 DEF InputInv, Stays
    <3> QED BY <3>1, <3>2
  <2>5. ASSUME NEW U \in SUBSET Ops, CloseDocument(U)
        PROVE  FilesInv' /\ InputInv'
    <3>1. FilesInv'
      BY <2>5
      DEF FilesInv, Stays, CloseDocument, NativeInv, UsedInv
    <3>2. InputInv'
      BY <2>5
      DEF InputInv, Stays, CloseDocument, quitVars
    <3> QED BY <3>1, <3>2
  <2>6. ASSUME NEW U \in SUBSET Ops, Quit(U)
        PROVE  FilesInv' /\ InputInv'
    <3>1. FilesInv'
      BY <2>6
      DEF FilesInv, Stays, Quit, NativeInv, UsedInv
    <3>2. InputInv'
      BY <2>6
      DEF InputInv, Stays, Quit
    <3> QED BY <3>1, <3>2
  <2>7. ASSUME NEW w \in Owners, OpenDocument(w)
        PROVE  FilesInv' /\ InputInv'
    <3>1. FilesInv'
      BY <2>7
      DEF FilesInv, OpenDocument, ledgerVars, nativeVars, taskVars
    <3>2. InputInv'
      BY <2>7
      DEF InputInv, Stays, OpenDocument, ledgerVars, taskVars, quitVars
    <3> QED BY <3>1, <3>2
  <2>8. ASSUME NEW o \in Ops, DirectoryReady(o)
        PROVE  FilesInv' /\ InputInv'
    <3>1. FilesInv'
      BY <2>8
      DEF FilesInv, DirectoryReady, Shape, RestShape, ledgerVars, nativeVars, At, Goes
    <3>2. InputInv'
      BY <2>8
      DEF InputInv, Stays, DirectoryReady, ledgerVars, quitVars, At, Goes
    <3> QED BY <3>1, <3>2
  <2>9. ASSUME NEW o \in Ops, DirectoryFails(o)
        PROVE  FilesInv' /\ InputInv'
    <3>1. FilesInv'
      BY <2>9
      DEF FilesInv, DirectoryFails, ledgerVars, nativeVars, At, Goes
    <3>2. InputInv'
      BY <2>9
      DEF InputInv, Stays, DirectoryFails, ledgerVars, quitVars, At, Goes
    <3> QED BY <3>1, <3>2
  <2>10. ASSUME NEW o \in Ops, Submit(o)
        PROVE  FilesInv' /\ InputInv'
    <3>1. FilesInv'
      BY <2>10
      DEF FilesInv, Stays, Submit, NativeInv, UsedInv, At, Goes
    <3>2. InputInv'
      BY <2>10
      DEF InputInv, Stays, Submit, quitVars, At, Goes
    <3> QED BY <3>1, <3>2
  <2>11. ASSUME NEW o \in Ops, WriteFails(o)
        PROVE  FilesInv' /\ InputInv'
    <3>1. FilesInv'
      BY <2>11
      DEF FilesInv, WriteFails, nativeVars, At, Goes
    <3>2. InputInv'
      BY <2>11
      DEF InputInv, WriteFails, NativeInv, UsedInv, nativeVars, quitVars, At, Goes
    <3> QED BY <3>1, <3>2
  <2>12. ASSUME NEW o \in Ops, TtsReturns(o)
        PROVE  FilesInv' /\ InputInv'
    <3>1. FilesInv'
      BY <2>12
      DEF FilesInv, TtsReturns, ledgerVars, nativeVars, At, Goes, Succeeded
    <3>2. InputInv'
      BY <2>12
      DEF InputInv, Stays, TtsReturns, ledgerVars, quitVars, At, Goes, Succeeded
    <3> QED BY <3>1, <3>2
  <2>13. ASSUME NEW o \in Ops, SttReturns(o)
        PROVE  FilesInv' /\ InputInv'
    <3>1. FilesInv'
      BY <2>13
      DEF FilesInv, SttReturns, nativeVars, At, Goes
    <3>2. InputInv'
      BY <2>13
      DEF InputInv, Stays, SttReturns, quitVars, At, Goes
    <3> QED BY <3>1, <3>2
  <2>14. ASSUME NEW o \in Ops, SttHeld(o)
        PROVE  FilesInv' /\ InputInv'
    <3>1. FilesInv'
      BY <2>14
      DEF FilesInv, SttHeld, nativeVars, At, Goes
    <3>2. InputInv'
      BY <2>14
      DEF InputInv, Stays, SttHeld, quitVars, At, Goes
    <3> QED BY <3>1, <3>2
  <2>15. ASSUME NEW o \in Ops, NEW U \in SUBSET Ops, SttJoins(o, U)
        PROVE  FilesInv' /\ InputInv'
    <3>1. FilesInv'
      BY <2>15
      DEF FilesInv, Stays, SttJoins, NativeInv, UsedInv, At, Goes
    <3>2. InputInv'
      BY <2>15
      DEF InputInv, Stays, SttJoins, quitVars, At, Goes
    <3> QED BY <3>1, <3>2
  <2>16. ASSUME NEW o \in Ops, NEW U \in SUBSET Ops, CatchCancels(o, U)
        PROVE  FilesInv' /\ InputInv'
    <3>1. FilesInv'
      BY <2>16
      DEF FilesInv, Stays, CatchCancels, NativeInv, UsedInv, At, Goes
    <3>2. InputInv'
      BY <2>16
      DEF InputInv, Stays, CatchCancels, quitVars, At, Goes
    <3> QED BY <3>1, <3>2
  <2>17. ASSUME NEW o \in Ops, Joined(o)
        PROVE  FilesInv' /\ InputInv'
    <3>1. FilesInv'
      BY <2>17
      DEF FilesInv, Joined, nativeVars, At, Goes, JoinOk
    <3>2. InputInv'
      BY <2>17
      DEF InputInv, Stays, Joined, quitVars, At, Goes, JoinOk
    <3> QED BY <3>1, <3>2
  <2>18. ASSUME NEW o \in Ops, JoinedInVain(o)
        PROVE  FilesInv' /\ InputInv'
    <3>1. FilesInv'
      BY <2>18
      DEF FilesInv, JoinedInVain, nativeVars, At, Goes
    <3>2. InputInv'
      BY <2>18
      DEF InputInv, Stays, JoinedInVain, quitVars, At, Goes
    <3> QED BY <3>1, <3>2
  <2>19. ASSUME NEW o \in Ops, FinalStopSeen(o)
        PROVE  FilesInv' /\ InputInv'
    <3>1. FilesInv'
      BY <2>19
      DEF FilesInv, FinalStopSeen, nativeVars, At, Goes
    <3>2. InputInv'
      BY <2>19
      DEF InputInv, Stays, FinalStopSeen, quitVars, At, Goes
    <3> QED BY <3>1, <3>2
  <2>20. ASSUME NEW o \in Ops, RemoveInput(o)
        PROVE  FilesInv' /\ InputInv'
    <3>1. FilesInv'
      BY <2>20
      DEF FilesInv, RemoveInput, Shape, RestShape, ledgerVars, nativeVars, Goes, Succeeded
    <3>2. InputInv'
      BY <2>20
      DEF InputInv, Stays, RemoveInput, ledgerVars, quitVars, At, Goes, Succeeded
    <3> QED BY <3>1, <3>2
  <2>21. ASSUME NEW o \in Ops, RemoveInputFails(o)
        PROVE  FilesInv' /\ InputInv'
    <3>1. FilesInv'
      BY <2>21
      DEF FilesInv, RemoveInputFails, Shape, RestShape, NativeInv, PlaceInv, ledgerVars,
          nativeVars, At, Goes
    <3>2. InputInv'
      BY <2>21
      DEF InputInv, Stays, RemoveInputFails, ledgerVars, quitVars, At, Goes
    <3> QED BY <3>1, <3>2
  <2>22. ASSUME NEW o \in Ops, Deliver(o)
        PROVE  FilesInv' /\ InputInv'
    <3>0. /\ hist[o] = "known" /\ native' = native /\ pc' = [pc EXCEPT ![o] = "over"]
          /\ hist' = [hist EXCEPT ![o] = hist'[o]] /\ hist'[o] \in {"known", "retired"}
          /\ hist'[o] = "retired" => files[o] # "stuck"
          /\ files' = files /\ drain' = drain /\ quit' = quit /\ used' = used /\ wrong' = wrong
          /\ pc[o] \in {"done", "catch", "catchjoin"}
      <4>1. /\ hist[o] = "known" /\ native' = native /\ pc' = [pc EXCEPT ![o] = "over"]
            /\ hist' = [hist EXCEPT ![o] = "retired"]
        BY <2>22, DeliverIs
      <4>2. /\ pc[o] = "done" /\ files' = files /\ drain' = drain /\ quit' = quit
            /\ used' = used /\ wrong' = wrong
        BY <2>22 DEF Deliver, At, nativeVars, quitVars
      <4>3. files[o] # "stuck"
        BY <4>2 DEF FilesInv
      <4>4. hist'[o] = "retired"
        BY <4>1 DEF Shape, RestShape
      <4> QED BY <4>1, <4>2, <4>3, <4>4
    <3>1. FilesInv'
      BY <3>0 DEF FilesInv, Shape, RestShape
    <3>2. InputInv'
      BY <3>0 DEF InputInv, Shape, RestShape
    <3> QED BY <3>1, <3>2
  <2>23. ASSUME NEW o \in Ops, TooLate(o)
        PROVE  FilesInv' /\ InputInv'
    <3>1. FilesInv'
      BY <2>23
      DEF FilesInv, TooLate, nativeVars, At, Goes
    <3>2. InputInv'
      BY <2>23
      DEF InputInv, Stays, TooLate, quitVars, At, Goes
    <3> QED BY <3>1, <3>2
  <2>24. ASSUME NEW o \in Ops, GiveUp(o)
        PROVE  FilesInv' /\ InputInv'
    <3>0. /\ hist[o] = "known" /\ native' = native /\ pc' = [pc EXCEPT ![o] = "over"]
          /\ hist' = [hist EXCEPT ![o] = hist'[o]] /\ hist'[o] \in {"known", "retired"}
          /\ hist'[o] = "retired" => files[o] # "stuck"
          /\ files' = files /\ drain' = drain /\ quit' = quit /\ used' = used /\ wrong' = wrong
          /\ pc[o] \in {"done", "catch", "catchjoin"}
      <4>1. /\ native' = native /\ files' = files /\ drain' = drain /\ quit' = quit
            /\ used' = used /\ wrong' = wrong /\ pc[o] \in {"done", "catch", "catchjoin"}
        BY <2>24 DEF GiveUp, FilesInv, nativeVars, quitVars, At
      <4>2. CASE Informed(o)
        BY <2>24, <4>1, <4>2, GiveUpIs DEF FilesInv
      <4>3. CASE ~Informed(o)
        <5>1. hist[o] = "known"
          BY <4>1 DEF NativeInv, PlaceInv
        <5>2. hist' = hist
          <6>1. Turns
            BY <2>24, <4>3, LateGiveUpTurns
          <6>2. /\ hist' \in [Ops -> {"unknown", "known", "retired"}]
                /\ \A p \in Ops : p # o => hist'[p] = hist[p]
            BY <2>24, EndTaskFrame DEF GiveUp
          <6>3. hist'[o] = hist[o]
            BY <4>1, <5>1, <6>1 DEF Turns, MemoryTurn
          <6> QED BY <6>2, <6>3 DEF Shape, RestShape
        <5>3. pc' = [pc EXCEPT ![o] = "over"]
          BY <2>24, EndTaskFrame DEF GiveUp
        <5> QED BY <4>1, <5>1, <5>2, <5>3 DEF Shape, RestShape
      <4> QED BY <4>2, <4>3
    <3>1. FilesInv'
      BY <3>0 DEF FilesInv, Shape, RestShape
    <3>2. InputInv'
      BY <3>0 DEF InputInv, Shape, RestShape
    <3> QED BY <3>1, <3>2
  <2>25. ASSUME NEW o \in Ops, Dispatch(o)
        PROVE  FilesInv' /\ InputInv'
    <3>1. FilesInv'
      BY <2>25
      DEF FilesInv, Dispatch, taskVars
    <3>2. InputInv'
      BY <2>25
      DEF InputInv, Dispatch, taskVars, quitVars
    <3> QED BY <3>1, <3>2
  <2>26. ASSUME NEW o \in Ops, Timeout(o)
        PROVE  FilesInv' /\ InputInv'
    <3>1. FilesInv'
      BY <2>26
      DEF FilesInv, Stays, Timeout, NativeInv, UsedInv
    <3>2. InputInv'
      BY <2>26
      DEF InputInv, Stays, Timeout, quitVars
    <3> QED BY <3>1, <3>2
  <2>27. ASSUME NEW o \in Ops, NEW b \in BOOLEAN, Complete(o, b)
        PROVE  FilesInv' /\ InputInv'
    <3>1. FilesInv'
      BY <2>27
      DEF FilesInv, Complete, taskVars
    <3>2. InputInv'
      BY <2>27
      DEF InputInv, Complete, taskVars, quitVars
    <3> QED BY <3>1, <3>2
  <2>28. ASSUME StopClient
        PROVE  FilesInv' /\ InputInv'
    <3>1. FilesInv'
      BY <2>28
      DEF FilesInv, Stays, StopClient, NativeInv, UsedInv
    <3>2. InputInv'
      BY <2>28
      DEF InputInv, Stays, StopClient, quitVars
    <3> QED BY <3>1, <3>2
  <2>29. ASSUME NEW s \in stops, StopConfirmed(s)
        PROVE  FilesInv' /\ InputInv'
    <3>1. FilesInv'
      BY <2>29
      DEF FilesInv, Stays, StopConfirmed, NativeInv, UsedInv, taskVars
    <3>2. InputInv'
      BY <2>29
      DEF InputInv, StopConfirmed, taskVars, quitVars
    <3> QED BY <3>1, <3>2
  <2>30. ASSUME NEW s \in stops, NEW b \in BOOLEAN, StopUnconfirmed(s, b)
        PROVE  FilesInv' /\ InputInv'
    <3>1. FilesInv'
      BY <2>30
      DEF FilesInv, Stays, StopUnconfirmed, NativeInv, UsedInv, taskVars
    <3>2. InputInv'
      BY <2>30
      DEF InputInv, Stays, StopUnconfirmed, taskVars
    <3> QED BY <3>1, <3>2
  <2>31. ASSUME IntentLost
        PROVE  FilesInv' /\ InputInv'
    <3>1. FilesInv'
      BY <2>31
      DEF FilesInv, IntentLost, ledgerVars, taskVars
    <3>2. InputInv'
      BY <2>31
      DEF InputInv, IntentLost, ledgerVars, taskVars, quitVars
    <3> QED BY <3>1, <3>2
  <2>32. ASSUME WindowsExit
        PROVE  FilesInv' /\ InputInv'
    <3>1. FilesInv'
      BY <2>32
      DEF FilesInv, Stays, WindowsExit, taskVars
    <3>2. InputInv'
      BY <2>32
      DEF InputInv, Stays, WindowsExit, taskVars, quitVars
    <3> QED BY <3>1, <3>2
  <2>33. ASSUME LateExit
        PROVE  FilesInv' /\ InputInv'
    <3>1. FilesInv'
      BY <2>33
      DEF FilesInv, LateExit, ledgerVars, taskVars
    <3>2. InputInv'
      BY <2>33
      DEF InputInv, LateExit, ledgerVars, taskVars, quitVars
    <3> QED BY <3>1, <3>2
  <2>34. ASSUME FinalStopOk
        PROVE  FilesInv' /\ InputInv'
    <3>1. FilesInv'
      BY <2>34
      DEF FilesInv, FinalStopOk, ledgerVars, nativeVars, taskVars
    <3>2. InputInv'
      BY <2>34
      DEF InputInv, Stays, FinalStopOk, ledgerVars, taskVars
    <3> QED BY <3>1, <3>2
  <2>35. ASSUME FinalStopFails
        PROVE  FilesInv' /\ InputInv'
    <3>1. FilesInv'
      BY <2>35
      DEF FilesInv, FinalStopFails, ledgerVars, nativeVars, taskVars
    <3>2. InputInv'
      BY <2>35
      DEF InputInv, Stays, FinalStopFails, ledgerVars, taskVars
    <3> QED BY <3>1, <3>2
  <2>36. ASSUME TasksSettled
        PROVE  FilesInv' /\ InputInv'
    <3>1. FilesInv'
      BY <2>36
      DEF FilesInv, TasksSettled, ledgerVars, taskVars
    <3>2. InputInv'
      BY <2>36
      DEF InputInv, TasksSettled, ledgerVars, taskVars
    <3> QED BY <3>1, <3>2
  <2>37. ASSUME NEW o \in Ops, Drain(o)
        PROVE  FilesInv' /\ InputInv'
    <3>1. FilesInv'
      BY <2>37
      DEF FilesInv, Drain, Shape, RestShape, nativeVars
    <3>2. InputInv'
      BY <2>37
      DEF InputInv, Stays, Drain, quitVars
    <3> QED BY <3>1, <3>2
  <2>38. ASSUME NEW o \in Ops, DrainFails(o)
        PROVE  FilesInv' /\ InputInv'
    <3>1. FilesInv'
      BY <2>38
      DEF FilesInv, DrainFails, ledgerVars, nativeVars, taskVars
    <3>2. InputInv'
      BY <2>38
      DEF InputInv, Stays, DrainFails, ledgerVars, taskVars
    <3> QED BY <3>1, <3>2
  <2>39. ASSUME Drained
        PROVE  FilesInv' /\ InputInv'
    <3>1. FilesInv'
      BY <2>39
      DEF FilesInv, Drained, ledgerVars, nativeVars, taskVars
    <3>2. InputInv'
      BY <2>39
      DEF InputInv, Stays, Drained, ledgerVars, taskVars
    <3> QED BY <3>1, <3>2
  <2>40. ASSUME QuitDone
        PROVE  FilesInv' /\ InputInv'
    <3>1. FilesInv'
      BY <2>40
      DEF FilesInv, QuitDone, vars, ledgerVars, nativeVars, taskVars
    <3>2. InputInv'
      BY <2>40
      DEF InputInv, Stays, QuitDone, vars, ledgerVars, taskVars, quitVars
    <3> QED BY <3>1, <3>2
  <2>41. QED
    BY <1>1, <2>1, <2>2, <2>3, <2>4, <2>5, <2>6, <2>7, <2>8, <2>9, <2>10, <2>11, <2>12,
       <2>13, <2>14, <2>15, <2>16, <2>17, <2>18, <2>19, <2>20, <2>21, <2>22, <2>23,
       <2>24, <2>25, <2>26, <2>27, <2>28, <2>29, <2>30, <2>31, <2>32, <2>33, <2>34,
       <2>35, <2>36, <2>37, <2>38, <2>39, <2>40
    DEF Next, Request, TaskStep, NativeStep, QuitStep, Ends, Unused, Known
<1>2. CASE UNCHANGED vars
  BY <1>2
  DEF vars, ledgerVars, nativeVars, taskVars, quitVars, FilesInv, InputInv
<1>3. QED BY <1>1, <1>2


---------------------------------------------------------------------------
(* What may happen elsewhere, who dispatches, and who removes an input.    *)

\* "Run it elsewhere" was the answer of a task that is over, with nothing left.
FallbackInv ==
    \A o \in Ops : rec[o].reply = "fallback" =>
        /\ pc[o] = "over" /\ files[o] \in {"none", "removed"} /\ o \in used
        /\ native[o] \in {"completed", "confirmed"} /\ o \in wrong \cup timedOut

\* What allowed a fallback stays true.
LEMMA StepFallback ==
    ASSUME Shape, Shape', NativeInv, RecordsInv, FilesInv, FallbackInv, Stays, [Next]_vars
    PROVE  FallbackInv'
<1>1. ASSUME NEW o \in Ops, rec'[o].reply = "fallback", rec[o].reply = "fallback"
      PROVE  /\ pc'[o] = "over" /\ files'[o] \in {"none", "removed"} /\ o \in used'
             /\ native'[o] \in {"completed", "confirmed"} /\ o \in wrong' \cup timedOut'
  <2>1. /\ pc[o] = "over" /\ files[o] \in {"none", "removed"} /\ o \in used
        /\ native[o] \in {"completed", "confirmed"} /\ o \in wrong \cup timedOut
    BY <1>1 DEF FallbackInv
  <2>2. /\ pc'[o] = "over" /\ files'[o] \in {files[o], "removed"} /\ o \in used'
        /\ native'[o] = native[o] /\ o \in wrong' \cup timedOut'
    BY <2>1 DEF Stays
  <2> QED BY <2>1, <2>2
<1>2. ASSUME NEW o \in Ops, rec'[o].reply = "fallback", rec[o].reply # "fallback"
      PROVE  /\ pc'[o] = "over" /\ files'[o] \in {"none", "removed"} /\ o \in used'
             /\ native'[o] \in {"completed", "confirmed"} /\ o \in wrong' \cup timedOut'
  <2>1. CASE LedgerTurn
    <3>1. rec[o] \in Records
      BY DEF RecordsInv
    <3>2. rec'[o].reply \in Codes \cup {rec[o].reply}
      BY <2>1, <1>2, <3>1 DEF LedgerTurn, Evolves
    <3> QED BY <3>2, <1>2 DEF Codes, Faults
  <2>2. ASSUME NEW p \in Ops, NEW v \in BOOLEAN, Admit(p, v)
        PROVE  FALSE
    <3>1. rec' = [rec EXCEPT ![p] = rec'[p]] /\ rec'[p].reply = "none"
      BY <2>2, AdmitRecord
    <3> QED BY <3>1, <1>2 DEF RecordsInv
  <2>3. ASSUME NEW p \in Ops, Deliver(p)
        PROVE  FALSE
    <3>1. rec' = [rec EXCEPT ![p] = rec'[p]] /\ rec'[p].reply = "result"
      BY <2>3, DeliverIs
    <3> QED BY <3>1, <1>2 DEF RecordsInv
  <2>4. ASSUME NEW p \in Ops, GiveUp(p), Informed(p)
        PROVE  /\ pc'[o] = "over" /\ files'[o] \in {"none", "removed"} /\ o \in used'
               /\ native'[o] \in {"completed", "confirmed"} /\ o \in wrong' \cup timedOut'
    <3>1. /\ native' = native /\ pc' = [pc EXCEPT ![p] = "over"]
          /\ rec' = [rec EXCEPT ![p] = rec'[p]] /\ Evolves(rec[p], rec'[p])
          /\ rec[p].reply = "none" =>
               \/ rec'[p].reply \in Codes
               \/ /\ files[p] \in {"none", "removed"}
                  /\ \/ native[p] = "completed" /\ p \in wrong
                     \/ native[p] = "confirmed" /\ p \in timedOut
      BY <2>4, GiveUpIs
    <3>2. files' = files /\ used' = used /\ wrong' = wrong /\ timedOut' = timedOut
      BY <2>4 DEF GiveUp, nativeVars
    <3>3. o = p
      BY <3>1, <1>2 DEF RecordsInv
    <3>4. rec[p].reply = "none"
      BY <3>1, <3>3, <1>2 DEF Evolves
    <3>5. /\ files[p] \in {"none", "removed"}
          /\ \/ native[p] = "completed" /\ p \in wrong
             \/ native[p] = "confirmed" /\ p \in timedOut
      BY <3>1, <3>3, <3>4, <1>2 DEF Codes, Faults
    <3>6. p \in used
      BY <3>5 DEF NativeInv, UsedInv
    <3>7. pc'[p] = "over"
      BY <3>1 DEF Shape, RestShape
    <3> QED BY <3>1, <3>2, <3>3, <3>5, <3>6, <3>7
  <2> QED BY <2>1, <2>2, <2>3, <2>4, StepTurns DEF Turns, AdmitsOrEnds
<1> QED BY <1>1, <1>2 DEF FallbackInv

\* Only Dispatch makes an operation run; only two steps remove an input.
Causes ==
    \A o \in Ops :
        /\ native[o] # "running" /\ native'[o] = "running" => Dispatch(o)
        /\ files[o] # "removed" /\ files'[o] = "removed" => RemoveInput(o) \/ Drain(o)

\* Each use of the runtime and each removal of an input has its one cause.
LEMMA StepCauses ==
    ASSUME Shape, [Next]_vars
    PROVE  Causes
<1>1. CASE Next
  <2>1. ASSUME NEW o \in Ops, AdmitOverflow(o)
        PROVE  Causes
    <3>1. native' = native /\ files' = files
      BY <2>1 DEF AdmitOverflow, nativeVars, taskVars
    <3> QED BY <3>1 DEF Causes
  <2>2. ASSUME NEW o \in Ops, AdmitNoHandle(o)
        PROVE  Causes
    <3>1. native' = native /\ files' = files
      BY <2>2 DEF AdmitNoHandle, nativeVars, taskVars
    <3> QED BY <3>1 DEF Causes
  <2>3. ASSUME NEW o \in Ops, NEW v \in BOOLEAN, Admit(o, v)
        PROVE  Causes
    <3>1. \A p \in Ops : native'[p] = "running" => native[p] = "running"
      BY <2>3 DEF Admit, Shape, NativeShape
    <3>2. \A p \in Ops : files'[p] = "removed" => files[p] = "removed"
      BY <2>3 DEF Admit
    <3> QED BY <3>1, <3>2 DEF Causes
  <2>4. ASSUME NEW S \in SUBSET Ops, NEW U \in SUBSET Ops, Revoke(S, U)
        PROVE  Causes
    <3>1. CancelEffect(S \cap Known, U, FALSE)
      BY <2>4 DEF Revoke, RevokeEffect
    <3>2. \A p \in Ops : native'[p] = "running" => native[p] = "running"
      BY <3>1 DEF CancelEffect
    <3>3. files' = files
      BY <2>4 DEF Revoke
    <3> QED BY <3>2, <3>3 DEF Causes
  <2>5. ASSUME NEW U \in SUBSET Ops, CloseDocument(U)
        PROVE  Causes
    <3>1. CancelEffect(OfOwner(Ops, doc) \cap Known, U, FALSE)
      BY <2>5 DEF CloseDocument, RevokeEffect
    <3>2. \A p \in Ops : native'[p] = "running" => native[p] = "running"
      BY <3>1 DEF CancelEffect
    <3>3. files' = files
      BY <2>5 DEF CloseDocument
    <3> QED BY <3>2, <3>3 DEF Causes
  <2>6. ASSUME NEW U \in SUBSET Ops, Quit(U)
        PROVE  Causes
    <3>1. CancelEffect(Ops \cap Known, U, TRUE)
      BY <2>6 DEF Quit, RevokeEffect
    <3>2. \A p \in Ops : native'[p] = "running" => native[p] = "running"
      BY <3>1 DEF CancelEffect
    <3>3. files' = files
      BY <2>6 DEF Quit
    <3> QED BY <3>2, <3>3 DEF Causes
  <2>7. ASSUME NEW w \in Owners, OpenDocument(w)
        PROVE  Causes
    <3>1. native' = native /\ files' = files
      BY <2>7 DEF OpenDocument, nativeVars, taskVars
    <3> QED BY <3>1 DEF Causes
  <2>8. ASSUME NEW o \in Ops, DirectoryReady(o)
        PROVE  Causes
    <3>1. \A p \in Ops : native'[p] = "running" => native[p] = "running"
      BY <2>8 DEF DirectoryReady, nativeVars
    <3>2. \A p \in Ops : files'[p] = "removed" => files[p] = "removed"
      BY <2>8 DEF DirectoryReady
    <3> QED BY <3>1, <3>2 DEF Causes
  <2>9. ASSUME NEW o \in Ops, DirectoryFails(o)
        PROVE  Causes
    <3>1. native' = native /\ files' = files
      BY <2>9 DEF DirectoryFails, nativeVars
    <3> QED BY <3>1 DEF Causes
  <2>10. ASSUME NEW o \in Ops, Submit(o)
        PROVE  Causes
    <3>1. \A p \in Ops : native'[p] = "running" => native[p] = "running"
      BY <2>10 DEF Submit, RequestEffect
    <3>2. \A p \in Ops : files'[p] = "removed" => files[p] = "removed"
      BY <2>10 DEF Submit
    <3> QED BY <3>1, <3>2 DEF Causes
  <2>11. ASSUME NEW o \in Ops, WriteFails(o)
        PROVE  Causes
    <3>1. native' = native /\ files' = files
      BY <2>11 DEF WriteFails, nativeVars
    <3> QED BY <3>1 DEF Causes
  <2>12. ASSUME NEW o \in Ops, TtsReturns(o)
        PROVE  Causes
    <3>1. native' = native /\ files' = files
      BY <2>12 DEF TtsReturns, nativeVars
    <3> QED BY <3>1 DEF Causes
  <2>13. ASSUME NEW o \in Ops, SttReturns(o)
        PROVE  Causes
    <3>1. native' = native /\ files' = files
      BY <2>13 DEF SttReturns, nativeVars
    <3> QED BY <3>1 DEF Causes
  <2>14. ASSUME NEW o \in Ops, SttHeld(o)
        PROVE  Causes
    <3>1. native' = native /\ files' = files
      BY <2>14 DEF SttHeld, nativeVars
    <3> QED BY <3>1 DEF Causes
  <2>15. ASSUME NEW o \in Ops, NEW U \in SUBSET Ops, SttJoins(o, U)
        PROVE  Causes
    <3>1. CancelEffect({o}, U, FALSE)
      BY <2>15 DEF SttJoins, Cancelling
    <3>2. \A p \in Ops : native'[p] = "running" => native[p] = "running"
      BY <3>1 DEF CancelEffect
    <3>3. files' = files
      BY <2>15 DEF SttJoins
    <3> QED BY <3>2, <3>3 DEF Causes
  <2>16. ASSUME NEW o \in Ops, NEW U \in SUBSET Ops, CatchCancels(o, U)
        PROVE  Causes
    <3>1. CancelEffect({o}, U, FALSE)
      BY <2>16 DEF CatchCancels, Cancelling
    <3>2. \A p \in Ops : native'[p] = "running" => native[p] = "running"
      BY <3>1 DEF CancelEffect
    <3>3. files' = files
      BY <2>16 DEF CatchCancels
    <3> QED BY <3>2, <3>3 DEF Causes
  <2>17. ASSUME NEW o \in Ops, Joined(o)
        PROVE  Causes
    <3>1. native' = native /\ files' = files
      BY <2>17 DEF Joined, nativeVars
    <3> QED BY <3>1 DEF Causes
  <2>18. ASSUME NEW o \in Ops, JoinedInVain(o)
        PROVE  Causes
    <3>1. native' = native /\ files' = files
      BY <2>18 DEF JoinedInVain, nativeVars
    <3> QED BY <3>1 DEF Causes
  <2>19. ASSUME NEW o \in Ops, FinalStopSeen(o)
        PROVE  Causes
    <3>1. native' = native /\ files' = files
      BY <2>19 DEF FinalStopSeen, nativeVars
    <3> QED BY <3>1 DEF Causes
  <2>20. ASSUME NEW o \in Ops, RemoveInput(o)
        PROVE  Causes
    <3>1. native' = native /\ \A p \in Ops : p # o => files'[p] = files[p]
      BY <2>20 DEF RemoveInput, nativeVars
    <3> QED BY <3>1, <2>20 DEF Causes
  <2>21. ASSUME NEW o \in Ops, RemoveInputFails(o)
        PROVE  Causes
    <3>1. \A p \in Ops : native'[p] = "running" => native[p] = "running"
      BY <2>21 DEF RemoveInputFails, nativeVars
    <3>2. \A p \in Ops : files'[p] = "removed" => files[p] = "removed"
      BY <2>21 DEF RemoveInputFails
    <3> QED BY <3>1, <3>2 DEF Causes
  <2>22. ASSUME NEW o \in Ops, Deliver(o)
        PROVE  Causes
    <3>1. native' = native /\ files' = files
      BY <2>22 DEF Deliver, nativeVars
    <3> QED BY <3>1 DEF Causes
  <2>23. ASSUME NEW o \in Ops, TooLate(o)
        PROVE  Causes
    <3>1. native' = native /\ files' = files
      BY <2>23 DEF TooLate, nativeVars
    <3> QED BY <3>1 DEF Causes
  <2>24. ASSUME NEW o \in Ops, GiveUp(o)
        PROVE  Causes
    <3>1. native' = native /\ files' = files
      BY <2>24 DEF GiveUp, nativeVars
    <3> QED BY <3>1 DEF Causes
  <2>25. ASSUME NEW o \in Ops, Dispatch(o)
        PROVE  Causes
    BY <2>25
    DEF Dispatch, Causes, Shape, NativeShape, taskVars
  <2>26. ASSUME NEW o \in Ops, Timeout(o)
        PROVE  Causes
    <3>1. CancelEffect({}, {}, TRUE)
      BY <2>26 DEF Timeout, Cancelling
    <3>2. \A p \in Ops : native'[p] = "running" => native[p] = "running"
      BY <3>1 DEF CancelEffect
    <3>3. files' = files
      BY <2>26 DEF Timeout
    <3> QED BY <3>2, <3>3 DEF Causes
  <2>27. ASSUME NEW o \in Ops, NEW b \in BOOLEAN, Complete(o, b)
        PROVE  Causes
    <3>1. \A p \in Ops : native'[p] = "running" => native[p] = "running"
      BY <2>27 DEF Complete
    <3>2. \A p \in Ops : files'[p] = "removed" => files[p] = "removed"
      BY <2>27 DEF Complete, taskVars
    <3> QED BY <3>1, <3>2 DEF Causes
  <2>28. ASSUME StopClient
        PROVE  Causes
    <3>1. CancelEffect({}, {}, TRUE)
      BY <2>28 DEF StopClient, Cancelling
    <3>2. \A p \in Ops : native'[p] = "running" => native[p] = "running"
      BY <3>1 DEF CancelEffect
    <3>3. files' = files
      BY <2>28 DEF StopClient
    <3> QED BY <3>2, <3>3 DEF Causes
  <2>29. ASSUME NEW s \in stops, StopConfirmed(s)
        PROVE  Causes
    <3>1. \A p \in Ops : native'[p] = "running" => native[p] = "running"
      BY <2>29 DEF StopConfirmed
    <3>2. \A p \in Ops : files'[p] = "removed" => files[p] = "removed"
      BY <2>29 DEF StopConfirmed, taskVars
    <3> QED BY <3>1, <3>2 DEF Causes
  <2>30. ASSUME NEW s \in stops, NEW b \in BOOLEAN, StopUnconfirmed(s, b)
        PROVE  Causes
    <3>1. \A p \in Ops : native'[p] = "running" => native[p] = "running"
      BY <2>30 DEF StopUnconfirmed
    <3>2. \A p \in Ops : files'[p] = "removed" => files[p] = "removed"
      BY <2>30 DEF StopUnconfirmed, taskVars
    <3> QED BY <3>1, <3>2 DEF Causes
  <2>31. ASSUME IntentLost
        PROVE  Causes
    <3>1. native' = native /\ files' = files
      BY <2>31 DEF IntentLost, taskVars
    <3> QED BY <3>1 DEF Causes
  <2>32. ASSUME WindowsExit
        PROVE  Causes
    <3>1. \A p \in Ops : native'[p] = "running" => native[p] = "running"
      BY <2>32 DEF WindowsExit
    <3>2. \A p \in Ops : files'[p] = "removed" => files[p] = "removed"
      BY <2>32 DEF WindowsExit, taskVars
    <3> QED BY <3>1, <3>2 DEF Causes
  <2>33. ASSUME LateExit
        PROVE  Causes
    <3>1. native' = native /\ files' = files
      BY <2>33 DEF LateExit, taskVars
    <3> QED BY <3>1 DEF Causes
  <2>34. ASSUME FinalStopOk
        PROVE  Causes
    <3>1. native' = native /\ files' = files
      BY <2>34 DEF FinalStopOk, nativeVars, taskVars
    <3> QED BY <3>1 DEF Causes
  <2>35. ASSUME FinalStopFails
        PROVE  Causes
    <3>1. native' = native /\ files' = files
      BY <2>35 DEF FinalStopFails, nativeVars, taskVars
    <3> QED BY <3>1 DEF Causes
  <2>36. ASSUME TasksSettled
        PROVE  Causes
    <3>1. native' = native /\ files' = files
      BY <2>36 DEF TasksSettled, nativeVars, taskVars
    <3> QED BY <3>1 DEF Causes
  <2>37. ASSUME NEW o \in Ops, Drain(o)
        PROVE  Causes
    <3>1. native' = native /\ \A p \in Ops : p # o => files'[p] = files[p]
      BY <2>37 DEF Drain, nativeVars
    <3> QED BY <3>1, <2>37 DEF Causes
  <2>38. ASSUME NEW o \in Ops, DrainFails(o)
        PROVE  Causes
    <3>1. native' = native /\ files' = files
      BY <2>38 DEF DrainFails, nativeVars, taskVars
    <3> QED BY <3>1 DEF Causes
  <2>39. ASSUME Drained
        PROVE  Causes
    <3>1. native' = native /\ files' = files
      BY <2>39 DEF Drained, nativeVars, taskVars
    <3> QED BY <3>1 DEF Causes
  <2>40. ASSUME QuitDone
        PROVE  Causes
    <3>1. native' = native /\ files' = files
      BY <2>40 DEF QuitDone, vars, nativeVars, taskVars
    <3> QED BY <3>1 DEF Causes
  <2>41. QED
    BY <1>1, <2>1, <2>2, <2>3, <2>4, <2>5, <2>6, <2>7, <2>8, <2>9, <2>10, <2>11, <2>12,
       <2>13, <2>14, <2>15, <2>16, <2>17, <2>18, <2>19, <2>20, <2>21, <2>22, <2>23,
       <2>24, <2>25, <2>26, <2>27, <2>28, <2>29, <2>30, <2>31, <2>32, <2>33, <2>34,
       <2>35, <2>36, <2>37, <2>38, <2>39, <2>40
    DEF Next, Request, TaskStep, NativeStep, QuitStep, Ends, Unused, Known
<1>2. CASE UNCHANGED vars
  BY <1>2 DEF vars, nativeVars, taskVars, Causes
<1>3. QED BY <1>1, <1>2


---------------------------------------------------------------------------
(* The invariant, and what follows from it.                                *)

\* What the steps need of each other.
LedgerInv ==
    Shape /\ NativeInv /\ RecordsInv /\ FilesInv /\ InputInv /\ FallbackInv

LEMMA InitLedger == Init => LedgerInv
<1> SUFFICES ASSUME Init PROVE LedgerInv
  OBVIOUS
<1>1. Shape /\ NativeInv
  BY InitShape, InitNative
<1>2. Fresh \in Records /\ ~Fresh.broken /\ Fresh.reply = "none"
  BY DEF Fresh, Records, Statuses
<1>3. RecordsInv
  BY <1>2 DEF Init, RecordsInv
<1>4. FilesInv /\ InputInv
  BY DEF Init, FilesInv, InputInv
<1>5. FallbackInv
  BY <1>2 DEF Init, FallbackInv
<1> QED BY <1>1, <1>3, <1>4, <1>5 DEF LedgerInv

LEMMA StepLedger ==
    ASSUME LedgerInv, [Next]_vars
    PROVE  LedgerInv'
<1>1. Shape /\ NativeInv /\ RecordsInv /\ FilesInv /\ InputInv /\ FallbackInv
  BY DEF LedgerInv
<1>2. Shape'
  BY <1>1, StepShape
<1>3. NativeInv'
  BY <1>1, StepNative
<1>4. Stays
  BY <1>1, <1>2, StepStays
<1>5. RecordsInv'
  BY <1>1, <1>2, StepRecords
<1>6. FilesInv' /\ InputInv'
  BY <1>1, <1>2, <1>4, StepFiles
<1>7. FallbackInv'
  BY <1>1, <1>2, <1>4, StepFallback
<1> QED BY <1>2, <1>3, <1>5, <1>6, <1>7 DEF LedgerInv

\* The invariant of the ledger, the speech client's handles and the tasks.
THEOREM LedgerIsSound == Spec => []LedgerInv
BY InitLedger, StepLedger, PTL DEF Spec

\* The variables stay within their types; every record is one of the contract's.
THEOREM LedgerTypes == Spec => []TypeOK
<1>1. LedgerInv => TypeOK
  BY DEF LedgerInv, Shape, NativeShape, RestShape, RecordsInv, TypeOK
<1> QED BY <1>1, LedgerIsSound, PTL

\* notifyFailure(): when the domain is fenced, whatever the fault and whoever
\* reported it, every operation the ledger knows has its answer in that same turn.
THEOREM FencingAnswersAll == Spec => []FaultAnswersAll
<1>1. LedgerInv => FaultAnswersAll
  BY DEF LedgerInv, RecordsInv, RecordInv, FaultAnswersAll
<1> QED BY <1>1, LedgerIsSound, PTL

\* receipt() and finish() never build a state that normalize() refuses, in any
\* order of native receipts, cancellations, stops and revocations.
THEOREM ContractIsKept == Spec => []ContractHolds
<1>1. LedgerInv => ContractHolds
  BY DEF LedgerInv, RecordsInv, ContractHolds
<1> QED BY <1>1, LedgerIsSound, PTL

\* finish() reclaims a record only when its task is over and its input is gone.
THEOREM ReclaimedOwnsNothing == Spec => []RetiredOwnsNothing
<1>1. ASSUME LedgerInv, NEW o \in Ops, hist[o] = "retired"
      PROVE  pc[o] \in {"idle", "over"} /\ files[o] \in {"none", "removed"}
  <2>1. pc[o] \in {"idle", "over"}
    BY <1>1 DEF LedgerInv, NativeInv, PlaceInv
  <2>2. files[o] \in {"none", "held", "stuck", "removed"}
    BY <1>1 DEF LedgerInv, Shape, RestShape
  <2> QED BY <1>1, <2>1, <2>2 DEF LedgerInv, FilesInv
<1>2. LedgerInv => RetiredOwnsNothing
  BY <1>1 DEF RetiredOwnsNothing
<1> QED BY <1>2, LedgerIsSound, PTL

\* A reply that lets the renderer run the request elsewhere is sent only when the
\* native work is over and the input gone, after an error of the runtime or a
\* confirmed timeout; and it stays true for ever.
THEOREM ElsewhereIsSafe == Spec => []FallbackIsSafe
<1>1. LedgerInv => FallbackIsSafe
  BY DEF LedgerInv, FallbackInv, FallbackIsSafe
<1> QED BY <1>1, LedgerIsSound, PTL

\* _checkOperation() keeps a request that was answered away from the runtime.
THEOREM AnsweredIsNotSent == Spec => NoDispatchAfterAnswer
<1>1. ASSUME LedgerInv, Causes, NEW o \in Ops, native[o] # "running", native'[o] = "running"
      PROVE  rec[o].reply = "none" /\ fault = "none"
  <2>1. Dispatch(o)
    BY <1>1 DEF Causes
  <2>2. pc[o] = "requested" /\ hist[o] = "known" /\ fault = "none" /\ ~rec[o].revoked
    BY <2>1 DEF Dispatch, Permitted, Allowed, At
  <2>3. rec[o].reply # "none" => fault # "none" \/ rec[o].revoked \/ pc[o] = "over"
    BY <1>1, <2>2 DEF LedgerInv, RecordsInv, RecordInv
  <2> QED BY <2>2, <2>3
<1>2. LedgerInv /\ [Next]_vars => Causes
  BY StepCauses DEF LedgerInv
<1>3. LedgerInv /\ [Next]_vars =>
        [\A o \in Ops : native[o] # "running" /\ native'[o] = "running" =>
                          rec[o].reply = "none" /\ fault = "none"]_vars
  BY <1>1, <1>2
<1> QED BY <1>3, LedgerIsSound, PTL DEF Spec, NoDispatchAfterAnswer

\* The finally of voice:stt, and drainFiles() at Quit, remove an input only when
\* nothing native can read it any more.
THEOREM InputsOutliveUse == Spec => InputOutlivesUse
<1>1. ASSUME LedgerInv, Causes, NEW o \in Ops, files[o] # "removed", files'[o] = "removed"
      PROVE  o \notin used \/ native[o] \in Safe \/ drain[o] = "confirmed"
  <2>1. RemoveInput(o) \/ Drain(o)
    BY <1>1 DEF Causes
  <2>2. CASE RemoveInput(o)
    BY <1>1, <2>2 DEF RemoveInput, At, LedgerInv, InputInv, Safe
  <2>3. CASE Drain(o)
    BY <2>3 DEF Drain
  <2> QED BY <2>1, <2>2, <2>3
<1>2. LedgerInv /\ [Next]_vars => Causes
  BY StepCauses DEF LedgerInv
<1>3. LedgerInv /\ [Next]_vars =>
        [\A o \in Ops : files[o] # "removed" /\ files'[o] = "removed" =>
                          \/ o \notin used \/ native[o] \in Safe
                          \/ drain[o] = "confirmed"]_vars
  BY <1>1, <1>2
<1> QED BY <1>3, LedgerIsSound, PTL DEF Spec, InputOutlivesUse

\* What an observer is shown of a record.
Shown(r) == [r EXCEPT !.reply = "none", !.broken = FALSE]

\* A record that looks different has a higher revision.
LEMMA EvolvesIsVisible ==
    ASSUME NEW r \in Records, NEW t \in Records, Evolves(r, t), Shown(r) # Shown(t)
    PROVE  t.rev > r.rev
<1>1. SUFFICES ASSUME t.rev = r.rev PROVE FALSE
  BY DEF Evolves, Records
<1>2. /\ t.logical = r.logical /\ t.revoked = r.revoked /\ t.status = r.status
      /\ t.cleanup = r.cleanup /\ t.failure = r.failure
  BY <1>1 DEF Evolves
<1> QED BY <1>1, <1>2 DEF Shown, Records

\* How the records of the operations the ledger knows may change.
LEMMA StepEvolves ==
    ASSUME LedgerInv, [Next]_vars, NEW o \in Ops, hist[o] = "known"
    PROVE  rec[o] \in Records /\ rec'[o] \in Records /\ Evolves(rec[o], rec'[o])
<1>0. /\ Shape /\ Shape' /\ NativeInv /\ RecordsInv /\ FilesInv
      /\ rec \in [Ops -> Records] /\ rec' \in [Ops -> Records]
  BY StepLedger DEF LedgerInv, RecordsInv
<1>1. CASE LedgerTurn
  BY <1>0, <1>1 DEF LedgerTurn
<1>2. ASSUME NEW p \in Ops, NEW v \in BOOLEAN, Admit(p, v)
      PROVE  Evolves(rec[o], rec'[o])
  <2>1. rec' = [rec EXCEPT ![p] = rec'[p]] /\ hist[p] = "unknown"
    BY <1>0, <1>2, AdmitRecord
  <2> QED BY <1>0, <2>1, EvolvesReflexive
<1>3. ASSUME NEW p \in Ops, Deliver(p) \/ (GiveUp(p) /\ Informed(p))
      PROVE  Evolves(rec[o], rec'[o])
  <2>1. rec' = [rec EXCEPT ![p] = rec'[p]] /\ Evolves(rec[p], rec'[p])
    BY <1>0, <1>3, DeliverIs, GiveUpIs
  <2> QED BY <1>0, <2>1, EvolvesReflexive
<1> QED BY <1>0, <1>1, <1>2, <1>3, StepTurns DEF Turns, AdmitsOrEnds

\* change(): another state of a record, seen by observe(), has a higher revision.
THEOREM EveryChangeIsSeen == Spec => ChangesAreVisible
<1>1. ASSUME LedgerInv, [Next]_vars, NEW o \in Known, Shown(rec[o]) # Shown(rec'[o])
      PROVE  rec'[o].rev > rec[o].rev
  BY <1>1, StepEvolves, EvolvesIsVisible DEF Known
<1>2. LedgerInv /\ [Next]_vars =>
        [\A o \in Known : LET S(r) == [r EXCEPT !.reply = "none", !.broken = FALSE]
                           IN S(rec[o]) # S(rec'[o]) => rec'[o].rev > rec[o].rev]_vars
  BY <1>1 DEF Shown
<1> QED BY <1>2, LedgerIsSound, PTL DEF Spec, ChangesAreVisible
---------------------------------------------------------------------------
(* The ledger implements OperationLife.                                    *)

\* The answer of the abstract operation, from the reply of the record.
LEMMA AnswerIs ==
    ASSUME NEW o \in Ops, rec[o] \in Records
    PROVE  /\ AnswerOf(o) \in {"none", "result", "fallback", "failed"}
           /\ (AnswerOf(o) = "none") <=> (rec[o].reply = "none")
           /\ rec[o].reply \in {"result", "fallback"} => AnswerOf(o) = rec[o].reply
           /\ rec[o].reply \in Codes => AnswerOf(o) = "failed"
BY DEF AnswerOf, Records, Codes, Faults

LEMMA InitIsLife == Init => Life!LifeInit
BY DEF Init, Life!LifeInit, AnswerOf, Fresh

\* What one step does to one operation, as Refuse allows it.
Refused(o) ==
    /\ hist'[o] # hist[o] => hist'[o] = "retired"
    /\ AnswerOf(o)' # AnswerOf(o) =>
           hist[o] = "known" /\ AnswerOf(o) = "none" /\ AnswerOf(o)' = "failed"
    /\ hist[o] = "known" /\ (fault' # "none" \/ hist'[o] = "retired") => AnswerOf(o)' # "none"

\* Every operation refused, or left alone, is a step of the abstract domain.
LEMMA RefusedIsRefuse ==
    ASSUME LedgerInv, LedgerInv', fault # "none" => fault' # "none",
           \A o \in Ops : Refused(o)
    PROVE  Life!Refuse
<1>1. \A o \in Ops : AnswerOf(o)' \in {"none", "result", "fallback", "failed"}
  <2>1. \A o \in Ops : rec'[o] \in Records
    BY DEF LedgerInv, RecordsInv
  <2> QED BY <2>1 DEF AnswerOf, Records
<1>2. hist' \in [Ops -> {"unknown", "known", "retired"}]
  BY DEF LedgerInv, Shape, RestShape
<1> QED BY <1>1, <1>2 DEF Life!Refuse, Refused

\* An answer that was given stays; nothing else changes for an operation whose
\* record is not touched.
LEMMA SameIsRefused ==
    ASSUME LedgerInv, NEW o \in Ops, hist'[o] = hist[o], rec'[o] = rec[o], fault' = fault
    PROVE  Refused(o)
<1>1. rec[o] \in Records /\ AnswerOf(o)' = AnswerOf(o)
  BY DEF LedgerInv, RecordsInv, AnswerOf
<1>2. hist[o] = "known" /\ fault # "none" => rec[o].reply # "none"
  BY DEF LedgerInv, RecordsInv, RecordInv
<1>3. hist'[o] # "retired" \/ hist[o] # "known"
  OBVIOUS
<1> QED BY <1>1, <1>2, <1>3, AnswerIs DEF Refused

\* A turn answers nothing but refusals.
LEMMA TurnsRefuse ==
    ASSUME LedgerInv, LedgerInv', Turns
    PROVE  Life!Refuse
<1>1. ASSUME NEW o \in Ops PROVE Refused(o)
  <2>1. rec[o] \in Records /\ rec'[o] \in Records
    BY DEF LedgerInv, RecordsInv
  <2>2. hist'[o] # hist[o] => hist'[o] = "retired"
    BY DEF Turns, MemoryTurn
  <2>3. CASE hist[o] # "known"
    <3>1. AnswerOf(o)' = AnswerOf(o)
      BY <2>3 DEF Turns, LedgerTurn, AnswerOf
    <3> QED BY <2>2, <2>3, <3>1 DEF Refused
  <2>4. CASE hist[o] = "known"
    <3>1. /\ rec[o].reply # "none" => rec'[o].reply = rec[o].reply
          /\ rec[o].reply = "none" => rec'[o].reply \in Codes \cup {"none"}
          /\ fault' # "none" => rec'[o].reply # "none"
      BY <2>4 DEF Turns, LedgerTurn, Evolves
    <3>2. hist'[o] = "retired" => rec'[o].reply # "none"
      <4>1. hist'[o] = "retired" => pc[o] = "over"
        BY <2>4 DEF Turns, MemoryTurn
      <4>2. pc[o] = "over" => rec[o].reply # "none"
        BY <2>4 DEF LedgerInv, RecordsInv, RecordInv
      <4> QED BY <3>1, <4>1, <4>2
    <3>3. AnswerOf(o)' # AnswerOf(o) => AnswerOf(o) = "none" /\ AnswerOf(o)' = "failed"
      BY <3>1, <2>1 DEF AnswerOf, Codes, Faults
    <3>4. rec'[o].reply # "none" => AnswerOf(o)' # "none"
      BY DEF AnswerOf
    <3> QED BY <2>2, <2>4, <3>1, <3>2, <3>3, <3>4 DEF Refused
  <2> QED BY <2>3, <2>4
<1>2. fault # "none" => fault' # "none"
  BY DEF Turns, LedgerTurn
<1> QED BY <1>1, <1>2, RefusedIsRefuse

\* Admission implements Accept, a delivery Serve, and giving up one of Serve and Refuse.
LEMMA AdmitAccepts ==
    ASSUME LedgerInv, NEW o \in Ops, NEW v \in BOOLEAN, Admit(o, v)
    PROVE  Life!Accept(o)
<1>1. /\ hist[o] = "unknown" /\ fault = "none" /\ fault' = "none"
      /\ hist' = [hist EXCEPT ![o] = "known"]
      /\ rec' = [rec EXCEPT ![o] = rec'[o]] /\ rec'[o].reply = "none"
  BY AdmitRecord DEF LedgerInv
<1>2. rec \in [Ops -> Records] /\ rec[o].reply = "none"
  BY <1>1 DEF LedgerInv, RecordsInv, Fresh
<1>3. \A p \in Ops : AnswerOf(p)' = AnswerOf(p)
  BY <1>1, <1>2 DEF AnswerOf
<1> QED BY <1>1, <1>3 DEF Life!Accept

LEMMA DeliverServes ==
    ASSUME LedgerInv, NEW o \in Ops, Deliver(o)
    PROVE  Life!Serve(o)
<1>1. /\ hist[o] = "known" /\ fault = "none" /\ fault' = "none"
      /\ hist' = [hist EXCEPT ![o] = "retired"]
      /\ rec' = [rec EXCEPT ![o] = rec'[o]]
      /\ rec[o].reply = "none" /\ rec'[o].reply = "result"
  BY DeliverIs DEF LedgerInv
<1>2. rec \in [Ops -> Records]
  BY DEF LedgerInv, RecordsInv
<1>3. /\ AnswerOf(o) = "none" /\ AnswerOf(o)' = "result"
      /\ \A p \in Ops : p # o => AnswerOf(p)' = AnswerOf(p)
  BY <1>1, <1>2 DEF AnswerOf
<1>4. [p \in Ops |-> AnswerOf(p)'] = [[p \in Ops |-> AnswerOf(p)] EXCEPT ![o] = "result"]
  BY <1>3
<1> QED BY <1>1, <1>3, <1>4 DEF Life!Serve

LEMMA GiveUpServesOrRefuses ==
    ASSUME LedgerInv, LedgerInv', NEW o \in Ops, GiveUp(o), Informed(o)
    PROVE  Life!Serve(o) \/ Life!Refuse
<1>1. /\ hist[o] = "known" /\ fault' = fault
      /\ hist' = [hist EXCEPT ![o] = hist'[o]] /\ hist'[o] \in {"known", "retired"}
      /\ rec' = [rec EXCEPT ![o] = rec'[o]]
      /\ Evolves(rec[o], rec'[o]) /\ rec'[o].reply # "none"
      /\ rec[o].reply = "none" =>
           \/ rec'[o].reply \in Codes
           \/ rec'[o].reply = "fallback" /\ fault = "none"
  BY GiveUpIs DEF LedgerInv
<1>2. rec \in [Ops -> Records] /\ rec' \in [Ops -> Records]
  BY DEF LedgerInv, RecordsInv
<1>3. \A p \in Ops : p # o => /\ rec'[p] = rec[p] /\ hist'[p] = hist[p]
  BY <1>1, <1>2 DEF LedgerInv, Shape, RestShape
<1>4. CASE rec[o].reply = "none" /\ rec'[o].reply = "fallback" /\ fault = "none"
  <2>1. /\ AnswerOf(o) = "none" /\ AnswerOf(o)' = "fallback"
        /\ \A p \in Ops : p # o => AnswerOf(p)' = AnswerOf(p)
    BY <1>3, <1>4 DEF AnswerOf
  <2>2. [p \in Ops |-> AnswerOf(p)'] = [[p \in Ops |-> AnswerOf(p)] EXCEPT ![o] = "fallback"]
    BY <2>1
  <2> QED BY <1>1, <1>4, <2>1, <2>2 DEF Life!Serve
<1>5. CASE rec[o].reply # "none" \/ rec'[o].reply \in Codes
  <2>1. Refused(o)
    <3>1. AnswerOf(o)' # "none"
      BY <1>1 DEF AnswerOf
    <3>2. AnswerOf(o)' # AnswerOf(o) => AnswerOf(o) = "none" /\ AnswerOf(o)' = "failed"
      <4>1. rec[o].reply # "none" => rec'[o].reply = rec[o].reply
        BY <1>1 DEF Evolves
      <4>2. rec'[o].reply \in Codes => AnswerOf(o)' = "failed"
        BY DEF AnswerOf, Codes, Faults
      <4>3. rec[o].reply = "none" => AnswerOf(o) = "none"
        BY DEF AnswerOf
      <4>4. rec'[o].reply = rec[o].reply => AnswerOf(o)' = AnswerOf(o)
        BY DEF AnswerOf
      <4> QED BY <1>5, <4>1, <4>2, <4>3, <4>4
    <3> QED BY <1>1, <3>1, <3>2 DEF Refused
  <2>2. ASSUME NEW p \in Ops, p # o PROVE Refused(p)
    BY <1>1, <1>3, <2>2, SameIsRefused
  <2>3. \A p \in Ops : Refused(p)
    BY <2>1, <2>2
  <2> QED BY <1>1, <2>3, RefusedIsRefuse
<1> QED BY <1>1, <1>4, <1>5

\* Every step of the ledger is one of OperationLife, or leaves it alone.
LEMMA StepIsLife ==
    ASSUME LedgerInv, [Next]_vars
    PROVE  Life!LifeNext
<1>1. LedgerInv' /\ Shape /\ Shape' /\ NativeInv /\ RecordsInv
  BY StepLedger DEF LedgerInv
<1>2. CASE Turns
  BY <1>1, <1>2, TurnsRefuse DEF Life!LifeNext
<1>3. CASE AdmitsOrEnds
  BY <1>1, <1>3, AdmitAccepts, DeliverServes, GiveUpServesOrRefuses
  DEF AdmitsOrEnds, Life!LifeNext
<1> QED BY <1>1, <1>2, <1>3, StepTurns

\* Main's ledger keeps the promise it makes to a renderer: an id is accepted at
\* most once and only while the domain is open, an accepted request gets one
\* answer, and the turn that fences the domain leaves nobody without one.
THEOREM LedgerKeepsPromise == Spec => LifeSpec
<1>1. LedgerInv /\ [Next]_vars => [Life!LifeNext]_(Life!lifeVars)
  BY StepIsLife
<1> QED BY <1>1, InitIsLife, LedgerIsSound, PTL DEF Spec, LifeSpec, Life!LifeSpec
=============================================================================
