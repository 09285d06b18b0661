--------------------------- MODULE OperationLife ---------------------------
(***************************************************************************)
(* What the voice ledger promises to a renderer about its request ids: an  *)
(* id is accepted at most once, an accepted request gets one answer, and   *)
(* the domain is either open or fenced.  Fencing is one step: it answers   *)
(* every accepted request, and nothing is accepted or served after it.     *)
(***************************************************************************)
CONSTANT Ops

VARIABLES
    know,       \* "unknown", "known" or "retired": what observe() says of an id
    answer,     \* "none", "result", "fallback" or "failed"
    fenced      \* the domain is closed for good

lifeVars == <<know, answer, fenced>>

LifeInit ==
    /\ know = [o \in Ops |-> "unknown"]
    /\ answer = [o \in Ops |-> "none"]
    /\ fenced = FALSE

\* A request with a new id is accepted while the domain is open.
Accept(o) ==
    /\ know[o] = "unknown" /\ ~fenced
    /\ know' = [know EXCEPT ![o] = "known"]
    /\ UNCHANGED <<answer, fenced>>

\* An accepted request is served, with its result or with the permission to run
\* it elsewhere; its record may be reclaimed at once.
Serve(o) ==
    /\ know[o] = "known" /\ ~fenced /\ answer[o] = "none"
    /\ \E a \in {"result", "fallback"} : answer' = [answer EXCEPT ![o] = a]
    /\ \E k \in {"known", "retired"} : know' = [know EXCEPT ![o] = k]
    /\ UNCHANGED fenced

\* Some accepted requests fail, some ids are used up without being accepted, some
\* answered records are reclaimed; when the domain is fenced nobody is left out.
Refuse ==
    /\ fenced => fenced'
    /\ know' \in [Ops -> {"unknown", "known", "retired"}]
    /\ answer' \in [Ops -> {"none", "result", "fallback", "failed"}]
    /\ \A o \in Ops :
        /\ know'[o] # know[o] => know'[o] = "retired"
        /\ answer'[o] # answer[o] =>
               know[o] = "known" /\ answer[o] = "none" /\ answer'[o] = "failed"
        /\ know[o] = "known" /\ (fenced' \/ know'[o] = "retired") => answer'[o] # "none"

LifeNext == Refuse \/ \E o \in Ops : Accept(o) \/ Serve(o)

LifeSpec == LifeInit /\ [][LifeNext]_lifeVars
=============================================================================
