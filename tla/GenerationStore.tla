-------------------------- MODULE GenerationStore --------------------------
(***************************************************************************)
(* What the managed asset store promises about its files: an asset has an  *)
(* active and a previous generation, a generation is published only when   *)
(* it is completely stored, and a stored generation that is referenced     *)
(* disappears only with the removal of its own asset.                      *)
(***************************************************************************)
CONSTANTS Assets, Roots, None

VARIABLES
    stored,     \* generations completely on disk
    current,    \* the active generation of each asset
    previous,   \* the generation before it
    damaged     \* generations that a removal which failed half way took away

vars == <<stored, current, previous, damaged>>

ReferencedBy(a) == {current[a], previous[a]} \ {None}

ReferencedIn(S) == UNION {ReferencedBy(a) : a \in S}

Init ==
    /\ stored = {}
    /\ current = [a \in Assets |-> None]
    /\ previous = [a \in Assets |-> None]
    /\ damaged = {}

\* A generation becomes complete.
Complete(r) ==
    /\ r \notin stored
    /\ stored' = stored \cup {r}
    /\ UNCHANGED <<current, previous, damaged>>

\* A complete generation nobody references becomes the active one.
Publish(a, r) ==
    /\ r \in stored \ ReferencedIn(Assets)
    /\ current' = [current EXCEPT ![a] = r]
    /\ previous' = [previous EXCEPT ![a] = current[a]]
    /\ UNCHANGED <<stored, damaged>>

\* Unreferenced generations are reclaimed.
Collect(S) ==
    /\ S \cap ReferencedIn(Assets) = {}
    /\ stored' = stored \ S
    /\ UNCHANGED <<current, previous, damaged>>

\* The user removes an asset: its metadata goes, and generations that no other
\* asset references.
RemoveAsset(a, S) ==
    /\ S \cap ReferencedIn(Assets \ {a}) = {}
    /\ stored' = stored \ S
    /\ current' = [current EXCEPT ![a] = None]
    /\ previous' = [previous EXCEPT ![a] = None]
    /\ UNCHANGED damaged

\* The removal fails half way: what it took away is known to be damaged.
RemovePart(a, S) ==
    /\ S \cap ReferencedIn(Assets \ {a}) = {}
    /\ stored' = stored \ S
    /\ damaged' = damaged \cup S
    /\ \/ /\ current' = [current EXCEPT ![a] = None]
          /\ previous' = [previous EXCEPT ![a] = None]
       \/ UNCHANGED <<current, previous>>

Next ==
    \/ \E r \in Roots : Complete(r)
    \/ \E a \in Assets, r \in Roots : Publish(a, r)
    \/ \E S \in SUBSET Roots : Collect(S)
    \/ \E a \in Assets, S \in SUBSET Roots : RemoveAsset(a, S) \/ RemovePart(a, S)

Spec == Init /\ [][Next]_vars
============================================================================
