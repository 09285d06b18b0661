---------------------- MODULE AssetCoordinatorProofs ----------------------
(***************************************************************************)
(* Proofs about AssetCoordinator, for any number of models, roots and any  *)
(* limits.  TypeOK is not inductive: that the records in use stay in known *)
(* needs the pin every operation holds on its own root (SelfPinned).  Then *)
(* the slots of the coordinator are tied to the operations that hold them  *)
(* (Slots), the pins to the directories in use (InUseOnDisk) and the       *)
(* metadata to the files (Files).  On top of that stand the accounts of    *)
(* the coordinator (Kept): what it owes, may delete, and has promised.     *)
(***************************************************************************)
EXTENDS AssetCoordinator, FiniteSetTheorems, TLAPS

\* Every operation and lease pins its own root until it lets go of it.
SelfPinned ==
    \A r \in Roots :
        phase[r] \in (InstallPhases \ {"unwinding"}) \cup PreparePhases
                     \cup {"leased", "void"} => <<r, r>> \in pins

Typed == TypeOK /\ SelfPinned

\* Where an operation is, what it was drawn for and which slot it holds.
Slots ==
    /\ \A r \in Roots :
         /\ phase[r] = "fresh" => meta[r] = None
         /\ phase[r] \in InstallPhases \cup {"finished"} => meta[r] \in Assets
         /\ phase[r] \in PreparePhases \cup {"leased", "void"} => meta[r] = None
         /\ Holding(r) => r \in shared \/ r = exclusive
         /\ r \in shared => meta[r] \in Models /\ phase[r] # "fresh"
         /\ r = exclusive => meta[r] \notin Models /\ phase[r] # "fresh"
    /\ exclusive # None => shared = {}
    /\ \A r, s \in shared : meta[r] = meta[s] => r = s

PastCommit == {"committed", "unwinding", "finished", "over", "lost"}

\* Every generation that metadata names was drawn for that asset, is
\* past its commit and is there.
Files ==
    \A a \in Assets : \A r \in {current[a], previous[a]} \ {None} :
        /\ meta[r] = a
        /\ phase[r] \in PastCommit
        /\ disk[r] = "full" \/ r \in damaged

---------------------------------------------------------------------------

\* What cleanup() may do to the records and the directories.
LEMMA CleanupFacts ==
    ASSUME TypeOK, NEW ps, Cleanup(ps)
    PROVE  /\ known' \subseteq known
           /\ owned' \subseteq known'
           /\ err' \subseteq known'
           /\ reserved' \subseteq known'
           /\ keep \subseteq known'
           /\ \A r \in known : Pinned(r, ps) => r \in known'
           /\ disk' \in [Roots -> {"absent", "empty", "full"}]
           /\ \A r \in Roots : disk'[r] # disk[r]
                => ~Pinned(r, ps) /\ ~Referenced(r) /\ disk'[r] = "absent"
<1>1. PICK stuck \in SUBSET Removable(ps) :
        /\ known' = known \ Gone(ps, stuck)
        /\ owned' = owned \ Gone(ps, stuck)
        /\ err' = (err \cup Removable(ps)) \ Gone(ps, stuck)
        /\ reserved' = reserved \ Gone(ps, stuck)
        /\ disk' = [r \in Roots |-> IF r \in Deleted(Gone(ps, stuck))
                                      THEN "absent" ELSE disk[r]]
  BY DEF Cleanup
<1>2. \A r \in Gone(ps, stuck) :
        /\ r \in known /\ r \notin keep /\ ~Pinned(r, ps)
        /\ r \in owned => ~Referenced(r)
  BY DEF Gone, Removable
<1>3. Deleted(Gone(ps, stuck)) \subseteq owned \cap Gone(ps, stuck)
  BY DEF Deleted
<1>4. Removable(ps) \subseteq known
  BY DEF Removable
<1>5. known' \subseteq known /\ owned' \subseteq known' /\ err' \subseteq known'
      /\ reserved' \subseteq known' /\ keep \subseteq known'
  BY <1>1, <1>2, <1>4 DEF TypeOK
<1>6. \A r \in known : Pinned(r, ps) => r \in known'
  BY <1>1, <1>2
<1>7. disk' \in [Roots -> {"absent", "empty", "full"}]
  BY <1>1 DEF TypeOK
<1>8. ASSUME NEW r \in Roots, disk'[r] # disk[r]
      PROVE  ~Pinned(r, ps) /\ ~Referenced(r) /\ disk'[r] = "absent"
  BY <1>1, <1>2, <1>3, <1>8
<1>9. QED BY <1>5, <1>6, <1>7, <1>8

\* A pin that survives still has its record after cleanup().
LEMMA PinsKeepRecords ==
    ASSUME TypeOK, NEW ps \in SUBSET pins, Cleanup(ps)
    PROVE  ps \subseteq known' \X (Roots \cup {Probe})
<1>1. ASSUME NEW p \in ps
      PROVE  p \in known' \X (Roots \cup {Probe})
  <2>1. PICK r \in known, o \in Roots \cup {Probe} : p = <<r, o>>
    BY DEF TypeOK
  <2>2. Pinned(r, ps)
    BY <1>1, <2>1 DEF Pinned
  <2>3. QED BY <2>1, <2>2, CleanupFacts
<1>2. QED BY <1>1

\* What pin.release() may do, with or without an operation active.
LEMMA ReleaseFacts ==
    ASSUME TypeOK, NEW ps, ReleasePins(ps)
    PROVE  /\ pins' = pins \ ps
           /\ known' \subseteq known
           /\ owned' \subseteq known'
           /\ err' \subseteq known'
           /\ reserved' \subseteq known'
           /\ keep \subseteq known'
           /\ pins' \subseteq known' \X (Roots \cup {Probe})
           /\ disk' \in [Roots -> {"absent", "empty", "full"}]
           /\ \A r \in Roots : disk'[r] # disk[r]
                => ~Pinned(r, pins') /\ ~Referenced(r) /\ disk'[r] = "absent"
<1>1. CASE Idle
  <2>1. pins' = pins \ ps /\ Cleanup(pins')
    BY <1>1 DEF ReleasePins
  <2>2. pins' \in SUBSET pins
    BY <2>1
  <2>3. QED BY <2>1, <2>2, CleanupFacts, PinsKeepRecords
<1>2. CASE ~Idle
  BY <1>2 DEF ReleasePins, TypeOK
<1>3. QED BY <1>1, <1>2

LEMMA TypedInductive == Typed /\ [Next]_vars => Typed'
<1> SUFFICES ASSUME Typed, [Next]_vars PROVE Typed'
  OBVIOUS
<1> USE NamesDistinct DEF Typed, TypeOK, SelfPinned, Phases, InstallPhases,
        PreparePhases, Go, vars, coordinatorVars, lockVars, fileVars
<1>1. CASE Next
<2>1. ASSUME NEW a \in Assets, NEW r \in Roots, StartInstall(a, r)
      PROVE  Typed'
  BY <2>1 DEF StartInstall
<2>2. ASSUME NEW r \in Roots, Write(r)
      PROVE  Typed'
  BY <2>2 DEF Write, Stored
<2>3. ASSUME NEW r \in Roots, StartProbe(r)
      PROVE  Typed'
  <3>1. <<r, r>> \in pins /\ r \in known
    BY <2>3 DEF StartProbe
  <3>2. QED BY <2>3, <3>1 DEF StartProbe
<2>4. ASSUME NEW r \in Roots, ProbePasses(r)
      PROVE  Typed'
  BY <2>4 DEF ProbePasses
<2>5. ASSUME NEW r \in Roots, ProbeFails(r)
      PROVE  Typed'
  BY <2>5 DEF ProbeFails
<2>6. ASSUME NEW r \in Roots, ReleaseProbe(r)
      PROVE  Typed'
  BY <2>6, ReleaseFacts DEF ReleaseProbe
<2>7. ASSUME NEW r \in Roots, Fail(r)
      PROVE  Typed'
  BY <2>7 DEF Fail
<2>8. ASSUME NEW r \in Roots, Commit(r)
      PROVE  Typed'
  BY <2>8 DEF Commit, Activated, Retained
<2>9. ASSUME NEW r \in Roots, ReleaseInstallPin(r)
      PROVE  Typed'
  BY <2>9 DEF ReleaseInstallPin
<2>10. ASSUME NEW r \in Roots, FinishInstall(r)
      PROVE  Typed'
  BY <2>10, CleanupFacts, PinsKeepRecords DEF FinishInstall, Finish
<2>11. ASSUME NEW r \in Roots, Settle(r)
      PROVE  Typed'
  BY <2>11 DEF Settle
<2>12. ASSUME NEW r \in Roots, Cancel(r)
      PROVE  Typed'
  BY <2>12 DEF Cancel
<2>13. ASSUME NEW r \in Roots, StartPrepare(r)
      PROVE  Typed'
  BY <2>13 DEF StartPrepare
<2>14. ASSUME NEW r \in Roots, MakeSnapshot(r)
      PROVE  Typed'
  BY <2>14 DEF MakeSnapshot
<2>15. ASSUME NEW r \in Roots, NEW a \in Sources, PinSource(r, a)
      PROVE  Typed'
  BY <2>15 DEF PinSource, PinAdmitted
<2>16. ASSUME NEW r \in Roots, CopyDone(r)
      PROVE  Typed'
  BY <2>16 DEF CopyDone
<2>17. ASSUME NEW r \in Roots, PrepareFails(r)
      PROVE  Typed'
  BY <2>17 DEF PrepareFails
<2>18. ASSUME NEW r \in Roots, NEW s \in Roots, ReleaseSource(r, s)
      PROVE  Typed'
  BY <2>18, ReleaseFacts DEF ReleaseSource
<2>19. ASSUME NEW r \in Roots, FinishPrepare(r)
      PROVE  Typed'
  BY <2>19, CleanupFacts, PinsKeepRecords DEF FinishPrepare, Finish
<2>20. ASSUME NEW r \in Roots, CancelPrepare(r)
      PROVE  Typed'
  BY <2>20 DEF CancelPrepare
<2>21. ASSUME NEW r \in Roots, ReleaseLease(r)
      PROVE  Typed'
  BY <2>21, ReleaseFacts DEF ReleaseLease
<2>22. ASSUME NEW r \in Roots, RetryRelease(r)
      PROVE  Typed'
  BY <2>22, CleanupFacts, PinsKeepRecords DEF RetryRelease
<2>23. ASSUME NEW m \in Models, Remove(m)
      PROVE  Typed'
  <3>1. ASSUME NEW p \in pins
        PROVE  p \in (known \ RootsOf(m)) \X (Roots \cup {Probe})
    <4>1. PICK x \in known, o \in Roots \cup {Probe} : p = <<x, o>>
      OBVIOUS
    <4>2. Pinned(x, pins)
      BY <4>1 DEF Pinned
    <4>3. x \notin RootsOf(m)
      BY <2>23, <4>2 DEF Remove, RemoveAllowed
    <4>4. QED BY <4>1, <4>3
  <3>2. SelfPinned'
    BY <2>23 DEF Remove
  <3>3. TypeOK'
    BY <2>23, <3>1 DEF Remove, RootsOf
  <3>4. QED BY <3>2, <3>3
<2>24. ASSUME NEW m \in Models, RemoveFails(m)
      PROVE  Typed'
  BY <2>24 DEF RemoveFails, RootsOf
<2>25. ASSUME Restart
      PROVE  Typed'
  BY <2>25 DEF Restart
<2>26. QED
  BY <1>1, <2>1, <2>2, <2>3, <2>4, <2>5, <2>6, <2>7, <2>8, <2>9,
     <2>10, <2>11, <2>12, <2>13, <2>14, <2>15, <2>16, <2>17, <2>18,
     <2>19, <2>20, <2>21, <2>22, <2>23, <2>24, <2>25
  DEF Next, InstallStep, PrepareStep
<1>2. CASE UNCHANGED vars
  BY <1>2
<1>3. QED BY <1>1, <1>2

---------------------------------------------------------------------------

LEMMA SlotsInductive == Typed /\ Slots /\ [Next]_vars => Slots'
<1> SUFFICES ASSUME Typed, Slots, [Next]_vars PROVE Slots'
  OBVIOUS
<1> USE NamesDistinct DEF Typed, TypeOK, Slots, Holding, Phases, InstallPhases,
        PreparePhases, Assets, Go, vars, coordinatorVars, lockVars, fileVars
<1>1. CASE Next
<2>1. ASSUME NEW a \in Assets, NEW r \in Roots, StartInstall(a, r)
      PROVE  Slots'
  BY <2>1 DEF StartInstall, BeginAllowed
<2>2. ASSUME NEW r \in Roots, Write(r)
      PROVE  Slots'
  BY <2>2 DEF Write, Stored
<2>3. ASSUME NEW r \in Roots, StartProbe(r)
      PROVE  Slots'
  BY <2>3 DEF StartProbe
<2>4. ASSUME NEW r \in Roots, ProbePasses(r)
      PROVE  Slots'
  BY <2>4 DEF ProbePasses
<2>5. ASSUME NEW r \in Roots, ProbeFails(r)
      PROVE  Slots'
  BY <2>5 DEF ProbeFails
<2>6. ASSUME NEW r \in Roots, ReleaseProbe(r)
      PROVE  Slots'
  BY <2>6 DEF ReleaseProbe
<2>7. ASSUME NEW r \in Roots, Fail(r)
      PROVE  Slots'
  BY <2>7 DEF Fail, MayFail
<2>8. ASSUME NEW r \in Roots, Commit(r)
      PROVE  Slots'
  BY <2>8 DEF Commit
<2>9. ASSUME NEW r \in Roots, ReleaseInstallPin(r)
      PROVE  Slots'
  BY <2>9 DEF ReleaseInstallPin
<2>10. ASSUME NEW r \in Roots, FinishInstall(r)
      PROVE  Slots'
  BY <2>10 DEF FinishInstall, Finish
<2>11. ASSUME NEW r \in Roots, Settle(r)
      PROVE  Slots'
  BY <2>11 DEF Settle
<2>12. ASSUME NEW r \in Roots, Cancel(r)
      PROVE  Slots'
  BY <2>12 DEF Cancel
<2>13. ASSUME NEW r \in Roots, StartPrepare(r)
      PROVE  Slots'
  BY <2>13 DEF StartPrepare, BeginAllowed
<2>14. ASSUME NEW r \in Roots, MakeSnapshot(r)
      PROVE  Slots'
  BY <2>14 DEF MakeSnapshot
<2>15. ASSUME NEW r \in Roots, NEW a \in Sources, PinSource(r, a)
      PROVE  Slots'
  BY <2>15 DEF PinSource, PinAdmitted
<2>16. ASSUME NEW r \in Roots, CopyDone(r)
      PROVE  Slots'
  BY <2>16 DEF CopyDone
<2>17. ASSUME NEW r \in Roots, PrepareFails(r)
      PROVE  Slots'
  BY <2>17 DEF PrepareFails
<2>18. ASSUME NEW r \in Roots, NEW s \in Roots, ReleaseSource(r, s)
      PROVE  Slots'
  BY <2>18 DEF ReleaseSource
<2>19. ASSUME NEW r \in Roots, FinishPrepare(r)
      PROVE  Slots'
  BY <2>19 DEF FinishPrepare, Finish
<2>20. ASSUME NEW r \in Roots, CancelPrepare(r)
      PROVE  Slots'
  BY <2>20 DEF CancelPrepare
<2>21. ASSUME NEW r \in Roots, ReleaseLease(r)
      PROVE  Slots'
  BY <2>21 DEF ReleaseLease
<2>22. ASSUME NEW r \in Roots, RetryRelease(r)
      PROVE  Slots'
  BY <2>22 DEF RetryRelease
<2>23. ASSUME NEW m \in Models, Remove(m)
      PROVE  Slots'
  BY <2>23 DEF Remove
<2>24. ASSUME NEW m \in Models, RemoveFails(m)
      PROVE  Slots'
  BY <2>24 DEF RemoveFails
<2>25. ASSUME Restart
      PROVE  Slots'
  BY <2>25 DEF Restart
<2>26. QED
  BY <1>1, <2>1, <2>2, <2>3, <2>4, <2>5, <2>6, <2>7, <2>8, <2>9,
     <2>10, <2>11, <2>12, <2>13, <2>14, <2>15, <2>16, <2>17, <2>18,
     <2>19, <2>20, <2>21, <2>22, <2>23, <2>24, <2>25
  DEF Next, InstallStep, PrepareStep
<1>2. CASE UNCHANGED vars
  BY <1>2
<1>3. QED BY <1>1, <1>2

LEMMA InUseInductive == Typed /\ Slots /\ InUseOnDisk /\ [Next]_vars => InUseOnDisk'
<1> SUFFICES ASSUME Typed, Slots, InUseOnDisk, [Next]_vars PROVE InUseOnDisk'
  OBVIOUS
<1>0. TypeOK' /\ SelfPinned'
  BY TypedInductive DEF Typed
<1> USE <1>0, NamesDistinct DEF Typed, TypeOK, SelfPinned, Slots, InUseOnDisk, Phases,
        InstallPhases, PreparePhases, Go, vars, coordinatorVars, lockVars, fileVars
<1>1. CASE Next
<2>1. ASSUME NEW a \in Assets, NEW r \in Roots, StartInstall(a, r)
      PROVE  InUseOnDisk'
  BY <2>1 DEF StartInstall
<2>2. ASSUME NEW r \in Roots, Write(r)
      PROVE  InUseOnDisk'
  BY <2>2 DEF Write, Stored
<2>3. ASSUME NEW r \in Roots, StartProbe(r)
      PROVE  InUseOnDisk'
  BY <2>3 DEF StartProbe
<2>4. ASSUME NEW r \in Roots, ProbePasses(r)
      PROVE  InUseOnDisk'
  BY <2>4 DEF ProbePasses
<2>5. ASSUME NEW r \in Roots, ProbeFails(r)
      PROVE  InUseOnDisk'
  BY <2>5 DEF ProbeFails
<2>6. ASSUME NEW r \in Roots, ReleaseProbe(r)
      PROVE  InUseOnDisk'
  <3>1. ASSUME NEW x \in Roots, NEW o \in Roots \cup {Probe}, <<x, o>> \in pins'
        PROVE  disk'[x] = disk[x]
    BY <2>6, <3>1, ReleaseFacts DEF ReleaseProbe, Pinned
  <3>2. ASSUME NEW x \in Roots,
               phase'[x] \in (InstallPhases \ {"unwinding"})
                            \cup {"copying", "copied", "leased"}
        PROVE  /\ disk'[x] = disk[x]
               /\ phase[x] = phase'[x] \/ (phase[x] = "copied" /\ phase'[x] = "leased")
    <4>1. <<x, x>> \in pins'
      BY <3>2
    <4>2. disk'[x] = disk[x]
      BY <3>1, <4>1
    <4>3. phase[x] = phase'[x] \/ (phase[x] = "copied" /\ phase'[x] = "leased")
      BY <2>6, <3>2 DEF ReleaseProbe
    <4>4. QED BY <4>2, <4>3
  <3>3. ASSUME NEW x \in Roots, <<x, Probe>> \in pins'
        PROVE  disk'[x] = disk[x] /\ <<x, Probe>> \in pins
    BY <2>6, <3>1, <3>3, ReleaseFacts DEF ReleaseProbe
  <3>4. QED BY <3>2, <3>3
<2>7. ASSUME NEW r \in Roots, Fail(r)
      PROVE  InUseOnDisk'
  BY <2>7 DEF Fail, MayFail
<2>8. ASSUME NEW r \in Roots, Commit(r)
      PROVE  InUseOnDisk'
  BY <2>8 DEF Commit
<2>9. ASSUME NEW r \in Roots, ReleaseInstallPin(r)
      PROVE  InUseOnDisk'
  BY <2>9 DEF ReleaseInstallPin
<2>10. ASSUME NEW r \in Roots, FinishInstall(r)
      PROVE  InUseOnDisk'
  <3>1. ASSUME NEW x \in Roots, NEW o \in Roots \cup {Probe}, <<x, o>> \in pins'
        PROVE  disk'[x] = disk[x]
    BY <2>10, <3>1, CleanupFacts DEF FinishInstall, Pinned, Finish
  <3>2. ASSUME NEW x \in Roots,
               phase'[x] \in (InstallPhases \ {"unwinding"})
                            \cup {"copying", "copied", "leased"}
        PROVE  /\ disk'[x] = disk[x]
               /\ phase[x] = phase'[x] \/ (phase[x] = "copied" /\ phase'[x] = "leased")
    <4>1. <<x, x>> \in pins'
      BY <3>2
    <4>2. disk'[x] = disk[x]
      BY <3>1, <4>1
    <4>3. phase[x] = phase'[x] \/ (phase[x] = "copied" /\ phase'[x] = "leased")
      BY <2>10, <3>2 DEF FinishInstall, Finish
    <4>4. QED BY <4>2, <4>3
  <3>3. ASSUME NEW x \in Roots, <<x, Probe>> \in pins'
        PROVE  disk'[x] = disk[x] /\ <<x, Probe>> \in pins
    BY <2>10, <3>1, <3>3, CleanupFacts DEF FinishInstall, Finish
  <3>4. QED BY <3>2, <3>3
<2>11. ASSUME NEW r \in Roots, Settle(r)
      PROVE  InUseOnDisk'
  BY <2>11 DEF Settle
<2>12. ASSUME NEW r \in Roots, Cancel(r)
      PROVE  InUseOnDisk'
  BY <2>12 DEF Cancel
<2>13. ASSUME NEW r \in Roots, StartPrepare(r)
      PROVE  InUseOnDisk'
  BY <2>13 DEF StartPrepare
<2>14. ASSUME NEW r \in Roots, MakeSnapshot(r)
      PROVE  InUseOnDisk'
  BY <2>14 DEF MakeSnapshot
<2>15. ASSUME NEW r \in Roots, NEW a \in Sources, PinSource(r, a)
      PROVE  InUseOnDisk'
  BY <2>15 DEF PinSource, PinAdmitted
<2>16. ASSUME NEW r \in Roots, CopyDone(r)
      PROVE  InUseOnDisk'
  BY <2>16 DEF CopyDone
<2>17. ASSUME NEW r \in Roots, PrepareFails(r)
      PROVE  InUseOnDisk'
  BY <2>17 DEF PrepareFails
<2>18. ASSUME NEW r \in Roots, NEW s \in Roots, ReleaseSource(r, s)
      PROVE  InUseOnDisk'
  <3>1. ASSUME NEW x \in Roots, NEW o \in Roots \cup {Probe}, <<x, o>> \in pins'
        PROVE  disk'[x] = disk[x]
    BY <2>18, <3>1, ReleaseFacts DEF ReleaseSource, Pinned
  <3>2. ASSUME NEW x \in Roots,
               phase'[x] \in (InstallPhases \ {"unwinding"})
                            \cup {"copying", "copied", "leased"}
        PROVE  /\ disk'[x] = disk[x]
               /\ phase[x] = phase'[x] \/ (phase[x] = "copied" /\ phase'[x] = "leased")
    <4>1. <<x, x>> \in pins'
      BY <3>2
    <4>2. disk'[x] = disk[x]
      BY <3>1, <4>1
    <4>3. phase[x] = phase'[x] \/ (phase[x] = "copied" /\ phase'[x] = "leased")
      BY <2>18, <3>2 DEF ReleaseSource
    <4>4. QED BY <4>2, <4>3
  <3>3. ASSUME NEW x \in Roots, <<x, Probe>> \in pins'
        PROVE  disk'[x] = disk[x] /\ <<x, Probe>> \in pins
    BY <2>18, <3>1, <3>3, ReleaseFacts DEF ReleaseSource
  <3>4. QED BY <3>2, <3>3
<2>19. ASSUME NEW r \in Roots, FinishPrepare(r)
      PROVE  InUseOnDisk'
  <3>1. ASSUME NEW x \in Roots, NEW o \in Roots \cup {Probe}, <<x, o>> \in pins'
        PROVE  disk'[x] = disk[x]
    BY <2>19, <3>1, CleanupFacts DEF FinishPrepare, Pinned, Finish
  <3>2. ASSUME NEW x \in Roots,
               phase'[x] \in (InstallPhases \ {"unwinding"})
                            \cup {"copying", "copied", "leased"}
        PROVE  /\ disk'[x] = disk[x]
               /\ phase[x] = phase'[x] \/ (phase[x] = "copied" /\ phase'[x] = "leased")
    <4>1. <<x, x>> \in pins'
      BY <3>2
    <4>2. disk'[x] = disk[x]
      BY <3>1, <4>1
    <4>3. phase[x] = phase'[x] \/ (phase[x] = "copied" /\ phase'[x] = "leased")
      BY <2>19, <3>2 DEF FinishPrepare, Finish
    <4>4. QED BY <4>2, <4>3
  <3>3. ASSUME NEW x \in Roots, <<x, Probe>> \in pins'
        PROVE  disk'[x] = disk[x] /\ <<x, Probe>> \in pins
    BY <2>19, <3>1, <3>3, CleanupFacts DEF FinishPrepare, Finish
  <3>4. QED BY <3>2, <3>3
<2>20. ASSUME NEW r \in Roots, CancelPrepare(r)
      PROVE  InUseOnDisk'
  BY <2>20 DEF CancelPrepare
<2>21. ASSUME NEW r \in Roots, ReleaseLease(r)
      PROVE  InUseOnDisk'
  <3>1. ASSUME NEW x \in Roots, NEW o \in Roots \cup {Probe}, <<x, o>> \in pins'
        PROVE  disk'[x] = disk[x]
    BY <2>21, <3>1, ReleaseFacts DEF ReleaseLease, Pinned
  <3>2. ASSUME NEW x \in Roots,
               phase'[x] \in (InstallPhases \ {"unwinding"})
                            \cup {"copying", "copied", "leased"}
        PROVE  /\ disk'[x] = disk[x]
               /\ phase[x] = phase'[x] \/ (phase[x] = "copied" /\ phase'[x] = "leased")
    <4>1. <<x, x>> \in pins'
      BY <3>2
    <4>2. disk'[x] = disk[x]
      BY <3>1, <4>1
    <4>3. phase[x] = phase'[x] \/ (phase[x] = "copied" /\ phase'[x] = "leased")
      BY <2>21, <3>2 DEF ReleaseLease
    <4>4. QED BY <4>2, <4>3
  <3>3. ASSUME NEW x \in Roots, <<x, Probe>> \in pins'
        PROVE  disk'[x] = disk[x] /\ <<x, Probe>> \in pins
    BY <2>21, <3>1, <3>3, ReleaseFacts DEF ReleaseLease
  <3>4. QED BY <3>2, <3>3
<2>22. ASSUME NEW r \in Roots, RetryRelease(r)
      PROVE  InUseOnDisk'
  <3>1. ASSUME NEW x \in Roots, NEW o \in Roots \cup {Probe}, <<x, o>> \in pins'
        PROVE  disk'[x] = disk[x]
    BY <2>22, <3>1, CleanupFacts DEF RetryRelease, Pinned
  <3>2. QED BY <2>22, <3>1 DEF RetryRelease
<2>23. ASSUME NEW m \in Models, Remove(m)
      PROVE  InUseOnDisk'
  <3>1. ASSUME NEW x \in Roots, NEW o \in Roots \cup {Probe}, <<x, o>> \in pins'
        PROVE  disk'[x] = disk[x]
    <4>1. x \in known /\ Pinned(x, pins)
      BY ONLY <2>23, <3>1, TypeOK DEF Remove, Pinned
    <4>2. x \notin RootsOf(m)
      BY <2>23, <4>1 DEF Remove, RemoveAllowed
    <4>3. QED BY <2>23, <4>2 DEF Remove, RootsOf
  <3>2. QED BY <2>23, <3>1 DEF Remove
<2>24. ASSUME NEW m \in Models, RemoveFails(m)
      PROVE  InUseOnDisk'
  <3>1. ASSUME NEW x \in Roots, NEW o \in Roots \cup {Probe}, <<x, o>> \in pins'
        PROVE  disk'[x] = disk[x]
    <4>1. x \in known /\ Pinned(x, pins)
      BY ONLY <2>24, <3>1, TypeOK DEF RemoveFails, Pinned
    <4>2. x \notin RootsOf(m)
      BY <2>24, <4>1 DEF RemoveFails, RemoveAllowed
    <4>3. QED BY <2>24, <4>2 DEF RemoveFails, RootsOf
  <3>2. QED BY <2>24, <3>1 DEF RemoveFails
<2>25. ASSUME Restart
      PROVE  InUseOnDisk'
  BY <2>25 DEF Restart
<2>26. QED
  BY <1>1, <2>1, <2>2, <2>3, <2>4, <2>5, <2>6, <2>7, <2>8, <2>9,
     <2>10, <2>11, <2>12, <2>13, <2>14, <2>15, <2>16, <2>17, <2>18,
     <2>19, <2>20, <2>21, <2>22, <2>23, <2>24, <2>25
  DEF Next, InstallStep, PrepareStep
<1>2. CASE UNCHANGED vars
  BY <1>2
<1>3. QED BY <1>1, <1>2

LEMMA FilesInductive == Typed /\ Slots /\ InUseOnDisk /\ Files /\ [Next]_vars => Files'
<1> SUFFICES ASSUME Typed, Slots, InUseOnDisk, Files, [Next]_vars PROVE Files'
  OBVIOUS
<1> USE NamesDistinct DEF Typed, TypeOK, Slots, InUseOnDisk, Files, PastCommit,
        Phases, Assets, InstallPhases, PreparePhases, Go, vars, coordinatorVars, lockVars, fileVars
<1>1. CASE Next
<2>1. ASSUME NEW a \in Assets, NEW r \in Roots, StartInstall(a, r)
      PROVE  Files'
  BY <2>1 DEF StartInstall
<2>2. ASSUME NEW r \in Roots, Write(r)
      PROVE  Files'
  BY <2>2 DEF Write, Stored
<2>3. ASSUME NEW r \in Roots, StartProbe(r)
      PROVE  Files'
  BY <2>3 DEF StartProbe
<2>4. ASSUME NEW r \in Roots, ProbePasses(r)
      PROVE  Files'
  BY <2>4 DEF ProbePasses
<2>5. ASSUME NEW r \in Roots, ProbeFails(r)
      PROVE  Files'
  BY <2>5 DEF ProbeFails
<2>6. ASSUME NEW r \in Roots, ReleaseProbe(r)
      PROVE  Files'
  BY <2>6, ReleaseFacts DEF ReleaseProbe, Referenced
<2>7. ASSUME NEW r \in Roots, Fail(r)
      PROVE  Files'
  BY <2>7 DEF Fail, MayFail
<2>8. ASSUME NEW r \in Roots, Commit(r)
      PROVE  Files'
  <3>1. disk[r] = "full" /\ phase[r] # "fresh" /\ meta[r] \in Assets
    BY <2>8 DEF Commit
  <3>2. ASSUME NEW a \in Assets, NEW x \in {current'[a], previous'[a]} \ {None}
        PROVE  meta[x] = a /\ phase'[x] \in PastCommit
                 /\ (disk[x] = "full" \/ x \in damaged)
    <4>1. CASE a = meta[r]
      <5>1. x \in {r, current[a]} \ {None}
        BY <2>8, <4>1 DEF Commit, Activated
      <5>2. QED BY <2>8, <3>1, <4>1, <5>1 DEF Commit
    <4>2. CASE a # meta[r]
      <5>1. x \in {current[a], previous[a]} \ {None}
        BY <2>8, <4>2 DEF Commit
      <5>2. QED BY <2>8, <3>1, <5>1 DEF Commit
    <4>3. QED BY <4>1, <4>2
  <3>3. QED BY <2>8, <3>2 DEF Commit
<2>9. ASSUME NEW r \in Roots, ReleaseInstallPin(r)
      PROVE  Files'
  BY <2>9 DEF ReleaseInstallPin
<2>10. ASSUME NEW r \in Roots, FinishInstall(r)
      PROVE  Files'
  BY <2>10, CleanupFacts DEF FinishInstall, Finish, Referenced
<2>11. ASSUME NEW r \in Roots, Settle(r)
      PROVE  Files'
  BY <2>11 DEF Settle
<2>12. ASSUME NEW r \in Roots, Cancel(r)
      PROVE  Files'
  BY <2>12 DEF Cancel
<2>13. ASSUME NEW r \in Roots, StartPrepare(r)
      PROVE  Files'
  BY <2>13 DEF StartPrepare
<2>14. ASSUME NEW r \in Roots, MakeSnapshot(r)
      PROVE  Files'
  BY <2>14 DEF MakeSnapshot
<2>15. ASSUME NEW r \in Roots, NEW a \in Sources, PinSource(r, a)
      PROVE  Files'
  BY <2>15 DEF PinSource, PinAdmitted
<2>16. ASSUME NEW r \in Roots, CopyDone(r)
      PROVE  Files'
  BY <2>16 DEF CopyDone
<2>17. ASSUME NEW r \in Roots, PrepareFails(r)
      PROVE  Files'
  BY <2>17 DEF PrepareFails
<2>18. ASSUME NEW r \in Roots, NEW s \in Roots, ReleaseSource(r, s)
      PROVE  Files'
  BY <2>18, ReleaseFacts DEF ReleaseSource, Referenced
<2>19. ASSUME NEW r \in Roots, FinishPrepare(r)
      PROVE  Files'
  BY <2>19, CleanupFacts DEF FinishPrepare, Finish, Referenced
<2>20. ASSUME NEW r \in Roots, CancelPrepare(r)
      PROVE  Files'
  BY <2>20 DEF CancelPrepare
<2>21. ASSUME NEW r \in Roots, ReleaseLease(r)
      PROVE  Files'
  BY <2>21, ReleaseFacts DEF ReleaseLease, Referenced
<2>22. ASSUME NEW r \in Roots, RetryRelease(r)
      PROVE  Files'
  BY <2>22, CleanupFacts DEF RetryRelease, Referenced
<2>23. ASSUME NEW m \in Models, Remove(m)
      PROVE  Files'
  BY <2>23 DEF Remove
<2>24. ASSUME NEW m \in Models, RemoveFails(m)
      PROVE  Files'
  BY <2>24 DEF RemoveFails
<2>25. ASSUME Restart
      PROVE  Files'
  BY <2>25 DEF Restart
<2>26. QED
  BY <1>1, <2>1, <2>2, <2>3, <2>4, <2>5, <2>6, <2>7, <2>8, <2>9,
     <2>10, <2>11, <2>12, <2>13, <2>14, <2>15, <2>16, <2>17, <2>18,
     <2>19, <2>20, <2>21, <2>22, <2>23, <2>24, <2>25
  DEF Next, InstallStep, PrepareStep
<1>2. CASE UNCHANGED vars
  BY <1>2
<1>3. QED BY <1>1, <1>2

---------------------------------------------------------------------------

LEMMA Initially == Init => Typed /\ Slots /\ InUseOnDisk /\ Files
<1> SUFFICES ASSUME Init PROVE Typed /\ Slots /\ InUseOnDisk /\ Files
  OBVIOUS
<1> USE NamesDistinct DEF Init, Phases, InstallPhases, PreparePhases, Assets
<1>1. Typed
  BY DEF Typed, TypeOK, SelfPinned
<1>2. Slots
  BY DEF Slots, Holding
<1>3. InUseOnDisk
  BY DEF InUseOnDisk
<1>4. Files
  BY DEF Files
<1>5. QED BY <1>1, <1>2, <1>3, <1>4

\* The inductive invariant.
IInv == Typed /\ Slots /\ InUseOnDisk /\ Files

LEMMA Inductive == Spec => []IInv
<1>1. Init => IInv
  BY Initially DEF IInv
<1>2. IInv /\ [Next]_vars => IInv'
  BY TypedInductive, SlotsInductive, InUseInductive, FilesInductive DEF IInv
<1>3. QED BY <1>1, <1>2, PTL DEF Spec

\* The records, pins, slots and files always have their type; in particular a
\* pin never outlives the record of its root (cleanup, remove).
THEOREM TypeCorrect == Spec => []TypeOK
<1>1. IInv => TypeOK
  BY DEF IInv, Typed
<1>2. QED BY <1>1, Inductive, PTL

\* The slots admit one exclusive operation or installs of distinct models,
\* whatever the number of roots and however many awaits interleave (begin).
THEOREM Exclusion == Spec => []ExclusiveXorShared
<1>1. IInv => ExclusiveXorShared
  <2> SUFFICES ASSUME Slots, NEW r \in Roots, NEW s \in Roots, r # s,
                      Holding(r), Holding(s)
               PROVE  /\ meta[r] \in Models /\ meta[s] \in Models
                      /\ meta[r] # meta[s]
    BY DEF IInv, ExclusiveXorShared
  <2>1. r \in shared /\ s \in shared
    BY NamesDistinct DEF Slots
  <2>2. QED BY <2>1 DEF Slots
<1>2. QED BY <1>1, Inductive, PTL

\* No cleanup, finish or removal deletes a directory somebody works in.
THEOREM NeverDeletedInUse == Spec => []InUseOnDisk
<1>1. IInv => InUseOnDisk
  BY DEF IInv
<1>2. QED BY <1>1, Inductive, PTL

\* Metadata never names a generation that is not completely on disk.
THEOREM NeverDangling == Spec => []PublishedOnDisk
<1>1. IInv => PublishedOnDisk
  BY DEF IInv, Files, PublishedOnDisk
<1>2. QED BY <1>1, Inductive, PTL

---------------------------------------------------------------------------

\* A step that leaves the metadata alone and only deletes unreferenced
\* directories is a collection of the abstract store.
LEMMA Reclaims ==
    ASSUME TypeOK, UNCHANGED <<current, previous, damaged>>,
           \A x \in Roots : disk'[x] # disk[x]
                => ~Referenced(x) /\ disk'[x] # "full"
    PROVE  Store!Next
<1> DEFINE S == Full \ Full'
<1>1. S \subseteq Roots /\ \A x \in S : ~Referenced(x)
  BY DEF Full
<1>2. S \cap Store!ReferencedIn(Assets) = {}
  BY <1>1 DEF Store!ReferencedIn, Store!ReferencedBy, Referenced
<1>3. Full' = Full \ S
  BY DEF Full
<1>4. Store!Collect(S)
  BY <1>2, <1>3 DEF Store!Collect
<1>5. QED BY <1>1, <1>4 DEF Store!Next

\* A step that fills at most one directory completes a generation or stutters.
LEMMA Fills ==
    ASSUME TypeOK, UNCHANGED <<current, previous, damaged>>, NEW r \in Roots,
           \E left \in {disk[r], "full"} : disk' = [disk EXCEPT ![r] = left]
    PROVE  [Store!Next]_Store!vars
<1>1. CASE disk'[r] = disk[r]
  <2>1. Full' = Full
    BY <1>1 DEF Full, TypeOK
  <2>2. QED BY <2>1 DEF Store!vars
<1>2. CASE disk'[r] # disk[r]
  <2>1. r \notin Full /\ Full' = Full \cup {r}
    BY <1>2 DEF Full, TypeOK
  <2>2. Store!Complete(r)
    BY <2>1 DEF Store!Complete
  <2>3. QED BY <2>2 DEF Store!Next
<1>3. QED BY <1>1, <1>2

\* commit() publishes a complete generation nobody references.
LEMMA Publishes ==
    ASSUME IInv, NEW r \in Roots, Commit(r)
    PROVE  Store!Next
<1> USE DEF IInv, Typed
<1>1. meta[r] \in Assets /\ phase[r] \in {"verified", "written"}
  BY DEF Commit
<1>2. r \in Full
  BY <1>1 DEF Full, InUseOnDisk, InstallPhases
<1>3. r \notin Store!ReferencedIn(Assets)
  BY <1>1, NamesDistinct DEF Files, PastCommit, Store!ReferencedIn, Store!ReferencedBy
<1>4. Store!Publish(meta[r], r)
  BY <1>1, <1>2, <1>3 DEF Commit, Activated, Store!Publish, Full
<1>5. QED BY <1>1, <1>4 DEF Store!Next

\* remove(), complete or half way, touches the generations of its model only.
LEMMA Removes ==
    ASSUME IInv, NEW m \in Models, Remove(m) \/ RemoveFails(m)
    PROVE  Store!Next
<1>1. ASSUME NEW S, S \subseteq RootsOf(m)
      PROVE  S \cap Store!ReferencedIn(Assets \ {m}) = {}
  BY <1>1 DEF IInv, Files, PastCommit, RootsOf, Store!ReferencedIn,
     Store!ReferencedBy
<1>2. CASE Remove(m)
  <2> DEFINE S == Full \ Full'
  <2>1. S \subseteq RootsOf(m) /\ Full' = Full \ S
    BY <1>2 DEF IInv, Typed, TypeOK, Remove, Full, RootsOf
  <2>2. Store!RemoveAsset(m, S)
    BY <1>1, <1>2, <2>1 DEF Remove, Store!RemoveAsset
  <2>3. QED BY <2>1, <2>2 DEF Store!Next, Assets, RootsOf
<1>3. CASE RemoveFails(m)
  <2>1. PICK gone \in SUBSET {r \in RootsOf(m) : disk[r] # "absent"} :
          /\ disk' = [r \in Roots |-> IF r \in gone THEN "absent" ELSE disk[r]]
          /\ damaged' = damaged \cup gone
    BY <1>3 DEF RemoveFails
  <2>2. gone \subseteq RootsOf(m)
    OBVIOUS
  <2>3. Full' = Full \ gone
    BY <2>1 DEF Full
  <2>4. Store!RemovePart(m, gone)
    BY <1>1, <1>3, <2>1, <2>2, <2>3 DEF RemoveFails, Store!RemovePart
  <2>5. QED BY <2>2, <2>4 DEF Store!Next, Assets, RootsOf
<1>4. QED BY <1>2, <1>3

\* Every step of the coordinator is a step of the abstract store or changes
\* nothing it can see.
LEMMA StepsRefine == IInv /\ [Next]_vars => [Store!Next]_Store!vars
<1> SUFFICES ASSUME IInv, TypeOK, [Next]_vars PROVE [Store!Next]_Store!vars
  BY DEF IInv, Typed
<1> USE DEF vars, coordinatorVars, lockVars, fileVars
<1>1. CASE Next
<2>1. ASSUME NEW a \in Assets, NEW r \in Roots, StartInstall(a, r)
      PROVE  [Store!Next]_Store!vars
  <3>1. ~Referenced(r)
    BY <2>1, NamesDistinct DEF StartInstall, IInv, Files, PastCommit, Referenced
  <3>2. \A x \in Roots : disk'[x] # disk[x] => x = r /\ disk'[x] # "full"
    BY <2>1 DEF StartInstall, TypeOK
  <3>3. QED BY <2>1, <3>1, <3>2, Reclaims DEF StartInstall
<2>2. ASSUME NEW r \in Roots, Write(r)
      PROVE  [Store!Next]_Store!vars
  BY <2>2, Fills DEF Write, Stored
<2>3. ASSUME NEW r \in Roots, StartProbe(r)
      PROVE  [Store!Next]_Store!vars
  BY <2>3 DEF StartProbe, Full, Store!vars
<2>4. ASSUME NEW r \in Roots, ProbePasses(r)
      PROVE  [Store!Next]_Store!vars
  BY <2>4 DEF ProbePasses, Full, Store!vars
<2>5. ASSUME NEW r \in Roots, ProbeFails(r)
      PROVE  [Store!Next]_Store!vars
  BY <2>5 DEF ProbeFails, Full, Store!vars
<2>6. ASSUME NEW r \in Roots, ReleaseProbe(r)
      PROVE  [Store!Next]_Store!vars
  BY <2>6, ReleaseFacts, Reclaims DEF ReleaseProbe
<2>7. ASSUME NEW r \in Roots, Fail(r)
      PROVE  [Store!Next]_Store!vars
  BY <2>7, Fills DEF Fail
<2>8. ASSUME NEW r \in Roots, Commit(r)
      PROVE  [Store!Next]_Store!vars
  BY <2>8, Publishes
<2>9. ASSUME NEW r \in Roots, ReleaseInstallPin(r)
      PROVE  [Store!Next]_Store!vars
  BY <2>9 DEF ReleaseInstallPin, Full, Store!vars
<2>10. ASSUME NEW r \in Roots, FinishInstall(r)
      PROVE  [Store!Next]_Store!vars
  BY <2>10, CleanupFacts, Reclaims DEF FinishInstall, Finish
<2>11. ASSUME NEW r \in Roots, Settle(r)
      PROVE  [Store!Next]_Store!vars
  BY <2>11 DEF Settle, Full, Store!vars
<2>12. ASSUME NEW r \in Roots, Cancel(r)
      PROVE  [Store!Next]_Store!vars
  BY <2>12 DEF Cancel, Full, Store!vars
<2>13. ASSUME NEW r \in Roots, StartPrepare(r)
      PROVE  [Store!Next]_Store!vars
  BY <2>13 DEF StartPrepare, Full, Store!vars
<2>14. ASSUME NEW r \in Roots, MakeSnapshot(r)
      PROVE  [Store!Next]_Store!vars
  <3>1. ~Referenced(r)
    BY <2>14, NamesDistinct DEF MakeSnapshot, IInv, Files, PastCommit, Referenced
  <3>2. \A x \in Roots : disk'[x] # disk[x] => x = r /\ disk'[x] # "full"
    BY <2>14 DEF MakeSnapshot, TypeOK
  <3>3. QED BY <2>14, <3>1, <3>2, Reclaims DEF MakeSnapshot
<2>15. ASSUME NEW r \in Roots, NEW a \in Sources, PinSource(r, a)
      PROVE  [Store!Next]_Store!vars
  BY <2>15 DEF PinSource, PinAdmitted, Full, Store!vars
<2>16. ASSUME NEW r \in Roots, CopyDone(r)
      PROVE  [Store!Next]_Store!vars
  BY <2>16, Fills DEF CopyDone
<2>17. ASSUME NEW r \in Roots, PrepareFails(r)
      PROVE  [Store!Next]_Store!vars
  BY <2>17, Fills DEF PrepareFails
<2>18. ASSUME NEW r \in Roots, NEW s \in Roots, ReleaseSource(r, s)
      PROVE  [Store!Next]_Store!vars
  BY <2>18, ReleaseFacts, Reclaims DEF ReleaseSource
<2>19. ASSUME NEW r \in Roots, FinishPrepare(r)
      PROVE  [Store!Next]_Store!vars
  BY <2>19, CleanupFacts, Reclaims DEF FinishPrepare, Finish
<2>20. ASSUME NEW r \in Roots, CancelPrepare(r)
      PROVE  [Store!Next]_Store!vars
  BY <2>20 DEF CancelPrepare, Full, Store!vars
<2>21. ASSUME NEW r \in Roots, ReleaseLease(r)
      PROVE  [Store!Next]_Store!vars
  BY <2>21, ReleaseFacts, Reclaims DEF ReleaseLease
<2>22. ASSUME NEW r \in Roots, RetryRelease(r)
      PROVE  [Store!Next]_Store!vars
  BY <2>22, CleanupFacts, Reclaims DEF RetryRelease
<2>23. ASSUME NEW m \in Models, Remove(m)
      PROVE  [Store!Next]_Store!vars
  BY <2>23, Removes
<2>24. ASSUME NEW m \in Models, RemoveFails(m)
      PROVE  [Store!Next]_Store!vars
  BY <2>24, Removes
<2>25. ASSUME Restart
      PROVE  [Store!Next]_Store!vars
  BY <2>25 DEF Restart, Full, Store!vars
<2>26. QED
  BY <1>1, <2>1, <2>2, <2>3, <2>4, <2>5, <2>6, <2>7, <2>8, <2>9,
     <2>10, <2>11, <2>12, <2>13, <2>14, <2>15, <2>16, <2>17, <2>18,
     <2>19, <2>20, <2>21, <2>22, <2>23, <2>24, <2>25
  DEF Next, InstallStep, PrepareStep
<1>2. CASE UNCHANGED vars
  BY <1>2 DEF Full, Store!vars
<1>3. QED BY <1>1, <1>2

\* With everything but the files forgotten, install, cleanup, snapshot, remove
\* and restart implement the abstract generation store.
THEOREM Refinement == Spec => StoreSpec
<1>1. Init => Store!Init
  BY DEF Init, Store!Init, Full
<1>2. IInv /\ [Next]_vars => [Store!Next]_Store!vars
  BY StepsRefine
<1>3. QED BY <1>1, <1>2, Inductive, PTL DEF Spec, StoreSpec, Store!Spec

---------------------------------------------------------------------------

\* Only commit() makes a generation current.
LEMMA OnlyCommitActivates ==
    ASSUME TypeOK, [Next]_vars, NEW a \in Assets,
           current'[a] # current[a], current'[a] # None
    PROVE  \E r \in Roots : meta[r] = a /\ current'[a] = r /\ Commit(r)
<1> USE DEF vars, coordinatorVars, lockVars, fileVars
<1>1. Next
  OBVIOUS
<1>2. ASSUME NEW r \in Roots, InstallStep(r), ~Commit(r)
      PROVE  current' = current
  BY <1>2 DEF InstallStep, StartInstall, Write, StartProbe, ProbePasses,
     ProbeFails, ReleaseProbe, Fail, ReleaseInstallPin, FinishInstall, Settle,
     Cancel
<1>3. ASSUME NEW r \in Roots, PrepareStep(r)
      PROVE  current' = current
  BY <1>3 DEF PrepareStep, StartPrepare, MakeSnapshot, PinSource, CopyDone,
     PrepareFails, ReleaseSource, FinishPrepare, CancelPrepare, ReleaseLease,
     RetryRelease
<1>4. ASSUME NEW m \in Models, Remove(m) \/ RemoveFails(m)
      PROVE  current'[a] \in {current[a], None}
  BY <1>4 DEF Remove, RemoveFails, TypeOK
<1>5. Restart => current' = current
  BY DEF Restart
<1>6. PICK r \in Roots : Commit(r)
  BY <1>1, <1>2, <1>3, <1>4, <1>5 DEF Next
<1>7. meta[r] = a /\ current'[a] = r
  BY <1>6 DEF Commit, Activated, TypeOK
<1>8. QED BY <1>6, <1>7

\* No install, however it interleaves with another, drops the generation that
\* was current without making it the previous one.
THEOREM NeverLost == Spec => NoGenerationLost
<1>1. ASSUME TypeOK, [Next]_vars, NEW a \in Assets,
             current'[a] \notin {current[a], None}
      PROVE  previous'[a] = current[a]
  <2>1. PICK r \in Roots : meta[r] = a /\ current'[a] = r /\ Commit(r)
    BY <1>1, OnlyCommitActivates
  <2>2. QED BY <1>1, <2>1 DEF Commit, Activated, TypeOK
<1>2. IInv /\ [Next]_vars
        => [\A a \in Assets : current'[a] \notin {current[a], None}
                => previous'[a] = current[a]]_vars
  BY <1>1 DEF IInv, Typed
<1>3. QED BY <1>2, Inductive, PTL DEF Spec, NoGenerationLost

\* An install whose signal was aborted before commit() never activates.
THEOREM CancelHolds == Spec => CancelledNeverActivates
<1>1. ASSUME TypeOK, [Next]_vars, NEW x \in aborted, NEW a \in Assets,
             current'[a] = x
      PROVE  current[a] = x
  <2> SUFFICES ASSUME current[a] # x PROVE FALSE
    OBVIOUS
  <2>1. x # None
    BY <1>1, NamesDistinct DEF TypeOK
  <2>2. PICK r \in Roots : meta[r] = a /\ current'[a] = r /\ Commit(r)
    BY <1>1, <2>1, OnlyCommitActivates
  <2>3. QED BY <1>1, <2>2 DEF Commit, CommitOpen
<1>2. IInv /\ [Next]_vars
        => [\A r \in aborted : \A a \in Assets :
                current'[a] = r => current[a] = r]_vars
  BY <1>1 DEF IInv, Typed
<1>3. QED BY <1>2, Inductive, PTL DEF Spec, CancelledNeverActivates

---------------------------------------------------------------------------
(* The accounts of the coordinator: what it keeps, what it may delete, how  *)
(* many bytes it promised, and what a snapshot is copied from.              *)

\* More of what cleanup() does: it deletes what this process made, and whatever
\* it leaves is kept, pinned or carries its error.
LEMMA CleanupTends ==
    ASSUME TypeOK, NEW ps, Cleanup(ps)
    PROVE  /\ owned' \subseteq owned
           /\ \A r \in Roots : disk'[r] # disk[r] => r \in owned
           /\ \A r \in known' : r \in keep \/ Pinned(r, ps) \/ r \in err'
           /\ reserved' \subseteq reserved
           /\ \A r \in reserved : Pinned(r, ps) => r \in reserved'
<1>1. PICK stuck \in SUBSET Removable(ps) :
        /\ known' = known \ Gone(ps, stuck)
        /\ owned' = owned \ Gone(ps, stuck)
        /\ err' = (err \cup Removable(ps)) \ Gone(ps, stuck)
        /\ reserved' = reserved \ Gone(ps, stuck)
        /\ disk' = [r \in Roots |-> IF r \in Deleted(Gone(ps, stuck))
                                      THEN "absent" ELSE disk[r]]
  BY DEF Cleanup
<1>2. \A r \in Gone(ps, stuck) : ~Pinned(r, ps)
  BY DEF Gone, Removable
<1>3. Deleted(Gone(ps, stuck)) \subseteq owned
  BY DEF Deleted
<1>4. \A r \in known : r \in keep \/ Pinned(r, ps) \/ r \in Removable(ps)
  BY DEF Removable
<1>5. \A r \in Roots : disk'[r] # disk[r] => r \in owned
  BY <1>1, <1>3
<1>6. QED BY <1>1, <1>2, <1>4, <1>5

LEMMA ReleaseTends ==
    ASSUME TypeOK, NEW ps, ReleasePins(ps)
    PROVE  /\ owned' \subseteq owned
           /\ \A r \in Roots : disk'[r] # disk[r] => r \in owned
           /\ Idle => \A r \in known' : r \in keep \/ Pinned(r, pins') \/ r \in err'
           /\ reserved' \subseteq reserved
           /\ \A r \in reserved : Pinned(r, pins') => r \in reserved'
<1>1. CASE Idle
  <2>1. pins' = pins \ ps /\ Cleanup(pins')
    BY <1>1 DEF ReleasePins
  <2>2. QED BY <2>1, CleanupTends
<1>2. CASE ~Idle
  BY <1>2 DEF ReleasePins
<1>3. QED BY <1>1, <1>2

\* An operation that is under way holds one of the slots.
LEMMA Busy ==
    ASSUME Slots, NEW r \in Roots, Holding(r)
    PROVE  ~Idle
  BY NamesDistinct DEF Slots, Idle

\* With no operation active nothing is forgotten: who lets go last cleans up.
LEMMA NothingForgottenInductive == Typed /\ Slots /\ NothingForgotten /\ [Next]_vars => NothingForgotten'
<1> SUFFICES ASSUME Typed, Slots, NothingForgotten, [Next]_vars PROVE NothingForgotten'
  OBVIOUS
<1> USE DEF Typed, TypeOK, NothingForgotten, Idle, Go, vars, coordinatorVars, lockVars,
        fileVars
<1>1. CASE Next
<2>1. ASSUME NEW a \in Assets, NEW r \in Roots, StartInstall(a, r)
      PROVE  NothingForgotten'
  BY <2>1, NamesDistinct DEF StartInstall, Idle
<2>2. ASSUME NEW r \in Roots, Write(r)
      PROVE  NothingForgotten'
  <3>1. Holding(r)
    BY <2>2 DEF Write, Holding, InstallPhases, PreparePhases
  <3>2. QED BY <2>2, <3>1, Busy DEF Write
<2>3. ASSUME NEW r \in Roots, StartProbe(r)
      PROVE  NothingForgotten'
  <3>1. Holding(r)
    BY <2>3 DEF StartProbe, Holding, InstallPhases, PreparePhases
  <3>2. QED BY <2>3, <3>1, Busy DEF StartProbe
<2>4. ASSUME NEW r \in Roots, ProbePasses(r)
      PROVE  NothingForgotten'
  <3>1. Holding(r)
    BY <2>4 DEF ProbePasses, Holding, InstallPhases, PreparePhases
  <3>2. QED BY <2>4, <3>1, Busy DEF ProbePasses
<2>5. ASSUME NEW r \in Roots, ProbeFails(r)
      PROVE  NothingForgotten'
  <3>1. Holding(r)
    BY <2>5 DEF ProbeFails, Holding, InstallPhases, PreparePhases
  <3>2. QED BY <2>5, <3>1, Busy DEF ProbeFails
<2>6. ASSUME NEW r \in Roots, ReleaseProbe(r)
      PROVE  NothingForgotten'
  BY <2>6, ReleaseTends DEF ReleaseProbe
<2>7. ASSUME NEW r \in Roots, Fail(r)
      PROVE  NothingForgotten'
  <3>1. Holding(r)
    BY <2>7 DEF Fail, MayFail, Holding, InstallPhases, PreparePhases
  <3>2. QED BY <2>7, <3>1, Busy DEF Fail
<2>8. ASSUME NEW r \in Roots, Commit(r)
      PROVE  NothingForgotten'
  <3>1. Holding(r)
    BY <2>8, NamesDistinct DEF Commit, Holding, InstallPhases, PreparePhases
  <3>2. QED BY <2>8, <3>1, Busy DEF Commit
<2>9. ASSUME NEW r \in Roots, ReleaseInstallPin(r)
      PROVE  NothingForgotten'
  <3>1. Holding(r)
    BY <2>9 DEF ReleaseInstallPin, Holding, InstallPhases, PreparePhases
  <3>2. QED BY <2>9, <3>1, Busy DEF ReleaseInstallPin
<2>10. ASSUME NEW r \in Roots, FinishInstall(r)
      PROVE  NothingForgotten'
  BY <2>10, CleanupTends DEF FinishInstall, Finish
<2>11. ASSUME NEW r \in Roots, Settle(r)
      PROVE  NothingForgotten'
  BY <2>11 DEF Settle
<2>12. ASSUME NEW r \in Roots, Cancel(r)
      PROVE  NothingForgotten'
  <3>1. Holding(r)
    BY <2>12 DEF Cancel, Holding, InstallPhases, PreparePhases
  <3>2. QED BY <2>12, <3>1, Busy DEF Cancel
<2>13. ASSUME NEW r \in Roots, StartPrepare(r)
      PROVE  NothingForgotten'
  BY <2>13, NamesDistinct DEF StartPrepare, Idle
<2>14. ASSUME NEW r \in Roots, MakeSnapshot(r)
      PROVE  NothingForgotten'
  <3>1. Holding(r)
    BY <2>14 DEF MakeSnapshot, Holding, InstallPhases, PreparePhases
  <3>2. QED BY <2>14, <3>1, Busy DEF MakeSnapshot
<2>15. ASSUME NEW r \in Roots, NEW a \in Sources, PinSource(r, a)
      PROVE  NothingForgotten'
  <3>1. Holding(r)
    BY <2>15 DEF PinSource, Holding, InstallPhases, PreparePhases
  <3>2. QED BY <2>15, <3>1, Busy DEF PinSource
<2>16. ASSUME NEW r \in Roots, CopyDone(r)
      PROVE  NothingForgotten'
  <3>1. Holding(r)
    BY <2>16 DEF CopyDone, Holding, InstallPhases, PreparePhases
  <3>2. QED BY <2>16, <3>1, Busy DEF CopyDone
<2>17. ASSUME NEW r \in Roots, PrepareFails(r)
      PROVE  NothingForgotten'
  <3>1. Holding(r)
    BY <2>17 DEF PrepareFails, Holding, InstallPhases, PreparePhases
  <3>2. QED BY <2>17, <3>1, Busy DEF PrepareFails
<2>18. ASSUME NEW r \in Roots, NEW s \in Roots, ReleaseSource(r, s)
      PROVE  NothingForgotten'
  BY <2>18, ReleaseTends DEF ReleaseSource
<2>19. ASSUME NEW r \in Roots, FinishPrepare(r)
      PROVE  NothingForgotten'
  BY <2>19, CleanupTends DEF FinishPrepare, Finish
<2>20. ASSUME NEW r \in Roots, CancelPrepare(r)
      PROVE  NothingForgotten'
  <3>1. Holding(r)
    BY <2>20 DEF CancelPrepare, Holding, InstallPhases, PreparePhases
  <3>2. QED BY <2>20, <3>1, Busy DEF CancelPrepare
<2>21. ASSUME NEW r \in Roots, ReleaseLease(r)
      PROVE  NothingForgotten'
  BY <2>21, ReleaseTends DEF ReleaseLease
<2>22. ASSUME NEW r \in Roots, RetryRelease(r)
      PROVE  NothingForgotten'
  BY <2>22, CleanupTends DEF RetryRelease
<2>23. ASSUME NEW m \in Models, Remove(m)
      PROVE  NothingForgotten'
  BY <2>23 DEF Remove, Pinned
<2>24. ASSUME NEW m \in Models, RemoveFails(m)
      PROVE  NothingForgotten'
  BY <2>24 DEF RemoveFails, Pinned
<2>25. ASSUME Restart
      PROVE  NothingForgotten'
  BY <2>25 DEF Restart
<2>26. QED
  BY <1>1, <2>1, <2>2, <2>3, <2>4, <2>5, <2>6, <2>7, <2>8, <2>9,
     <2>10, <2>11, <2>12, <2>13, <2>14, <2>15, <2>16, <2>17, <2>18,
     <2>19, <2>20, <2>21, <2>22, <2>23, <2>24, <2>25
  DEF Next, InstallStep, PrepareStep
<1>2. CASE UNCHANGED vars
  BY <1>2
<1>3. QED BY <1>1, <1>2


\* The directory of an earlier process is never one that this process made.
Inherited == \A r \in owned : phase[r] # "lost"

\* A snapshot copies the active generations, from its first pin to its last byte,
\* and an operation that has not begun has pinned nothing.
Copying(r) == phase[r] \in {"preparing", "copying", "copied"}
Untorn ==
    \A r \in Roots :
        /\ phase[r] = "fresh" => \A s \in Roots : <<s, r>> \notin pins
        /\ Copying(r) =>
             \A a \in Assets : \A s \in PinnedSource(r, a) : s = current[a]

\* The roots that fill and those that are full; what may still be written is
\* reserved, so the check of one operation counts the bytes of all the others.
Claim == Full \cup {r \in Roots : phase[r] \in {"writing", "copying"}}
Budgeted ==
    /\ IsFiniteSet(reserved) /\ IsFiniteSet(Claim)
    /\ Cardinality(Claim) <= Budget
    /\ \A r \in Roots : phase[r] \in {"writing", "preparing", "copying"} => r \in reserved

\* Only a restart makes a directory one of an earlier process.
LEMMA InheritedInductive == Typed /\ Inherited /\ [Next]_vars => Inherited'
<1> SUFFICES ASSUME Typed, Inherited, [Next]_vars PROVE Inherited'
  OBVIOUS
<1> USE DEF Typed, TypeOK, Inherited, Go, vars, coordinatorVars, lockVars, fileVars
<1>1. CASE Next
<2>1. ASSUME NEW a \in Assets, NEW r \in Roots, StartInstall(a, r)
      PROVE  Inherited'
  BY <2>1 DEF StartInstall
<2>2. ASSUME NEW r \in Roots, Write(r)
      PROVE  Inherited'
  BY <2>2 DEF Write
<2>3. ASSUME NEW r \in Roots, StartProbe(r)
      PROVE  Inherited'
  BY <2>3 DEF StartProbe
<2>4. ASSUME NEW r \in Roots, ProbePasses(r)
      PROVE  Inherited'
  BY <2>4 DEF ProbePasses
<2>5. ASSUME NEW r \in Roots, ProbeFails(r)
      PROVE  Inherited'
  BY <2>5 DEF ProbeFails
<2>6. ASSUME NEW r \in Roots, ReleaseProbe(r)
      PROVE  Inherited'
  BY <2>6, ReleaseTends DEF ReleaseProbe
<2>7. ASSUME NEW r \in Roots, Fail(r)
      PROVE  Inherited'
  BY <2>7 DEF Fail
<2>8. ASSUME NEW r \in Roots, Commit(r)
      PROVE  Inherited'
  BY <2>8 DEF Commit
<2>9. ASSUME NEW r \in Roots, ReleaseInstallPin(r)
      PROVE  Inherited'
  BY <2>9 DEF ReleaseInstallPin
<2>10. ASSUME NEW r \in Roots, FinishInstall(r)
      PROVE  Inherited'
  BY <2>10, CleanupTends DEF FinishInstall, Finish
<2>11. ASSUME NEW r \in Roots, Settle(r)
      PROVE  Inherited'
  BY <2>11 DEF Settle
<2>12. ASSUME NEW r \in Roots, Cancel(r)
      PROVE  Inherited'
  BY <2>12 DEF Cancel
<2>13. ASSUME NEW r \in Roots, StartPrepare(r)
      PROVE  Inherited'
  BY <2>13 DEF StartPrepare
<2>14. ASSUME NEW r \in Roots, MakeSnapshot(r)
      PROVE  Inherited'
  BY <2>14 DEF MakeSnapshot
<2>15. ASSUME NEW r \in Roots, NEW a \in Sources, PinSource(r, a)
      PROVE  Inherited'
  BY <2>15 DEF PinSource
<2>16. ASSUME NEW r \in Roots, CopyDone(r)
      PROVE  Inherited'
  BY <2>16 DEF CopyDone
<2>17. ASSUME NEW r \in Roots, PrepareFails(r)
      PROVE  Inherited'
  BY <2>17 DEF PrepareFails
<2>18. ASSUME NEW r \in Roots, NEW s \in Roots, ReleaseSource(r, s)
      PROVE  Inherited'
  BY <2>18, ReleaseTends DEF ReleaseSource
<2>19. ASSUME NEW r \in Roots, FinishPrepare(r)
      PROVE  Inherited'
  BY <2>19, CleanupTends DEF FinishPrepare, Finish
<2>20. ASSUME NEW r \in Roots, CancelPrepare(r)
      PROVE  Inherited'
  BY <2>20 DEF CancelPrepare
<2>21. ASSUME NEW r \in Roots, ReleaseLease(r)
      PROVE  Inherited'
  BY <2>21, ReleaseTends DEF ReleaseLease
<2>22. ASSUME NEW r \in Roots, RetryRelease(r)
      PROVE  Inherited'
  BY <2>22, CleanupTends DEF RetryRelease
<2>23. ASSUME NEW m \in Models, Remove(m)
      PROVE  Inherited'
  BY <2>23 DEF Remove
<2>24. ASSUME NEW m \in Models, RemoveFails(m)
      PROVE  Inherited'
  BY <2>24 DEF RemoveFails
<2>25. ASSUME Restart
      PROVE  Inherited'
  BY <2>25 DEF Restart
<2>26. QED
  BY <1>1, <2>1, <2>2, <2>3, <2>4, <2>5, <2>6, <2>7, <2>8, <2>9,
     <2>10, <2>11, <2>12, <2>13, <2>14, <2>15, <2>16, <2>17, <2>18,
     <2>19, <2>20, <2>21, <2>22, <2>23, <2>24, <2>25
  DEF Next, InstallStep, PrepareStep
<1>2. CASE UNCHANGED vars
  BY <1>2
<1>3. QED BY <1>1, <1>2


\* While a snapshot is made nothing else holds a slot.
LEMMA SnapshotAlone ==
    ASSUME Slots, NEW r \in Roots, Copying(r)
    PROVE  exclusive = r /\ shared = {}
<1>1. Holding(r) /\ meta[r] = None
  BY DEF Copying, Holding, PreparePhases, Slots
<1>2. QED BY <1>1, NamesDistinct DEF Slots, Assets

\* No generation is replaced or removed while a snapshot is copied from it.
LEMMA UntornInductive == Typed /\ Slots /\ Files /\ Untorn /\ [Next]_vars => Untorn'
<1> SUFFICES ASSUME Typed, Slots, Files, Untorn, [Next]_vars PROVE Untorn'
  OBVIOUS
<1> USE NamesDistinct DEF Typed, TypeOK, Untorn, Copying, PinnedSource, RootsOf, Go, vars,
        coordinatorVars, lockVars, fileVars
<1>1. CASE Next
<2>1. ASSUME NEW a \in Assets, NEW r \in Roots, StartInstall(a, r)
      PROVE  Untorn'
  <3>1. \A x \in Roots : ~Copying(x)
    BY <2>1, SnapshotAlone, NamesDistinct DEF StartInstall, BeginAllowed
  <3>2. QED BY <2>1, <3>1 DEF StartInstall
<2>2. ASSUME NEW r \in Roots, Write(r)
      PROVE  Untorn'
  BY <2>2 DEF Write
<2>3. ASSUME NEW r \in Roots, StartProbe(r)
      PROVE  Untorn'
  BY <2>3 DEF StartProbe
<2>4. ASSUME NEW r \in Roots, ProbePasses(r)
      PROVE  Untorn'
  BY <2>4 DEF ProbePasses
<2>5. ASSUME NEW r \in Roots, ProbeFails(r)
      PROVE  Untorn'
  BY <2>5 DEF ProbeFails
<2>6. ASSUME NEW r \in Roots, ReleaseProbe(r)
      PROVE  Untorn'
  BY <2>6 DEF ReleaseProbe, ReleasePins
<2>7. ASSUME NEW r \in Roots, Fail(r)
      PROVE  Untorn'
  BY <2>7 DEF Fail
<2>8. ASSUME NEW r \in Roots, Commit(r)
      PROVE  Untorn'
  <3>1. \A x \in Roots : ~Copying(x)
    BY <2>8, SnapshotAlone, NamesDistinct DEF Commit, CommitOpen
  <3>2. QED BY <2>8, <3>1 DEF Commit
<2>9. ASSUME NEW r \in Roots, ReleaseInstallPin(r)
      PROVE  Untorn'
  BY <2>9 DEF ReleaseInstallPin
<2>10. ASSUME NEW r \in Roots, FinishInstall(r)
      PROVE  Untorn'
  BY <2>10 DEF FinishInstall, Finish
<2>11. ASSUME NEW r \in Roots, Settle(r)
      PROVE  Untorn'
  BY <2>11 DEF Settle
<2>12. ASSUME NEW r \in Roots, Cancel(r)
      PROVE  Untorn'
  BY <2>12 DEF Cancel
<2>13. ASSUME NEW r \in Roots, StartPrepare(r)
      PROVE  Untorn'
  <3>1. \A x \in Roots : ~Copying(x)
    BY <2>13, SnapshotAlone, NamesDistinct DEF StartPrepare, BeginAllowed
  <3>2. QED BY <2>13, <3>1 DEF StartPrepare, Slots, Assets
<2>14. ASSUME NEW r \in Roots, MakeSnapshot(r)
      PROVE  Untorn'
  BY <2>14 DEF MakeSnapshot
<2>15. ASSUME NEW r \in Roots, NEW a \in Sources, PinSource(r, a)
      PROVE  Untorn'
  <3>1. current[a] \in Roots /\ meta[current[a]] = a
    BY <2>15 DEF PinSource, Files
  <3>2. QED BY <2>15, <3>1 DEF PinSource
<2>16. ASSUME NEW r \in Roots, CopyDone(r)
      PROVE  Untorn'
  BY <2>16 DEF CopyDone
<2>17. ASSUME NEW r \in Roots, PrepareFails(r)
      PROVE  Untorn'
  BY <2>17 DEF PrepareFails
<2>18. ASSUME NEW r \in Roots, NEW s \in Roots, ReleaseSource(r, s)
      PROVE  Untorn'
  BY <2>18 DEF ReleaseSource, ReleasePins
<2>19. ASSUME NEW r \in Roots, FinishPrepare(r)
      PROVE  Untorn'
  BY <2>19 DEF FinishPrepare, Finish
<2>20. ASSUME NEW r \in Roots, CancelPrepare(r)
      PROVE  Untorn'
  BY <2>20 DEF CancelPrepare
<2>21. ASSUME NEW r \in Roots, ReleaseLease(r)
      PROVE  Untorn'
  BY <2>21 DEF ReleaseLease, ReleasePins
<2>22. ASSUME NEW r \in Roots, RetryRelease(r)
      PROVE  Untorn'
  BY <2>22 DEF RetryRelease
<2>23. ASSUME NEW m \in Models, Remove(m)
      PROVE  Untorn'
  <3>1. \A x \in Roots : ~Copying(x)
    BY <2>23, SnapshotAlone, NamesDistinct DEF Remove, RemoveAllowed, Idle
  <3>2. QED BY <2>23, <3>1 DEF Remove
<2>24. ASSUME NEW m \in Models, RemoveFails(m)
      PROVE  Untorn'
  <3>1. \A x \in Roots : ~Copying(x)
    BY <2>24, SnapshotAlone, NamesDistinct DEF RemoveFails, RemoveAllowed, Idle
  <3>2. QED BY <2>24, <3>1 DEF RemoveFails
<2>25. ASSUME Restart
      PROVE  Untorn'
  BY <2>25 DEF Restart
<2>26. QED
  BY <1>1, <2>1, <2>2, <2>3, <2>4, <2>5, <2>6, <2>7, <2>8, <2>9,
     <2>10, <2>11, <2>12, <2>13, <2>14, <2>15, <2>16, <2>17, <2>18,
     <2>19, <2>20, <2>21, <2>22, <2>23, <2>24, <2>25
  DEF Next, InstallStep, PrepareStep
<1>2. CASE UNCHANGED vars
  BY <1>2
<1>3. QED BY <1>1, <1>2


\* The arithmetic of checkDisk().
LEMMA Shrinks ==
    ASSUME Budgeted, Claim' \subseteq Claim
    PROVE  /\ IsFiniteSet(Claim') /\ Cardinality(Claim') <= Budget
           /\ \A S \in SUBSET reserved : IsFiniteSet(S)
<1>1. IsFiniteSet(Claim) /\ IsFiniteSet(reserved) /\ Cardinality(Claim) <= Budget
  BY DEF Budgeted
<1>2. IsFiniteSet(Claim') /\ Cardinality(Claim') <= Cardinality(Claim)
  BY <1>1, FS_Subset
<1>3. Cardinality(Claim') \in Nat /\ Cardinality(Claim) \in Nat
  BY <1>1, <1>2, FS_CardinalityType
<1>4. \A S \in SUBSET reserved : IsFiniteSet(S)
  BY <1>1, FS_Subset
<1>5. QED BY <1>1, <1>2, <1>3, <1>4, LimitsAreNatural

LEMMA Fits ==
    ASSUME Budgeted, NEW res, IsFiniteSet(res), DiskFits(res),
           NEW C, C \subseteq Full \cup res
    PROVE  IsFiniteSet(C) /\ Cardinality(C) <= Budget
<1>1. IsFiniteSet(Full)
  <2>1. IsFiniteSet(Claim) /\ Full \in SUBSET Claim
    BY DEF Budgeted, Claim
  <2>2. QED BY <2>1, FS_Subset
<1>2. /\ IsFiniteSet(Full \cup res)
      /\ Cardinality(Full \cup res)
           = Cardinality(Full) + Cardinality(res) - Cardinality(Full \cap res)
  BY <1>1, FS_Union
<1>3. IsFiniteSet(Full \cap res)
  BY <1>1, FS_Intersection
<1>4. /\ Cardinality(Full) \in Nat /\ Cardinality(res) \in Nat
      /\ Cardinality(Full \cap res) \in Nat /\ Cardinality(Full \cup res) \in Nat
  BY <1>1, <1>2, <1>3, FS_CardinalityType
<1>5. IsFiniteSet(C) /\ Cardinality(C) <= Cardinality(Full \cup res)
  BY <1>2, FS_Subset
<1>6. Cardinality(C) \in Nat
  BY <1>5, FS_CardinalityType
<1>7. QED BY <1>2, <1>4, <1>5, <1>6, LimitsAreNatural DEF DiskFits

\* What is on disk and what may still be written to it fit the budget.
LEMMA BudgetedInductive == Typed /\ Slots /\ InUseOnDisk /\ Budgeted /\ [Next]_vars => Budgeted'
<1> SUFFICES ASSUME Typed, Slots, InUseOnDisk, Budgeted, [Next]_vars PROVE Budgeted'
  OBVIOUS
<1>0. SelfPinned'
  BY TypedInductive DEF Typed
<1> USE <1>0 DEF Typed, TypeOK, SelfPinned, Budgeted, Claim, Full, Phases, InstallPhases,
        PreparePhases, Go, vars, coordinatorVars, lockVars, fileVars
<1>1. CASE Next
<2>1. ASSUME NEW a \in Assets, NEW r \in Roots, StartInstall(a, r)
      PROVE  Budgeted'
  <3>1. CASE phase'[r] = "unwinding"
    <4>1. Claim' \subseteq Claim
      BY <2>1, <3>1 DEF StartInstall
    <4>2. IsFiniteSet(reserved')
      BY <2>1, FS_AddElement DEF StartInstall
    <4>3. QED BY <2>1, <3>1, <4>1, <4>2, Shrinks DEF StartInstall
  <3>2. CASE phase'[r] = "writing"
    <4>1. DiskFits(reserved') /\ reserved' = reserved \cup {r}
      BY <2>1, <3>2 DEF StartInstall
    <4>2. IsFiniteSet(reserved')
      BY <4>1, FS_AddElement
    <4>3. Claim' \subseteq Full \cup reserved'
      BY <2>1, <3>2 DEF StartInstall
    <4>4. IsFiniteSet(Claim') /\ Cardinality(Claim') <= Budget
      BY <4>1, <4>2, <4>3, Fits
    <4>5. QED BY <2>1, <3>2, <4>2, <4>4 DEF StartInstall
  <3>3. QED BY <2>1, <3>1, <3>2 DEF StartInstall
<2>2. ASSUME NEW r \in Roots, Write(r)
      PROVE  Budgeted'
  <3>1. Claim' \subseteq Claim
    BY <2>2 DEF Write, Stored
  <3>2. QED BY <2>2, <3>1, Shrinks DEF Write, Stored
<2>3. ASSUME NEW r \in Roots, StartProbe(r)
      PROVE  Budgeted'
  <3>1. Claim' \subseteq Claim
    BY <2>3 DEF StartProbe
  <3>2. QED BY <2>3, <3>1, Shrinks DEF StartProbe
<2>4. ASSUME NEW r \in Roots, ProbePasses(r)
      PROVE  Budgeted'
  <3>1. Claim' \subseteq Claim
    BY <2>4 DEF ProbePasses
  <3>2. QED BY <2>4, <3>1, Shrinks DEF ProbePasses
<2>5. ASSUME NEW r \in Roots, ProbeFails(r)
      PROVE  Budgeted'
  <3>1. Claim' \subseteq Claim
    BY <2>5 DEF ProbeFails
  <3>2. QED BY <2>5, <3>1, Shrinks DEF ProbeFails
<2>6. ASSUME NEW r \in Roots, ReleaseProbe(r)
      PROVE  Budgeted'
  <3>1. \A x \in reserved : <<x, x>> \in pins' => x \in reserved'
    BY <2>6, ReleaseTends DEF ReleaseProbe, Pinned
  <3>2. Claim' \subseteq Claim
    BY <2>6, ReleaseFacts DEF ReleaseProbe
  <3>3. QED BY <2>6, <3>1, <3>2, ReleaseTends, Shrinks DEF ReleaseProbe
<2>7. ASSUME NEW r \in Roots, Fail(r)
      PROVE  Budgeted'
  <3>1. Claim' \subseteq Claim
    BY <2>7 DEF Fail, MayFail, InUseOnDisk
  <3>2. QED BY <2>7, <3>1, Shrinks DEF Fail, MayFail
<2>8. ASSUME NEW r \in Roots, Commit(r)
      PROVE  Budgeted'
  <3>1. Claim' \subseteq Claim
    BY <2>8 DEF Commit
  <3>2. QED BY <2>8, <3>1, Shrinks DEF Commit
<2>9. ASSUME NEW r \in Roots, ReleaseInstallPin(r)
      PROVE  Budgeted'
  <3>1. Claim' \subseteq Claim
    BY <2>9 DEF ReleaseInstallPin
  <3>2. QED BY <2>9, <3>1, Shrinks DEF ReleaseInstallPin
<2>10. ASSUME NEW r \in Roots, FinishInstall(r)
      PROVE  Budgeted'
  <3>1. \A x \in reserved : <<x, x>> \in pins' => x \in reserved'
    BY <2>10, CleanupTends DEF FinishInstall, Finish, Pinned
  <3>2. Claim' \subseteq Claim
    BY <2>10, CleanupFacts DEF FinishInstall, Finish
  <3>3. QED BY <2>10, <3>1, <3>2, CleanupTends, Shrinks DEF FinishInstall, Finish
<2>11. ASSUME NEW r \in Roots, Settle(r)
      PROVE  Budgeted'
  <3>1. Claim' \subseteq Claim
    BY <2>11 DEF Settle
  <3>2. QED BY <2>11, <3>1, Shrinks DEF Settle
<2>12. ASSUME NEW r \in Roots, Cancel(r)
      PROVE  Budgeted'
  <3>1. Claim' \subseteq Claim
    BY <2>12 DEF Cancel
  <3>2. QED BY <2>12, <3>1, Shrinks DEF Cancel
<2>13. ASSUME NEW r \in Roots, StartPrepare(r)
      PROVE  Budgeted'
  <3>1. Claim' \subseteq Claim
    BY <2>13 DEF StartPrepare
  <3>2. IsFiniteSet(reserved')
    BY <2>13, FS_AddElement DEF StartPrepare
  <3>3. QED BY <2>13, <3>1, <3>2, Shrinks DEF StartPrepare
<2>14. ASSUME NEW r \in Roots, MakeSnapshot(r)
      PROVE  Budgeted'
  <3>1. r \in reserved /\ DiskFits(reserved)
    BY <2>14 DEF MakeSnapshot
  <3>2. Claim' \subseteq Full \cup reserved
    BY <2>14, <3>1 DEF MakeSnapshot
  <3>3. IsFiniteSet(Claim') /\ Cardinality(Claim') <= Budget
    BY <3>1, <3>2, Fits
  <3>4. QED BY <2>14, <3>3 DEF MakeSnapshot
<2>15. ASSUME NEW r \in Roots, NEW a \in Sources, PinSource(r, a)
      PROVE  Budgeted'
  <3>1. Claim' \subseteq Claim
    BY <2>15 DEF PinSource
  <3>2. QED BY <2>15, <3>1, Shrinks DEF PinSource
<2>16. ASSUME NEW r \in Roots, CopyDone(r)
      PROVE  Budgeted'
  <3>1. Claim' \subseteq Claim
    BY <2>16 DEF CopyDone
  <3>2. QED BY <2>16, <3>1, Shrinks DEF CopyDone
<2>17. ASSUME NEW r \in Roots, PrepareFails(r)
      PROVE  Budgeted'
  <3>1. Claim' \subseteq Claim
    BY <2>17 DEF PrepareFails, InUseOnDisk
  <3>2. QED BY <2>17, <3>1, Shrinks DEF PrepareFails
<2>18. ASSUME NEW r \in Roots, NEW s \in Roots, ReleaseSource(r, s)
      PROVE  Budgeted'
  <3>1. \A x \in reserved : <<x, x>> \in pins' => x \in reserved'
    BY <2>18, ReleaseTends DEF ReleaseSource, Pinned
  <3>2. Claim' \subseteq Claim
    BY <2>18, ReleaseFacts DEF ReleaseSource
  <3>3. QED BY <2>18, <3>1, <3>2, ReleaseTends, Shrinks DEF ReleaseSource
<2>19. ASSUME NEW r \in Roots, FinishPrepare(r)
      PROVE  Budgeted'
  <3>1. \A x \in reserved : <<x, x>> \in pins' => x \in reserved'
    BY <2>19, CleanupTends DEF FinishPrepare, Finish, Pinned
  <3>2. Claim' \subseteq Claim
    BY <2>19, CleanupFacts DEF FinishPrepare, Finish
  <3>3. QED BY <2>19, <3>1, <3>2, CleanupTends, Shrinks DEF FinishPrepare, Finish
<2>20. ASSUME NEW r \in Roots, CancelPrepare(r)
      PROVE  Budgeted'
  <3>1. Claim' \subseteq Claim
    BY <2>20 DEF CancelPrepare
  <3>2. QED BY <2>20, <3>1, Shrinks DEF CancelPrepare
<2>21. ASSUME NEW r \in Roots, ReleaseLease(r)
      PROVE  Budgeted'
  <3>1. \A x \in reserved : <<x, x>> \in pins' => x \in reserved'
    BY <2>21, ReleaseTends DEF ReleaseLease, Pinned
  <3>2. Claim' \subseteq Claim
    BY <2>21, ReleaseFacts DEF ReleaseLease
  <3>3. QED BY <2>21, <3>1, <3>2, ReleaseTends, Shrinks DEF ReleaseLease
<2>22. ASSUME NEW r \in Roots, RetryRelease(r)
      PROVE  Budgeted'
  <3>1. \A x \in reserved : <<x, x>> \in pins' => x \in reserved'
    BY <2>22, CleanupTends DEF RetryRelease, Pinned
  <3>2. Claim' \subseteq Claim
    BY <2>22, CleanupFacts DEF RetryRelease
  <3>3. QED BY <2>22, <3>1, <3>2, CleanupTends, Shrinks DEF RetryRelease
<2>23. ASSUME NEW m \in Models, Remove(m)
      PROVE  Budgeted'
  <3>1. Claim' \subseteq Claim
    BY <2>23 DEF Remove, RootsOf
  <3>2. \A x \in Roots : <<x, x>> \in pins => x \notin RootsOf(m)
    BY <2>23 DEF Remove, RemoveAllowed, Pinned
  <3>3. QED BY <2>23, <3>1, <3>2, Shrinks DEF Remove
<2>24. ASSUME NEW m \in Models, RemoveFails(m)
      PROVE  Budgeted'
  <3>1. Claim' \subseteq Claim
    BY <2>24 DEF RemoveFails, RootsOf
  <3>2. QED BY <2>24, <3>1, Shrinks DEF RemoveFails, RootsOf
<2>25. ASSUME Restart
      PROVE  Budgeted'
  <3>1. Claim' \subseteq Claim
    BY <2>25 DEF Restart
  <3>2. QED BY <2>25, <3>1, Shrinks DEF Restart
<2>26. QED
  BY <1>1, <2>1, <2>2, <2>3, <2>4, <2>5, <2>6, <2>7, <2>8, <2>9,
     <2>10, <2>11, <2>12, <2>13, <2>14, <2>15, <2>16, <2>17, <2>18,
     <2>19, <2>20, <2>21, <2>22, <2>23, <2>24, <2>25
  DEF Next, InstallStep, PrepareStep
<1>2. CASE UNCHANGED vars
  BY <1>2
<1>3. QED BY <1>1, <1>2

---------------------------------------------------------------------------

\* The inductive invariant of the accounts.
Kept == NothingForgotten /\ Inherited /\ Untorn /\ Budgeted

LEMMA KeptInductive == Spec => []Kept
<1>1. Init => Kept
  <2> SUFFICES ASSUME Init PROVE Kept
    OBVIOUS
  <2>1. NothingForgotten /\ Inherited
    BY DEF Init, NothingForgotten, Inherited
  <2>2. Untorn
    BY DEF Init, Untorn, Copying
  <2>3. Claim = {} /\ reserved = {}
    BY DEF Init, Claim, Full
  <2>4. Budgeted
    BY <2>3, FS_EmptySet, LimitsAreNatural DEF Init, Budgeted
  <2>5. QED BY <2>1, <2>2, <2>4 DEF Kept
<1>2. IInv /\ Kept /\ [Next]_vars => Kept'
  BY NothingForgottenInductive, InheritedInductive, UntornInductive, BudgetedInductive
  DEF IInv, Kept
<1>3. QED BY <1>1, <1>2, Inductive, PTL DEF Spec

\* Whatever is released, and in which order, no record is left behind: it is kept,
\* pinned, or carries the error of a deletion that failed (pin.release, finish).
THEOREM NeverLeftBehind == Spec => []NothingForgotten
<1>1. Kept => NothingForgotten
  BY DEF Kept
<1>2. QED BY <1>1, KeptInductive, PTL

\* However many installs and snapshots check the disk at once, for any budget and
\* any number of roots, and whatever failures and restarts leave (checkDisk).
THEOREM NeverOvercommitted == Spec => []WithinBudget
<1>1. Kept => WithinBudget
  <2> SUFFICES ASSUME Budgeted PROVE WithinBudget
    BY DEF Kept
  <2>1. /\ IsFiniteSet(Claim) /\ Full \in SUBSET Claim
        /\ Cardinality(Claim) <= Budget
    BY DEF Budgeted, Claim
  <2>2. /\ IsFiniteSet(Full) /\ Cardinality(Full) <= Cardinality(Claim)
    BY <2>1, FS_Subset
  <2>3. Cardinality(Full) \in Nat /\ Cardinality(Claim) \in Nat
    BY <2>1, <2>2, FS_CardinalityType
  <2>4. QED BY <2>1, <2>2, <2>3, LimitsAreNatural DEF WithinBudget
<1>2. QED BY <1>1, KeptInductive, PTL

\* A completed snapshot was copied from the generations that are still active.
THEOREM NeverTorn == Spec => []NoTornSnapshot
<1>1. Kept => NoTornSnapshot
  BY DEF Kept, Untorn, Copying, NoTornSnapshot
<1>2. QED BY <1>1, KeptInductive, PTL

\* A removal deletes nothing but the generations of its model.
LEMMA RemovalDeletes ==
    ASSUME TypeOK, NEW m \in Models, Remove(m) \/ RemoveFails(m), NEW r \in Roots,
           disk[r] # "absent", disk'[r] = "absent"
    PROVE  meta[r] = m /\ RemoveAllowed(m)
  BY DEF TypeOK, Remove, RemoveFails, RootsOf

\* Any other step deletes a directory only when this process made it.
LEMMA StepDeletes ==
    ASSUME TypeOK, NEW x \in Roots, InstallStep(x) \/ PrepareStep(x), NEW r \in Roots,
           disk[r] # "absent", disk'[r] = "absent"
    PROVE  r \in owned
<1> USE DEF TypeOK, fileVars, vars
<1>1. CASE InstallStep(x)
  <2>1. ~\E a \in Assets : StartInstall(a, x)
    BY DEF StartInstall
  <2>2. ~(Write(x) \/ StartProbe(x) \/ ProbePasses(x) \/ ProbeFails(x))
    BY DEF Write, Stored, StartProbe, ProbePasses, ProbeFails
  <2>3. ~(Fail(x) \/ Commit(x) \/ ReleaseInstallPin(x) \/ Settle(x) \/ Cancel(x))
    BY DEF Fail, Commit, ReleaseInstallPin, Settle, Cancel
  <2>4. ReleaseProbe(x) \/ FinishInstall(x)
    BY <1>1, <2>1, <2>2, <2>3 DEF InstallStep
  <2>5. QED BY <2>4, CleanupTends, ReleaseTends DEF ReleaseProbe, FinishInstall, Finish
<1>2. CASE PrepareStep(x)
  <2>1. ~(StartPrepare(x) \/ MakeSnapshot(x) \/ \E a \in Sources : PinSource(x, a))
    BY DEF StartPrepare, MakeSnapshot, PinSource
  <2>2. ~(CopyDone(x) \/ PrepareFails(x) \/ CancelPrepare(x))
    BY DEF CopyDone, PrepareFails, CancelPrepare
  <2>3. \/ \E s \in Roots : ReleaseSource(x, s)
        \/ FinishPrepare(x) \/ ReleaseLease(x) \/ RetryRelease(x)
    BY <1>2, <2>1, <2>2 DEF PrepareStep
  <2>4. QED BY <2>3, CleanupTends, ReleaseTends
    DEF ReleaseSource, FinishPrepare, Finish, ReleaseLease, RetryRelease
<1>3. QED BY <1>1, <1>2

\* Observing or pinning a directory of an earlier process gives no right to delete
\* it; only the removal of its model does (prepare, cleanup, remove).
THEOREM InheritanceHolds == Spec => InheritedRootsSurvive
<1>1. ASSUME TypeOK, Inherited, [Next]_vars, NEW r \in Roots,
             phase[r] = "lost", disk[r] # "absent", disk'[r] = "absent"
      PROVE  meta[r] \in Models /\ RemoveAllowed(meta[r])
  <2>1. r \notin owned
    BY <1>1 DEF Inherited
  <2>2. disk' # disk
    BY <1>1
  <2>3. ~Restart /\ Next
    BY <1>1, <2>2 DEF Restart, vars, fileVars
  <2>4. ~\E x \in Roots : InstallStep(x) \/ PrepareStep(x)
    BY <1>1, <2>1, StepDeletes
  <2>5. QED BY <1>1, <2>3, <2>4, RemovalDeletes DEF Next
<1>2. IInv /\ Kept /\ [Next]_vars
        => [\A r \in Roots : phase[r] = "lost" /\ disk[r] # "absent" /\ disk'[r] = "absent"
                => meta[r] \in Models /\ RemoveAllowed(meta[r])]_vars
  BY <1>1 DEF IInv, Typed, Kept
<1>3. QED BY <1>2, Inductive, KeptInductive, PTL DEF Spec, InheritedRootsSurvive

===========================================================================
