------------------------- MODULE AssetCoordinator -------------------------
(***************************************************************************)
(* The managed asset store of the desktop app: one ManagedAssetCoordinator *)
(* per application root (managed-asset-lease.cjs), the install transaction *)
(* of RuntimeManager, the install / cancel / remove operations of          *)
(* ModelManager and the private snapshots that prepareVoiceAssets and      *)
(* prepareHybridVoiceAssets lease to a speech process.                     *)
(*                                                                         *)
(* A root is a freshly named directory (g-<random> for an install,         *)
(* s-<random> for a snapshot) and, because begin() makes a new operation   *)
(* for a new root, it also stands for that operation and for the owner     *)
(* object which pins it.  Every await of the code ends an action: what a   *)
(* JavaScript turn does without awaiting is one step.                      *)
(***************************************************************************)
EXTENDS Naturals, FiniteSets

CONSTANTS
    Models,     \* model ids: their installs may overlap on distinct roots
    Runtimes,   \* the downloaded runtime, installed exclusively; {} when bundled
    Sources,    \* the assets a snapshot copies (its effective bindings)
    Roots,      \* directory names that can be drawn
    Probe,      \* owner of the pin a runtime health check takes
    None,       \* null
    MaxRoots,   \* LEASE_LIMITS.roots
    MaxPins,    \* LEASE_LIMITS.pins
    Budget      \* LEASE_LIMITS.managedBytes, in units of one full root

Assets == Models \cup Runtimes

ASSUME NamesDistinct ==
    /\ Runtimes \cap Models = {}
    /\ None \notin Assets \cup Roots
    /\ Probe \notin Roots
    /\ Sources \subseteq Assets

ASSUME LimitsAreNatural == MaxRoots \in Nat /\ MaxPins \in Nat /\ Budget \in Nat

VARIABLES
    known,      \* coordinator.roots: the roots that have a record
    owned,      \* records whose directory this process created
    keep,       \* records that publish() or prepare() retains
    err,        \* records with a cleanup error
    reserved,   \* records whose byte reservation is still counted
    pins,       \* <<root, owner>>: the pin tokens of all records
    exclusive,  \* coordinator.exclusive
    shared,     \* coordinator.shared: model installs in progress
    phase,      \* where the install or preparation of each root is
    aborted,    \* roots whose AbortController fired
    meta,       \* the asset a root was drawn for; None for a snapshot
    disk,       \* what the directory holds
    current,    \* metadata file of each asset: the active generation
    previous,   \* metadata file of each asset: the one before it
    damaged     \* roots a removal that failed half way has deleted

coordinatorVars == <<known, owned, keep, err, reserved, pins>>
lockVars == <<exclusive, shared>>
fileVars == <<disk, current, previous, damaged>>
vars == <<coordinatorVars, lockVars, phase, aborted, meta, fileVars>>

InstallPhases ==
    {"writing", "written", "probing", "verified", "committed", "unwinding"}
PreparePhases == {"preparing", "copying", "copied", "failing"}
Phases == InstallPhases \cup PreparePhases
          \cup {"fresh", "finished", "leased", "void", "over", "lost"}

\* The root of an operation that begin() admitted and finish() has not ended.
Holding(r) == phase[r] \in InstallPhases \cup PreparePhases

TypeOK ==
    /\ known \subseteq Roots
    /\ owned \subseteq known
    /\ keep \subseteq known
    /\ err \subseteq known
    /\ reserved \subseteq known
    /\ pins \subseteq known \X (Roots \cup {Probe})
    /\ exclusive \in Roots \cup {None}
    /\ shared \subseteq Roots
    /\ phase \in [Roots -> Phases]
    /\ aborted \subseteq Roots
    /\ meta \in [Roots -> Assets \cup {None}]
    /\ disk \in [Roots -> {"absent", "empty", "full"}]
    /\ current \in [Assets -> Roots \cup {None}]
    /\ previous \in [Assets -> Roots \cup {None}]
    /\ damaged \subseteq Roots

Init ==
    /\ known = {} /\ owned = {} /\ keep = {} /\ err = {} /\ reserved = {}
    /\ pins = {}
    /\ exclusive = None /\ shared = {}
    /\ phase = [r \in Roots |-> "fresh"]
    /\ aborted = {}
    /\ meta = [r \in Roots |-> None]
    /\ disk = [r \in Roots |-> "absent"]
    /\ current = [a \in Assets |-> None]
    /\ previous = [a \in Assets |-> None]
    /\ damaged = {}

---------------------------------------------------------------------------
(* Helpers of the coordinator.                                             *)

\* coordinator.active === null
Idle == exclusive = None /\ shared = {}

Pinned(r, ps) == \E o \in Roots \cup {Probe} : <<r, o>> \in ps

RootsOf(a) == {r \in Roots : meta[r] = a}

Full == {r \in Roots : disk[r] = "full"}

Referenced(r) == \E a \in Assets : r \in {current[a], previous[a]}

\* A slip of begin(): an exclusive operation ignores the installs under way.
BeginBesideShared(asset, isShared) ==
    /\ exclusive = None
    /\ \A s \in shared : meta[s] # asset
    /\ Cardinality(known) < MaxRoots /\ Cardinality(pins) < MaxPins

\* The admission checks of begin(); asset None is a snapshot's null metadata.
BeginAllowed(asset, isShared) ==
    /\ exclusive = None
    /\ isShared \/ shared = {}
    /\ \A s \in shared : meta[s] # asset
    /\ Cardinality(known) < MaxRoots
    /\ Cardinality(pins) < MaxPins

\* A slip of checkDisk(): only the bytes already written are counted.
DiskFitsNow(res) == Cardinality(Full) < Budget

\* checkDisk(): bytes present plus every outstanding reservation.
DiskFits(res) == Cardinality(Full) + Cardinality(res) <= Budget

\* ModelManager.active.has(id), or RuntimeManager.controller for the runtime.
InstallBusy(a) ==
    \E r \in RootsOf(a) : phase[r] \in InstallPhases \cup {"finished"}

\* A slip of cleanup(): records in use are not skipped.
RemovableInUse(ps) == known \ keep

\* Records cleanup() does not skip, once the pins are ps.
Removable(ps) == {r \in known : r \notin keep /\ ~Pinned(r, ps)}

\* A slip of cleanup(): neither the keep flag nor the metadata is consulted.
GoneUnchecked(ps, stuck) == {r \in known : ~Pinned(r, ps)} \ stuck

\* The records cleanup() ends, when the deletions of `stuck' throw.
Gone(ps, stuck) ==
    {r \in Removable(ps) : r \in owned => ~Referenced(r) /\ r \notin stuck}

\* Of those, the directories this process made are deleted.
Deleted(gone) == gone \cap owned

\* cleanup() in one turn: no pin can be taken between the check and the delete.
Cleanup(ps) ==
    \E stuck \in SUBSET Removable(ps) :
        LET gone == Gone(ps, stuck)
        IN /\ known' = known \ gone
           /\ owned' = owned \ gone
           /\ err' = (err \cup Removable(ps)) \ gone
           /\ reserved' = reserved \ gone
           /\ disk' = [r \in Roots |->
                         IF r \in Deleted(gone) THEN "absent" ELSE disk[r]]

\* A slip of pin.release(): cleanup is left to the next operation.
ReleasePinsOnly(ps) ==
    /\ pins' = pins \ ps
    /\ UNCHANGED <<known, owned, err, reserved, disk>>

\* pin.release(): with no operation active the coordinator cleans up at once.
ReleasePins(ps) ==
    /\ pins' = pins \ ps
    /\ IF Idle THEN Cleanup(pins \ ps)
               ELSE UNCHANGED <<known, owned, err, reserved, disk>>

\* finish(): clean up, then give the slot back.
Finish(r) ==
    /\ Cleanup(pins)
    /\ exclusive' = IF exclusive = r THEN None ELSE exclusive
    /\ shared' = shared \ {r}
    /\ UNCHANGED <<keep, pins>>

Go(r, p) == phase' = [phase EXCEPT ![r] = p]

---------------------------------------------------------------------------
(* RuntimeManager.install and ModelManager.install.                        *)

\* The synchronous head of install(): begin, pin, checkDisk and mkdir, up to
\* the first await.  checkDisk or mkdir may throw after begin succeeded: the
\* finally block then drops the pin in the same turn.
StartInstall(a, r) ==
    /\ phase[r] = "fresh"
    /\ ~InstallBusy(a)
    /\ BeginAllowed(a, a \in Models)
    /\ IF a \in Models
         THEN shared' = shared \cup {r} /\ UNCHANGED exclusive
         ELSE exclusive' = r /\ UNCHANGED shared
    /\ known' = known \cup {r}
    /\ reserved' = reserved \cup {r}
    /\ meta' = [meta EXCEPT ![r] = a]
    /\ \/ /\ DiskFits(reserved \cup {r})
          /\ Go(r, "writing")
          /\ pins' = pins \cup {<<r, r>>}
          /\ owned' = owned \cup {r}
          /\ disk' = [disk EXCEPT ![r] = "empty"]
       \/ /\ Go(r, "unwinding")
          /\ UNCHANGED <<pins, owned, disk>>
    /\ UNCHANGED <<keep, err, aborted, current, previous, damaged>>

\* Each file of the artifact was fetched, verified and renamed into its place.
Stored(r) == [disk EXCEPT ![r] = "full"]

\* Download, extraction and inventory check succeed.
Write(r) ==
    /\ phase[r] = "writing"
    /\ r \notin aborted
    /\ Go(r, "written")
    /\ disk' = Stored(r)
    /\ UNCHANGED <<coordinatorVars, lockVars, aborted, meta,
                   current, previous, damaged>>

\* healthCheck() of a runtime pins the candidate through the install context.
StartProbe(r) ==
    /\ phase[r] = "written"
    /\ meta[r] \in Runtimes
    /\ r \notin aborted
    /\ Cardinality(pins) < MaxPins
    /\ Go(r, "probing")
    /\ pins' = pins \cup {<<r, Probe>>}
    /\ UNCHANGED <<known, owned, keep, err, reserved, lockVars, aborted, meta,
                   fileVars>>

\* The candidate answered and its process and pin were released.
ProbePasses(r) ==
    /\ phase[r] = "probing"
    /\ r \notin aborted
    /\ Go(r, "verified")
    /\ pins' = pins \ {<<r, Probe>>}
    /\ UNCHANGED <<known, owned, keep, err, reserved, lockVars, aborted, meta,
                   fileVars>>

\* The health check fails; when the candidate's exit is unconfirmed its pin is
\* retained, and only the installer's own pin is dropped.
ProbeFails(r) ==
    /\ phase[r] = "probing"
    /\ Go(r, "unwinding")
    /\ \E kept \in BOOLEAN :
         pins' = pins \ (IF kept THEN {<<r, r>>} ELSE {<<r, r>>, <<r, Probe>>})
    /\ UNCHANGED <<known, owned, keep, err, reserved, lockVars, aborted, meta,
                   fileVars>>

\* A retained candidate is confirmed gone later (a retry of releaseClientAssets).
ReleaseProbe(r) ==
    /\ <<r, Probe>> \in pins
    /\ phase[r] # "probing"
    /\ ReleasePins({<<r, Probe>>})
    /\ UNCHANGED <<keep, lockVars, phase, aborted, meta,
                   current, previous, damaged>>

\* The awaits of the transaction that can reject.
MayFail(r) == phase[r] \in {"writing", "written", "verified"}

\* Any await of the transaction rejects (network, abort, hash, rename, ...):
\* the finally block drops the pin before it awaits finish().
Fail(r) ==
    /\ MayFail(r)
    /\ Go(r, "unwinding")
    /\ pins' = pins \ {<<r, r>>}
    /\ \E left \in {disk[r], "full"} : disk' = [disk EXCEPT ![r] = left]
    /\ UNCHANGED <<known, owned, keep, err, reserved, lockVars, aborted, meta,
                   current, previous, damaged>>

\* The metadata record that commit() writes over the one read just before.
Activated(a, r) == [current |-> r, previous |-> current[a]]

\* publish(): of the records of this asset, the new root and the one that was
\* current stay; the reservation turns into bytes on disk.
Retained(a, r) ==
    {x \in known : IF meta[x] = a THEN x \in {r, current[a]} ELSE x \in keep}

\* A slip of commit(): the abort signal is not looked at again.
CommitOwned(r) == exclusive = r \/ r \in shared

\* commit() is open to the operation that still owns its slot, unless aborted.
CommitOpen(r) == (exclusive = r \/ r \in shared) /\ r \notin aborted

\* commit(): abort check, rename and publish in one turn.
Commit(r) ==
    /\ phase[r] = IF meta[r] \in Runtimes THEN "verified" ELSE "written"
    /\ meta[r] \in Assets
    /\ CommitOpen(r)
    /\ Go(r, "committed")
    /\ current' = [current EXCEPT ![meta[r]] = Activated(meta[r], r).current]
    /\ previous' = [previous EXCEPT ![meta[r]] = Activated(meta[r], r).previous]
    /\ keep' = Retained(meta[r], r)
    /\ reserved' = reserved \ {r}
    /\ UNCHANGED <<known, owned, err, pins, lockVars, aborted, meta, disk, damaged>>

\* finally: await pin.release(owner), while the operation is still active.
ReleaseInstallPin(r) ==
    /\ phase[r] = "committed"
    /\ Go(r, "unwinding")
    /\ pins' = pins \ {<<r, r>>}
    /\ UNCHANGED <<known, owned, keep, err, reserved, lockVars, aborted, meta,
                   fileVars>>

\* finally: await coordinator.finish(operation).
FinishInstall(r) ==
    /\ phase[r] = "unwinding"
    /\ Go(r, "finished")
    /\ Finish(r)
    /\ UNCHANGED <<aborted, meta, current, previous, damaged>>

\* The promise of install() settles: controller and active entry are cleared.
Settle(r) ==
    /\ phase[r] = "finished"
    /\ Go(r, "over")
    /\ UNCHANGED <<coordinatorVars, lockVars, aborted, meta, fileVars>>

\* cancel(id): abort the controller of the running install.
Cancel(r) ==
    /\ phase[r] \in InstallPhases
    /\ aborted' = aborted \cup {r}
    /\ UNCHANGED <<coordinatorVars, lockVars, phase, meta, fileVars>>

---------------------------------------------------------------------------
(* prepareVoiceAssets and prepareHybridVoiceAssets.                        *)

\* The synchronous head: begin and pin, before the deferred work runs.
StartPrepare(r) ==
    /\ phase[r] = "fresh"
    /\ BeginAllowed(None, FALSE)
    /\ Go(r, "preparing")
    /\ exclusive' = r
    /\ known' = known \cup {r}
    /\ reserved' = reserved \cup {r}
    /\ pins' = pins \cup {<<r, r>>}
    /\ UNCHANGED <<owned, keep, err, shared, aborted, meta, fileVars>>

\* The deferred work creates the snapshot directory.
MakeSnapshot(r) ==
    /\ phase[r] = "preparing"
    /\ r \notin aborted
    /\ DiskFits(reserved)
    /\ Go(r, "copying")
    /\ owned' = owned \cup {r}
    /\ disk' = [disk EXCEPT ![r] = "empty"]
    /\ UNCHANGED <<known, keep, err, reserved, pins, lockVars, aborted, meta,
                   current, previous, damaged>>

\* The generation of asset a that the preparation of r has pinned.
PinnedSource(r, a) == {s \in RootsOf(a) : <<s, r>> \in pins}

\* prepare() and pin() of the coordinator: their limits on records and pins.
PinAdmitted(s) ==
    /\ s \in known \/ Cardinality(known) < MaxRoots
    /\ Cardinality(pins) < MaxPins

\* pinCurrent(): read the metadata and pin its generation in one turn.  The
\* generation of an earlier process gets a record that it does not own.
PinSource(r, a) ==
    /\ phase[r] = "copying"
    /\ r \notin aborted
    /\ a \in Sources /\ PinnedSource(r, a) = {}
    /\ current[a] # None
    /\ PinAdmitted(current[a])
    /\ known' = known \cup {current[a]}
    /\ keep' = keep \cup ({current[a]} \ known)
    /\ pins' = pins \cup {<<current[a], r>>}
    /\ UNCHANGED <<owned, err, reserved, lockVars, phase, aborted, meta, fileVars>>

\* Every source verified and copied, the snapshot verified.
CopyDone(r) ==
    /\ phase[r] = "copying"
    /\ r \notin aborted
    /\ \A a \in Sources : \E s \in PinnedSource(r, a) : disk[s] = "full"
    /\ Go(r, "copied")
    /\ disk' = [disk EXCEPT ![r] = "full"]
    /\ UNCHANGED <<coordinatorVars, lockVars, aborted, meta,
                   current, previous, damaged>>

\* A check, pin, verification or copy of the preparation throws.
PrepareFails(r) ==
    /\ phase[r] \in {"preparing", "copying"}
    /\ Go(r, "failing")
    /\ \E left \in {disk[r]} \cup (IF phase[r] = "copying" THEN {"full"} ELSE {}) :
         disk' = [disk EXCEPT ![r] = left]
    /\ UNCHANGED <<coordinatorVars, lockVars, aborted, meta,
                   current, previous, damaged>>

\* finally: the sources are released one await at a time.
ReleaseSource(r, s) ==
    /\ phase[r] \in {"copied", "failing"}
    /\ s # r /\ <<s, r>> \in pins
    /\ ReleasePins({<<s, r>>})
    /\ UNCHANGED <<keep, lockVars, phase, aborted, meta,
                   current, previous, damaged>>

\* finally: await coordinator.finish(operation); the lease is usable only when
\* the copy completed and nobody aborted it.
FinishPrepare(r) ==
    /\ phase[r] \in {"copied", "failing"}
    /\ \A s \in Roots \ {r} : <<s, r>> \notin pins
    /\ Go(r, IF phase[r] = "copied" /\ r \notin aborted THEN "leased" ELSE "void")
    /\ Finish(r)
    /\ UNCHANGED <<aborted, meta, current, previous, damaged>>

\* lease.cancel()
CancelPrepare(r) ==
    /\ phase[r] \in PreparePhases
    /\ aborted' = aborted \cup {r}
    /\ UNCHANGED <<coordinatorVars, lockVars, phase, meta, fileVars>>

\* lease.release(), once its work has settled.
ReleaseLease(r) ==
    /\ phase[r] \in {"leased", "void"}
    /\ Go(r, "over")
    /\ ReleasePins({<<r, r>>})
    /\ UNCHANGED <<keep, lockVars, aborted, meta, current, previous, damaged>>

\* A repeated lease.release() after ASSET_CLEANUP_FAILED: retryCleanup().
RetryRelease(r) ==
    /\ phase[r] = "over" /\ meta[r] = None
    /\ r \in known
    /\ Idle
    /\ Cleanup(pins)
    /\ UNCHANGED <<keep, pins, lockVars, phase, aborted, meta,
                   current, previous, damaged>>

---------------------------------------------------------------------------
(* ModelManager.remove, and the end of the process.                        *)

\* A slip of remove(): only the installs are looked at.
RemoveUnlessInstalling(m) == \A n \in Models : ~InstallBusy(n)

\* The refusals of remove(): an install anywhere, an active operation, a pin.
RemoveAllowed(m) ==
    /\ \A n \in Models : ~InstallBusy(n)
    /\ Idle
    /\ \A r \in RootsOf(m) \cap known : ~Pinned(r, pins)

\* The whole directory of the model goes, with its metadata file.
Remove(m) ==
    /\ RemoveAllowed(m)
    /\ \E r \in RootsOf(m) : disk[r] # "absent"
    /\ disk' = [r \in Roots |-> IF meta[r] = m THEN "absent" ELSE disk[r]]
    /\ current' = [current EXCEPT ![m] = None]
    /\ previous' = [previous EXCEPT ![m] = None]
    /\ known' = known \ RootsOf(m)
    /\ owned' = owned \ RootsOf(m)
    /\ keep' = keep \ RootsOf(m)
    /\ err' = err \ RootsOf(m)
    /\ reserved' = reserved \ RootsOf(m)
    /\ UNCHANGED <<pins, lockVars, phase, aborted, meta, damaged>>

\* removeManagedTree throws half way: some generations and perhaps the metadata
\* file are gone, and every record stays.
RemoveFails(m) ==
    /\ RemoveAllowed(m)
    /\ \E gone \in SUBSET {r \in RootsOf(m) : disk[r] # "absent"},
          fileGone \in BOOLEAN :
         /\ gone # {}
         /\ disk' = [r \in Roots |-> IF r \in gone THEN "absent" ELSE disk[r]]
         /\ damaged' = damaged \cup gone
         /\ IF fileGone
              THEN /\ current' = [current EXCEPT ![m] = None]
                   /\ previous' = [previous EXCEPT ![m] = None]
              ELSE UNCHANGED <<current, previous>>
    /\ UNCHANGED <<coordinatorVars, lockVars, phase, aborted, meta>>

\* A slip at startup: directories that no metadata file names are swept away.
RestartSweeping ==
    /\ known' = {} /\ owned' = {} /\ keep' = {} /\ err' = {} /\ reserved' = {}
    /\ pins' = {}
    /\ exclusive' = None /\ shared' = {}
    /\ phase' = [r \in Roots |-> IF phase[r] = "fresh" THEN "fresh" ELSE "lost"]
    /\ aborted' = {}
    /\ disk' = [r \in Roots |-> IF Referenced(r) THEN disk[r] ELSE "absent"]
    /\ UNCHANGED <<meta, current, previous, damaged>>

\* The process dies and a new one starts with an empty coordinator: files and
\* metadata stay, and no leftover directory is owned any more.
Restart ==
    /\ known' = {} /\ owned' = {} /\ keep' = {} /\ err' = {} /\ reserved' = {}
    /\ pins' = {}
    /\ exclusive' = None /\ shared' = {}
    /\ phase' = [r \in Roots |-> IF phase[r] = "fresh" THEN "fresh" ELSE "lost"]
    /\ aborted' = {}
    /\ UNCHANGED <<meta, fileVars>>

---------------------------------------------------------------------------

InstallStep(r) ==
    \/ \E a \in Assets : StartInstall(a, r)
    \/ Write(r)
    \/ StartProbe(r)
    \/ ProbePasses(r)
    \/ ProbeFails(r)
    \/ ReleaseProbe(r)
    \/ Fail(r)
    \/ Commit(r)
    \/ ReleaseInstallPin(r)
    \/ FinishInstall(r)
    \/ Settle(r)
    \/ Cancel(r)

PrepareStep(r) ==
    \/ StartPrepare(r)
    \/ MakeSnapshot(r)
    \/ \E a \in Sources : PinSource(r, a)
    \/ CopyDone(r)
    \/ PrepareFails(r)
    \/ \E s \in Roots : ReleaseSource(r, s)
    \/ FinishPrepare(r)
    \/ CancelPrepare(r)
    \/ ReleaseLease(r)
    \/ RetryRelease(r)

Next ==
    \/ \E r \in Roots : InstallStep(r) \/ PrepareStep(r)
    \/ \E m \in Models : Remove(m) \/ RemoveFails(m)
    \/ Restart

Spec == Init /\ [][Next]_vars

---------------------------------------------------------------------------
(* Properties.                                                             *)

\* One exclusive operation XOR model installs on distinct assets, told from
\* where the operations really are and not from the coordinator's own slots:
\* no install overlaps a snapshot copy, a runtime install or an install of the
\* same model (begin, finish).
ExclusiveXorShared ==
    \A r, s \in Roots :
        r # s /\ Holding(r) /\ Holding(s)
            => /\ meta[r] \in Models /\ meta[s] \in Models
               /\ meta[r] # meta[s]

\* A directory somebody works in is never deleted under them, whichever other
\* operation finishes meanwhile: a transaction past mkdir, a leased snapshot,
\* a candidate whose exit is unconfirmed (pin, cleanup, remove).
InUseOnDisk ==
    \A r \in Roots :
        /\ phase[r] \in InstallPhases \ {"writing", "unwinding"} => disk[r] = "full"
        /\ phase[r] \in {"writing", "copying"} => disk[r] # "absent"
        /\ phase[r] \in {"copied", "leased"} => disk[r] = "full"
        /\ <<r, Probe>> \in pins => disk[r] # "absent"

\* The metadata file never names a generation that is not completely on disk,
\* neither as current nor as previous, across installs, cleanups and restarts
\* (commit, publish, cleanup); only a removal that failed half way does that.
PublishedOnDisk ==
    \A a \in Assets : \A r \in {current[a], previous[a]} \ {None} :
        disk[r] = "full" \/ r \in damaged

\* Nothing is forgotten: with no operation active, a record that publish did
\* not retain is pinned by somebody or carries the error of a failed cleanup
\* (pin.release, finish, retryCleanup).
NothingForgotten ==
    Idle => \A r \in known : r \in keep \/ Pinned(r, pins) \/ r \in err

\* Concurrent installs cannot overcommit the managed byte budget, whatever was
\* left on disk by failures and restarts (begin, checkDisk, publish).
WithinBudget == Cardinality(Full) <= Budget

\* A snapshot is never assembled from a generation that was replaced or removed
\* while it was copied: when the copy completes, every source it pinned is
\* still the active generation (pinCurrent, begin, remove).
NoTornSnapshot ==
    \A r \in Roots : phase[r] = "copied" =>
        \A a \in Assets : \A s \in PinnedSource(r, a) : s = current[a]

\* Activation replaces exactly what it demotes: the generation that was current
\* becomes previous, so no published generation is lost between two concurrent
\* installs (install: _metadata, commit).
NoGenerationLost ==
    [][\A a \in Assets : current'[a] \notin {current[a], None}
            => previous'[a] = current[a]]_vars

\* After cancel() an install never activates its generation, even when the
\* cancel arrives after the last byte was verified (cancel, commit).
CancelledNeverActivates ==
    [][\A r \in aborted : \A a \in Assets :
            current'[a] = r => current[a] = r]_vars

\* A directory of an earlier process is only ever deleted by the removal of its
\* model: observing or pinning it grants no deletion right (prepare, cleanup).
InheritedRootsSurvive ==
    [][\A r \in Roots :
            phase[r] = "lost" /\ disk[r] # "absent" /\ disk'[r] = "absent"
                => meta[r] \in Models /\ RemoveAllowed(meta[r])]_vars

\* The promise of the store, with everything but the files forgotten.
Store == INSTANCE GenerationStore WITH stored <- Full

StoreSpec == Store!Spec
===========================================================================
