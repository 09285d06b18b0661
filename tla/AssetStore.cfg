\* Two models and the runtime over three roots: installs, snapshots, probes, removals
\* and restarts, on a disk that holds two.
SPECIFICATION Spec
CONSTANTS
    m1 = m1
    m2 = m2
    rt = rt
    r1 = r1
    r2 = r2
    r3 = r3
    Models <- MCModels
    Runtimes = {rt}
    Sources = {m1}
    Roots <- MCRoots3
    Probe = Probe
    None = None
    MaxRoots = 3
    MaxPins = 3
    Budget = 2
SYMMETRY Symmetry3
INVARIANTS
    ExclusiveXorShared
    InUseOnDisk
    WithinBudget
    NothingForgotten
    NoTornSnapshot
PROPERTIES
    CancelledNeverActivates
    InheritedRootsSurvive
    StoreSpec
CHECK_DEADLOCK FALSE
