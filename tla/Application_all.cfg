SPECIFICATION Spec
CONSTANTS
    Applications <- MCApplications
    Profiles <- MCProfiles
    Callers = {c1, c2}
    MaxTrouble = 2
INVARIANTS OrderExact NothingLeaks
CHECK_DEADLOCK FALSE
