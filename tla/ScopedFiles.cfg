SPECIFICATION Spec
CONSTANTS
    Shown <- MCShown
    Thread = {t1, t2}
    Request <- MCRequest
    Renamed = {"a", "b", "c"}
    MaxUpsets = 1
    MaxBreaks = 1
SYMMETRY Symmetry
INVARIANTS
    StaysInHome
    UploadExact
    ListedOnce
    CreatedHandedOver
CHECK_DEADLOCK FALSE
