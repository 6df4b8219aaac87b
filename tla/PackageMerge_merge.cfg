SPECIFICATION Spec
CONSTANTS
    d1 = d1
    d2 = d2
    empty = empty
    x = x
    Device = {d1, d2}
    Text = {empty, x}
    Empty = empty
    NoDevice = NoDevice
    DecisionLimit = 4
    RevLimit = 3
    PackageLimit = 3
    SessionLimit = 1
SYMMETRY Alike
CONSTRAINT NotStrayed
ACTION_CONSTRAINTS OnePreview Undisturbed LateLapse NoRechoice ScansRead
INVARIANTS
    NobodyKnowsMore
    CountedIsKnown
PROPERTIES
    NoSilentLoss
    UndoLosesNoEdit
