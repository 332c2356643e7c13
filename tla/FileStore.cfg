SPECIFICATION Spec
CONSTANTS
    MaxSaves = 4
    Torn = Torn
INVARIANTS
    NeverTorn
    AckedSurvives
PROPERTIES
    NoLitter
    ImplementsStore
