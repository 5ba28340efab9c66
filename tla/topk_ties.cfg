\* The same inputs: is the tie-break the stable one spec 4.4 states?
CONSTANTS
    ScoreValues = {0, 1, 2}
    MaxCandidates = 4
    Ks = {0, 1, 2, 3, 5}
    NoMeta = NoMeta
SPECIFICATION Spec
INVARIANT TieBreakStable
