\* Every sequence of up to four candidates with scores 0..2 (ties at every
\* position of the heap), every k from 0 to past the candidate count.
CONSTANTS
    ScoreValues = {0, 1, 2}
    MaxCandidates = 4
    Ks = {0, 1, 2, 3, 5}
    NoMeta = NoMeta
SPECIFICATION Spec
INVARIANT TypeOK
INVARIANT RefinesHeapTopK
