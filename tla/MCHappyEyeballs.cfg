SPECIFICATION FairSpec
CONSTANTS
    None = None
INVARIANTS
    TypeOK
    ProbePairs
PROPERTIES
    LearnsFromEvidence
    WorkingFamilyTaken
