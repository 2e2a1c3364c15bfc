SPECIFICATION FairSpec
CONSTANTS
    Configs <- SmallConfigs
PROPERTIES
    FamilyKeptForShortSilence
    SparseInitsSuffice
    StagesTried
