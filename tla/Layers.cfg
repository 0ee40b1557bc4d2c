SPECIFICATION FairSpec
CONSTANTS
    Masked <- MCMasked
    MaxLinks = 2
    Images <- MCImages
    Arch = "amd64"
INVARIANTS
    TypeOK
    TreeIsImage
    DamagedIsRefused
    IntactIsExtracted
    TokensRenewed
PROPERTIES
    PullEnds
CHECK_DEADLOCK FALSE
