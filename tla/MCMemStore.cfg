\* Every suite of the repository contract, two or three rows in each table.
SPECIFICATION Spec
CONSTANTS
    Suites <- MCSuites
    Subs <- MCThree
    UserSubs <- MCTwo
    PostIds <- MCThree
    ImageIds <- MCTwo
    Names <- MCTwo
    TagIds <- MCTagIds
    BadgeIds <- MCTwo
    Keys <- MCTwo
    Priorities <- MCTwo
    Hashes <- MCTwo
    Previews <- MCTwo
    JobIds <- MCTwo
    ImageChoices <- MCImageChoices
    TagChoices <- MCTagChoices
    MaxNames = 2
    MaxTime = 2
    MaxCount = 1
    MaxAttempts = 2
    Limits <- MCLimits
INVARIANTS ReadsAgree IndexesConsistent
PROPERTIES ContractSpec
CHECK_DEADLOCK FALSE
