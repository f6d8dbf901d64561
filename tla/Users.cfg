CONSTANTS
    User <- MCUser
    Graph <- MCGraph
    PreReleases <- MCPreReleases
SPECIFICATION Spec
INVARIANTS
    UsersTypeOK
    AllUsersStatusRight
    AcquireFenceCoversPriorUse
    ErrorAsMarked
    ContentIsProduced
PROPERTIES
    JudgementStands
