\* Each request twice: names around the limit, ports written in several ways, CPU
\* around a thousandth.
SPECIFICATION Spec
CONSTANTS
    None = none
    Dash = "-"
    Slash = "/"
    Marks = {":", "@"}
    SuffixLen = 2
    MaxLen = 8
    MaxInt = 1073741823
    Unset = {"", "0"}
    Kept <- Alnum
    Lower <- LowerCase
    Dink <- ShortDink
    RandomSuffixes <- TwoSuffixes
    Texts <- AllTexts
    Numeric <- Numbers
    Given <- KernelPorts
    Rank <- TextRank
    Requests <- AllRequests
INVARIANTS
    TypeOK
    SameOutcome
    PublishedAsBound
    InspectAgrees
    ValidNames
    NamedAfterImage
    CPUAsAsked
\* A request is served once it was sent twice.
CHECK_DEADLOCK FALSE
