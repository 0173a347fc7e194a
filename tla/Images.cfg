\* Twelve spellings of five images, pulled as clients send them.
SPECIFICATION Spec
CONSTANTS
    None = none
    Latest = "latest"
    MinDigits = 2
    Paths <- SomePaths
    Tags <- SomeTags
    Digests <- SomeDigests
    Registries <- OtherRegistries
    Ported <- PortedRegistries
    Sent <- SomePulls
    Digits <- SomeDigits
    Id <- SomeIds
INVARIANTS
    TypeOK
    FoundAsPulled
    RemovesWhatItShows
