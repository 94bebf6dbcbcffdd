CONSTANTS
    story = story
    note = note
    NoFile = NoFile
    N = 3
    Files = {story, note}
    ChunksOf <- Sizes
    ReplicationFactor = 2
    MaxSearches = 2
    MaxSwitches = 2
    MaxLate = 1

SPECIFICATION Spec

INVARIANTS
    MetadataIsTrue
    LoadIsBalanced
    RetrieveFailsForCause
    CalmSearchIsComplete
