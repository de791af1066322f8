SPECIFICATION FairSpec
CONSTANTS
    Keys = {"btc"}
    Capacity = 2
    MaxSequence = 3
    MaxGenerations = 2
INVARIANTS
    BookIsSound
PROPERTIES
    NothingTorn
    FeedCatchesUp
