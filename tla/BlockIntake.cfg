SPECIFICATION Spec
CONSTANTS
    Genesis = "g"
    Block <- MCBlock
    Parent <- MCParent
    Height <- MCHeight
    Weight <- MCWeight
    Kind <- MCKind
    Stamp <- MCStampAhead
    Checkpoints <- MCCheckpoints
    Peer = {"honest", "other"}
    Honest = {"honest"}
    HeaderReplies <- MCReplies
    MaxOrphans = 2
    MaxClock = 1
    Failures = {"commit", "kill"}
INVARIANTS
    OrphanPoolSound
    NoOrphanLeftBehind
    HeaviestAdopted
    HonestPenalizedOnlyForSkew
PROPERTIES
    CheckpointFinal
