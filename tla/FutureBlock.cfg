SPECIFICATION Spec
CONSTANTS
    Genesis = "g"
    Block <- MCBlock
    Parent <- MCParent
    Height <- MCHeight
    Weight <- MCWeight
    Kind <- MCKind
    Stamp <- MCStampAhead
    Checkpoints <- MCCheckpoints
    Peer = {"honest", "other"}
    Honest = {"honest"}
    HeaderReplies <- MCNoReplies
    MaxOrphans = 2
    MaxClock = 1
    Failures = {}
INVARIANT
    InvalidFailsAgain
