SPECIFICATION FairSpec
CONSTANTS
    None = None
    Genesis = "g"
    Block <- MCBlock
    Parent <- MCParent
    Height <- MCHeight
    Weight <- MCWeight
    Txs <- MCTxs
    Tx <- MCTx
    TxIn <- MCTxIn
    TxOut <- MCTxOut
    Sound <- MCSound
    Coinbase <- MCCoinbase
    OutAddr <- MCOutAddr
    Data <- MCData
    UtxoAt <- MCUtxoAt
    LegacyCanon <- MCLegacyCanon
    Maturity = 1
    Depths <- MCAllDepths
    Crashes <- MCNotReconciling
INVARIANTS
    UtxoIsReplay
    CanonIsAncestry
    UndoExact
    IndexesExact
PROPERTIES
    FollowsHeaviest
    RefusesOnlyInvalid
    LockReleased
