SPECIFICATION LegacySpec
CONSTANTS
    None = None
    Genesis = "g"
    Block <- MCBlock
    Parent <- MCParent
    Height <- MCHeight
    Weight <- MCWeight
    Txs <- MCTxs
    Tx <- MCTx
    TxIn <- MCTxIn
    TxOut <- MCTxOut
    Sound <- MCSound
    Coinbase <- MCCoinbase
    OutAddr <- MCOutAddr
    Data <- MCData
    UtxoAt <- MCUtxoAt
    LegacyCanon <- MCLegacyCanon
    Maturity = 1
    Depths <- MCFullDepth
    Crashes <- MCAnyPhase
INVARIANTS
    UtxoIsReplay
PROPERTIES
    FallbackIsOneTime
