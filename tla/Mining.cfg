SPECIFICATION Spec
CONSTANTS
    None = None
    Genesis <- MCGenesis
    Block <- MCBlock
    Parent <- MCParent
    Height <- MCHeight
    Weight <- MCWeight
    Txs <- MCTxs
    Tx <- MCTx
    TxIn <- MCTxIn
    TxOut <- MCTxOut
    Sound <- MCSound
    Coinbase <- MCCoinbase
    UtxoAt <- MCUtxoAt
    Maturity = 1
    Fee <- MCFee
    MaxSize = 3
    MinFee = 1
    MaxReplacements = 2
    Own <- MCOwn
    Mined <- MCMined
    Size <- MCSize
    BaseSize <- MCBaseSize
    MaxBytes = 15
    MaxTransactions = 3
    MaxAttempts = 2
    MaxCalls = 1
    MaxCrashes = 1
INVARIANTS
    TemplateFits
    TemplateValid
PROPERTIES
    ExtensionKeepsPoolValid
    AbandonedReturn
    StaleSearchEnds
    StopEndsMining
