CONSTANTS
    Accounts = {"rA", "rB"}
    Hashes = {"H1", "H2"}
    Currencies = {"USD"}
    U32Max = 15
    I64Max = 63
    IndexFieldOrder <- MCIndexFieldOrder
    Requests = {r1}
    Docs <- MCLiveDocs
    MaxLedgers = 2
    LedgerHashes <- MCLedgerHashes
    ObjectKeys <- MCObjectKeys
    IndexTypes <- MCIndexTypes
    GatewayBalancesDocs = {}
    B58PublicKeys <- MCNoPublicKeys
    HexPublicKeys <- MCNoPublicKeys

SPECIFICATION Spec

INVARIANT
    ResponseWithinReadRange
