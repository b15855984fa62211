\* std::terminate (composeKeyFromDirectory) ends the server: it may stop.
CONSTANTS
    Accounts = {"rA", "rB"}
    Hashes = {"H1", "H2"}
    Currencies = {"USD"}
    U32Max = 15
    I64Max = 63
    IndexFieldOrder <- MCIndexFieldOrder
    Requests = {r1}
    Docs <- MCWideDocs
    MaxLedgers = 1
    LedgerHashes <- MCLedgerHashes
    ObjectKeys = {}
    IndexTypes = {}
    B58PublicKeys <- MCB58PublicKeys
    HexPublicKeys <- MCHexPublicKeys
    GatewayBalancesDocs <- MCGatewayBalancesDocs

SPECIFICATION Spec
CHECK_DEADLOCK FALSE

INVARIANT
    NoTerminate
