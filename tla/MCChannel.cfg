\* The client sends any request at any time; the signatures it holds are
\* finite, so the behaviours end in stuttering.
CONSTANTS
    Accounts = {"rA"}
    Hashes = {"H1", "H2"}
    Currencies = {"USD"}
    U32Max = 15
    I64Max = 63
    KeyOfSecret <- MCKeyOfSecret
    KeyOfPublic <- MCKeyOfPublic
    HexOnly = {"hexOnly"}
    DropsOf <- MCDropsOf
    AuthReqs <- MCAuthReqs
    VerifyReqs <- MCVerifyReqs

SPECIFICATION Spec
CHECK_DEADLOCK FALSE

INVARIANTS
    ClaimRoundTrip
