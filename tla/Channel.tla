------------------------------ MODULE Channel ------------------------------
(***************************************************************************)
(* The payment channel handlers of the legacy RPC layer:                   *)
(* doChannelAuthorize (rpc/handlers/ChannelAuthorize.cpp) signs a claim    *)
(* for an amount of a channel, doChannelVerify (ChannelVerify.cpp) checks  *)
(* such a signature.  A client calls them in any order, passing back the  *)
(* signatures it was given.                                               *)
(*                                                                         *)
(* Cryptography is abstract: a key pair is a name, a signature is the     *)
(* record of the key and the message it signs, and verify accepts exactly *)
(* the signatures of that key over that message.  The parsing helpers    *)
(* the handlers share with rippled and clio's RPCHelpers (not in src/)    *)
(* are constants: which secrets derive a key, which strings are public   *)
(* keys, which amounts ripple::to_uint64 parses.                          *)
(***************************************************************************)
EXTENDS Json

CONSTANTS
    KeyOfSecret,   \* keypairFromRequst: the key pair a secret derives
    KeyOfPublic,   \* parseBase58<PublicKey> or strUnHex + publicKeyType: the key of a public key string
    HexOnly,       \* public key strings that strUnHex accepts but publicKeyType rejects
    DropsOf,       \* ripple::to_uint64 of the amount strings that parse
    AuthReqs,      \* the channel_authorize requests the client sends
    VerifyReqs     \* channel_verify requests, without their signature member

VARIABLES
    issued,    \* the signature strings channel_authorize returned, each with its request
    last       \* the latest call and its result

vars == <<issued, last>>

(* A signature string is the signature it encodes (strHex of ripple::sign) *)
(* or one of two strings strUnHex turns into no signature.                 *)
NotHex   == [key |-> "notHex", msg |-> <<>>]   \* strUnHex fails
EmptySig == [key |-> "empty", msg |-> <<>>]    \* strUnHex gives zero bytes

(* serializePayChanAuthorization: the claim prefix, the channel id and    *)
(* XRPAmount(drops).drops() as 64 bits: the int64 conversion wraps, add64 *)
(* writes the same 64 bits back.                                           *)
(* Fault variant: XRPAmount saturates at the largest int64 instead of    *)
(* keeping the 64 bits.                                                    *)
XRPDropsSaturating(d) == IF d > I64Max THEN I64Max ELSE d
XRPDrops(d) == IF d > I64Max THEN d - (U64Max + 1) ELSE d
ClaimMsg(ch, drops) == <<"CLM", ch, XRPDrops(drops) % (U64Max + 1)>>

(* clio's getChannelId (RPCHelpers): channel_id must be a hex string.    *)
GetChannelId(req) ==
    IF ~HasKey(req, "channel_id") THEN Err(Status("rpcINVALID_PARAMS", "missingChannelID"))
    ELSE IF ~IsString(At(req, "channel_id")) THEN Err(Status("rpcINVALID_PARAMS", "channelIDNotString"))
    ELSE IF ~ParseHex(At(req, "channel_id").s) THEN Err(Status("rpcCHANNEL_MALFORMED", "malformedChannelID"))
    ELSE Val(At(req, "channel_id").s)

(* keypairFromRequst (RPCHelpers): the key pair of the secret.           *)
KeypairFromRequest(req) ==
    IF HasKey(req, "secret") /\ IsString(At(req, "secret"))
       /\ At(req, "secret").s \in DOMAIN KeyOfSecret
    THEN Val(KeyOfSecret[At(req, "secret").s])
    ELSE Err(Status("rpcBAD_SEED", ""))

(* ripple::to_uint64 of the amount string.                               *)
ToUint64(s) == IF s \in DOMAIN DropsOf THEN Val(DropsOf[s]) ELSE Err(Status("rpcCHANNEL_AMT_MALFORMED", "couldNotParseAmount"))

(* The checks both handlers start with: amount present and a string.     *)
AmountChecks(req) ==
    IF ~HasKey(req, "amount") THEN Err(Status("rpcINVALID_PARAMS", "missingAmount"))
    ELSE IF ~IsString(At(req, "amount")) THEN Err(Status("rpcINVALID_PARAMS", "amountNotString"))
    ELSE Ok

(* doChannelAuthorize: Val(signature string) or a Status.                 *)
ChannelAuthorize(req) ==
    LET kp    == KeypairFromRequest(req)
        ch    == GetChannelId(req)
        drops == ToUint64(At(req, "amount").s)
    IN  IF IsErr(AmountChecks(req)) THEN AmountChecks(req)
        ELSE IF ~HasKey(req, "key_type") /\ ~HasKey(req, "secret")
             THEN Err(Status("rpcINVALID_PARAMS", "missingKeyTypeOrSecret"))
        ELSE IF IsErr(kp) THEN kp
        ELSE IF IsErr(ch) THEN ch
        ELSE IF IsErr(drops) THEN drops
        ELSE Val([key |-> kp.v, msg |-> ClaimMsg(ch.v, drops.v)])

(* A member that must be present and a string.                           *)
StrCheck(req, k, missing, notStr) ==
    IF ~HasKey(req, k) THEN Err(Status("rpcINVALID_PARAMS", missing))
    ELSE IF ~IsString(At(req, k)) THEN Err(Status("rpcINVALID_PARAMS", notStr))
    ELSE Ok

(* The public key: base58, else hex of a key of a known type.            *)
ParsePublicKey(s) ==
    IF s \in DOMAIN KeyOfPublic THEN Val(KeyOfPublic[s])
    ELSE IF s \in HexOnly THEN Err(Status("rpcPUBLIC_MALFORMED", "invalidKeyType"))
    ELSE Err(Status("rpcPUBLIC_MALFORMED", "malformedPublicKey"))

(* doChannelVerify: Val(signature_verified) or a Status.                 *)
ChannelVerify(req) ==
    LET checks == <<AmountChecks(req),
                    StrCheck(req, "signature", "missingSignature", "signatureNotString"),
                    StrCheck(req, "public_key", "missingPublicKey", "publicKeyNotString")>>
        failed == {i \in 1..3 : IsErr(checks[i])}
        pk     == ParsePublicKey(At(req, "public_key").s)
        ch     == GetChannelId(req)
        drops  == ToUint64(At(req, "amount").s)
        sig    == At(req, "signature").s
    IN  IF failed # {} THEN checks[CHOOSE i \in failed : \A j \in failed : i <= j]
        ELSE IF IsErr(pk) THEN pk
        ELSE IF IsErr(ch) THEN ch
        ELSE IF IsErr(drops) THEN drops
        ELSE IF sig \in {NotHex, EmptySig} THEN Err(Status("rpcINVALID_PARAMS", "invalidSignature"))
        ELSE Val(sig.key = pk.v /\ sig.msg = ClaimMsg(ch.v, drops.v))

Init == issued = {} /\ last = [call |-> "none"]

(* The client asks for a signature.                                       *)
Authorize ==
    \E req \in AuthReqs :
        LET res == ChannelAuthorize(req) IN
        /\ last' = [call |-> "authorize", req |-> req, res |-> res]
        /\ issued' = IF res.k = "val" THEN issued \cup {[sig |-> res.v, req |-> req]} ELSE issued

(* The client asks whether a signature it holds, or a malformed one, is  *)
(* valid for a channel and an amount.                                     *)
Verify ==
    \E base \in VerifyReqs, sig \in {g.sig : g \in issued} \cup {NotHex, EmptySig} :
        LET req == Obj([k \in DOMAIN base.o \cup {"signature"} |->
                            IF k = "signature" THEN Str(sig) ELSE base.o[k]])
        IN  /\ last' = [call |-> "verify", req |-> req, res |-> ChannelVerify(req)]
            /\ UNCHANGED issued

Next == Authorize \/ Verify

Spec == Init /\ [][Next]_vars
-----------------------------------------------------------------------------
(* The claim an authorize request and a verify request are about: the    *)
(* key, the channel and the drops to_uint64 reads.                       *)
AuthClaim(a)   == <<KeyOfSecret[a.o.secret.s], a.o.channel_id.s, DropsOf[a.o.amount.s]>>
VerifyClaim(v) == <<KeyOfPublic[v.o.public_key.s], v.o.channel_id.s, DropsOf[v.o.amount.s]>>

(* Round trip of the two handlers: channel_verify reports a signature    *)
(* verified exactly when channel_authorize issued it for the same key,    *)
(* channel and amount.  It needs both handlers to serialize the claim the *)
(* same way, and XRPAmount(drops) to keep every uint64 amount distinct,   *)
(* those above 2^63-1 included.                                            *)
ClaimRoundTrip ==
    last.call = "verify" /\ last.res.k = "val" =>
        (last.res.v <=> \E g \in issued : g.sig = last.req.o.signature.s
                                         /\ AuthClaim(g.req) = VerifyClaim(last.req))
=============================================================================
