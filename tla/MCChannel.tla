----------------------------- MODULE MCChannel -----------------------------
(* A client of channel_authorize and channel_verify: one secret with a    *)
(* key, a second key it does not hold, two channels, and amounts on both  *)
(* sides of 2^63-1.                                                        *)
EXTENDS Channel

MCKeyOfSecret == [s \in {"s"} |-> "K1"]
MCKeyOfPublic == [p \in {"pk1", "pk2"} |-> IF p = "pk1" THEN "K1" ELSE "K2"]
(* "100" and "200" in scaled drops, the largest int64 and the largest    *)
(* uint64; "1e2" does not parse.                                           *)
MCDropsOf ==
    [a \in {"100", "200", "big", "max"} |->
        CASE a = "100" -> 10 [] a = "200" -> 20 [] a = "big" -> I64Max [] OTHER -> U64Max]

(* Incomplete requests, then complete ones with good and bad parts.      *)
MCAuthReqs ==
    {Obj(<<>>),
     Obj([amount |-> Str("100")]),
     Obj([amount |-> Str("100"), secret |-> Str("s")])}
    \cup {Obj([amount |-> Str(a), secret |-> Str(sec), channel_id |-> Str(c)]) :
            a \in {"100", "big", "max", "1e2"}, sec \in {"s", "bad"}, c \in {"H1", "zz"}}

MCVerifyReqs ==
    {Obj([amount |-> Str(a), public_key |-> Str(p), channel_id |-> Str("H1")]) :
        a \in {"100", "200", "big", "max"}, p \in {"pk1", "pk2", "hexOnly", "junk"}}
    \cup {Obj([amount |-> Str("100"), public_key |-> Str("pk1"), channel_id |-> Str("H2")])}
=============================================================================
