-------------------------------- MODULE Json --------------------------------
(***************************************************************************)
(* Abstract boost::json values, as the RPC layer of clio reads them, and   *)
(* the library conversions the handlers call on them (as_int64, value_to,  *)
(* as_object, ...), including the ones that throw.  Strings are not built  *)
(* character by character: a string is a name, and the sets Accounts,      *)
(* Hashes and Currencies say which names parse as a base58 account, a      *)
(* 256-bit hex string or a currency code.  Integer widths are scaled down  *)
(* (U32Max stands for 2^32-1, I64Max for 2^63-1) so that the boundaries    *)
(* the code crosses stay in the model while TLC's integers suffice.        *)
(*                                                                         *)
(* This module is library semantics (boost::json, rippled parsing), not    *)
(* code of the repository; the modules that extend it model the code.     *)
(***************************************************************************)
EXTENDS Integers, Sequences

CONSTANTS
    Accounts,     \* strings that ripple::parseBase58<AccountID> accepts
    Hashes,       \* strings that uint256::parseHex accepts
    Currencies,   \* strings that ripple::to_currency accepts
    U32Max,       \* the scaled std::numeric_limits<uint32_t>::max()
    I64Max        \* the scaled std::numeric_limits<int64_t>::max()

ASSUME /\ U32Max \in Nat /\ I64Max \in Nat /\ U32Max < I64Max
       /\ Accounts \cap Hashes = {} /\ Accounts \cap Currencies = {}

U64Max == 2 * I64Max + 1

(* Value constructors.  The parser stores an integer as int64 when it      *)
(* fits and as uint64 only above int64's maximum.                          *)
Str(s)   == [t |-> "string", s |-> s]
Num(n)   == IF n > I64Max THEN [t |-> "uint64", n |-> n] ELSE [t |-> "int64", n |-> n]
Bool(b)  == [t |-> "bool", b |-> b]
Dbl      == [t |-> "double"]
Obj(f)   == [t |-> "object", o |-> f]
Arr(sq)  == [t |-> "array", a |-> sq]

IsObject(v)  == v.t = "object"
IsString(v)  == v.t = "string"
IsInteger(v) == v.t \in {"int64", "uint64"}

(* value.as_object().contains(key) guarded by is_object()                 *)
HasKey(v, k) == IsObject(v) /\ k \in DOMAIN v.o
At(v, k)     == v.o[k]

(* Results of a computation that may throw.                               *)
Throw    == [k |-> "throw"]
Val(x)   == [k |-> "val", v |-> x]
Threw(r) == r.k = "throw"

(* as_int64(): throws unless the value is stored as int64.                *)
AsInt64(v) == IF v.t = "int64" THEN Val(v.n) ELSE Throw

(* value_to<T>(v) for an unsigned T with maximum mx: to_number<T> throws  *)
(* when the value is not an integer or not exactly representable.         *)
ValueToUnsigned(v, mx) ==
    IF IsInteger(v) /\ 0 <= v.n /\ v.n <= mx THEN Val(v.n) ELSE Throw

(* value_to<T>(v) for the types the validators decode to.               *)
ValueTo(T, v) ==
    CASE T = "string" -> IF IsString(v) THEN Val(v.s) ELSE Throw
      [] T = "bool"   -> IF v.t = "bool" THEN Val(v.b) ELSE Throw
      [] T = "u32"    -> ValueToUnsigned(v, U32Max)
      [] T = "u64"    -> ValueToUnsigned(v, U64Max)

(* The implicit conversion of an int64 to std::uint32_t: modulo 2^32.     *)
ToU32(n) == n % (U32Max + 1)

(* Parsing helpers of rippled; NoAccount stands for an empty optional.    *)
NoAccount == "<none>"
ParseAccount(s)  == IF s \in Accounts THEN s ELSE NoAccount
ParseHex(s)      == s \in Hashes
ParseCurrency(s) == s \in Currencies

(* RPC::Status and the MaybeError a validator returns.                    *)
Status(code, msg) == [code |-> code, msg |-> msg]
Ok          == [k |-> "ok"]
Err(st)     == [k |-> "err", st |-> st]
IsErr(r)    == r.k = "err"
=============================================================================
