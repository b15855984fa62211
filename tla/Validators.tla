----------------------------- MODULE Validators -----------------------------
(***************************************************************************)
(* The declarative validators of rpc/common/Validators.h and the schema   *)
(* engine (FieldSpec::validate, RpcSpec::validate) that runs them.         *)
(*                                                                         *)
(* A validator is data: a record whose field v names the combinator and   *)
(* whose other fields are its constructor arguments.  A schema (RpcSpec,  *)
(* or the specs of a Section) is a sequence of FieldSpecs                  *)
(* [key |-> k, validators |-> <<...>>].  Every verify returns Ok, Err(st)  *)
(* or Throw (value_to inside a validator may throw).                       *)
(*                                                                         *)
(* CustomCheck(fn, field, key) is the callable a CustomValidator named fn *)
(* wraps; each handler module supplies its own.                            *)
(***************************************************************************)
EXTENDS Json

CONSTANT CustomCheck(_, _, _)

(* checkType<Expected>: the if-constexpr chain has branches for bool,     *)
(* string, floating point, integral and array types only.  For any other  *)
(* Expected (boost::json::object among them) no branch is taken,          *)
(* hasError stays false and the check passes whatever the value is.       *)
CheckType(T, v) ==
    CASE T = "bool"                        -> v.t = "bool"
      [] T = "string"                      -> v.t = "string"
      [] T = "double"                      -> v.t = "double"
      [] T \in {"u32", "u64", "i32", "i64"} -> IsInteger(v)
      [] T = "array"                       -> v.t = "array"
      [] OTHER                             -> TRUE

(* Every validator but Required ignores a missing field (or a parent that *)
(* is not an object) and lets Required report it.                         *)
Absent(parent, key) == ~HasKey(parent, key)

(* Required::verify                                                        *)
VerifyRequired(parent, key) ==
    IF Absent(parent, key) THEN Err(Status("rpcINVALID_PARAMS", "requiredMissing"))
    ELSE Ok

(* Type<Types...>::verify: the field converts to any of the types.        *)
VerifyType(vd, parent, key) ==
    IF Absent(parent, key) \/ \E T \in vd.types : CheckType(T, At(parent, key))
    THEN Ok
    ELSE Err(Status("rpcINVALID_PARAMS", ""))

(* Between<Type>::verify: value_to<Type> then the closed interval check.  *)
VerifyBetween(vd, parent, key) ==
    IF Absent(parent, key) THEN Ok
    ELSE LET res == ValueTo(vd.as, At(parent, key))
         IN  IF Threw(res) THEN Throw
             ELSE IF res.v < vd.min \/ res.v > vd.max
                  THEN Err(Status("rpcINVALID_PARAMS", ""))
                  ELSE Ok

(* EqualTo<Type>::verify                                                   *)
VerifyEqualTo(vd, parent, key) ==
    IF Absent(parent, key) THEN Ok
    ELSE LET res == ValueTo(vd.as, At(parent, key))
         IN  IF Threw(res) THEN Throw
             ELSE IF res.v # vd.original THEN Err(Status("rpcINVALID_PARAMS", ""))
                  ELSE Ok

(* OneOf<Type>::verify: std::find of the decoded value in the options.    *)
VerifyOneOf(vd, parent, key) ==
    IF Absent(parent, key) THEN Ok
    ELSE LET res == ValueTo(vd.as, At(parent, key))
         IN  IF Threw(res) THEN Throw
             ELSE IF res.v \notin vd.options THEN Err(Status("rpcINVALID_PARAMS", ""))
                  ELSE Ok

(* The CustomValidators every handler shares (Uint256HexStringValidator, *)
(* AccountBase58Validator, LedgerIndexValidator, CurrencyValidator).      *)
CommonCustom(fn, f) ==
    CASE fn = "Uint256HexString" ->
            IF ~IsString(f) THEN Err(Status("rpcINVALID_PARAMS", "NotString"))
            ELSE IF ~ParseHex(f.s) THEN Err(Status("rpcINVALID_PARAMS", "Malformed"))
            ELSE Ok
      [] fn = "AccountBase58" ->
            IF ~IsString(f) THEN Err(Status("rpcINVALID_PARAMS", "NotString"))
            ELSE IF ParseAccount(f.s) = NoAccount THEN Err(Status("rpcMALFORMED_ADDRESS", ""))
            ELSE Ok
      [] fn = "LedgerIndex" ->
            IF IsInteger(f) \/ (IsString(f) /\ f.s = "validated") THEN Ok
            ELSE Err(Status("rpcINVALID_PARAMS", "ledgerIndexMalformed"))
      [] fn = "Currency" ->
            IF ~IsString(f) THEN Err(Status("rpcINVALID_PARAMS", "currencyNotString"))
            ELSE IF ~ParseCurrency(f.s) THEN Err(Status("rpcMALFORMED_CURRENCY", "malformedCurrency"))
            ELSE Ok

CommonCustomFns == {"Uint256HexString", "AccountBase58", "LedgerIndex", "Currency"}

(* CustomValidator::verify: the callable gets the field itself.           *)
VerifyCustom(vd, parent, key) ==
    IF Absent(parent, key) THEN Ok
    ELSE IF vd.fn \in CommonCustomFns THEN CommonCustom(vd.fn, At(parent, key))
    ELSE CustomCheck(vd.fn, At(parent, key), key)

RECURSIVE Verify(_, _, _), VerifyAll(_, _, _), ValidateSpec(_, _),
          VerifySection(_, _, _), VerifyArrayAt(_, _, _), VerifyIfType(_, _, _)

(* Section::verify: a field that is not an object is left to the other   *)
(* validators; an object is validated against the nested specs.           *)
VerifySection(vd, parent, key) ==
    IF Absent(parent, key) \/ ~IsObject(At(parent, key)) THEN Ok
    ELSE ValidateSpec(vd.specs, At(parent, key))

(* ValidateArrayAt::verify                                                *)
VerifyArrayAt(vd, parent, key) ==
    IF Absent(parent, key) THEN Ok
    ELSE IF At(parent, key).t # "array" THEN Err(Status("rpcINVALID_PARAMS", ""))
    ELSE IF vd.idx >= Len(At(parent, key).a) THEN Err(Status("rpcINVALID_PARAMS", ""))
    ELSE ValidateSpec(vd.specs, At(parent, key).a[vd.idx + 1])

(* IfType<Type>::verify: the inner validators run, first failure wins,    *)
(* only when checkType<Type> accepts the field.                          *)
VerifyIfType(vd, parent, key) ==
    IF Absent(parent, key) \/ ~CheckType(vd.type, At(parent, key)) THEN Ok
    ELSE VerifyAll(vd.inner, parent, key)

Verify(vd, parent, key) ==
    CASE vd.v = "Required" -> VerifyRequired(parent, key)
      [] vd.v = "Type"     -> VerifyType(vd, parent, key)
      [] vd.v = "Between"  -> VerifyBetween(vd, parent, key)
      [] vd.v = "EqualTo"  -> VerifyEqualTo(vd, parent, key)
      [] vd.v = "OneOf"    -> VerifyOneOf(vd, parent, key)
      [] vd.v = "Custom"   -> VerifyCustom(vd, parent, key)
      [] vd.v = "Section"  -> VerifySection(vd, parent, key)
      [] vd.v = "ArrayAt"  -> VerifyArrayAt(vd, parent, key)
      [] vd.v = "IfType"   -> VerifyIfType(vd, parent, key)

(* FieldSpec::validate: the validators of one key, in order, stopping at *)
(* the first that does not return Ok (an exception propagates).           *)
VerifyAll(vds, parent, key) ==
    IF vds = <<>> THEN Ok
    ELSE LET r == Verify(Head(vds), parent, key)
         IN  IF r.k = "ok" THEN VerifyAll(Tail(vds), parent, key) ELSE r

(* RpcSpec::validate: every FieldSpec in declaration order, fail-fast.   *)
ValidateSpec(specs, v) ==
    IF specs = <<>> THEN Ok
    ELSE LET r == VerifyAll(Head(specs).validators, v, Head(specs).key)
         IN  IF r.k = "ok" THEN ValidateSpec(Tail(specs), v) ELSE r

(* Constructors, so that schemas read like the C++ initializer lists.    *)
Required               == [v |-> "Required"]
Type(types)            == [v |-> "Type", types |-> types]
Custom(fn)             == [v |-> "Custom", fn |-> fn]
Section(specs)         == [v |-> "Section", specs |-> specs]
ArrayAt(idx, specs)    == [v |-> "ArrayAt", idx |-> idx, specs |-> specs]
IfType(T, inner)       == [v |-> "IfType", type |-> T, inner |-> inner]
Field(key, validators) == [key |-> key, validators |-> validators]
=============================================================================
