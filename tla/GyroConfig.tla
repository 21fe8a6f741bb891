----------------------------- MODULE GyroConfig -----------------------------
(***************************************************************************)
(* GyroConfig.sol: the registry of addresses and numbers that the          *)
(* contracts of the protocol look up by key.  A configuration is a         *)
(* function from the keys that are set to an entry: the type the key was   *)
(* set with, the stored word and whether the key is frozen.  The contract  *)
(* stores one word for both types, so a word is not typed here either.     *)
(*                                                                         *)
(* A call that reverts is an operator that is not enabled (Settable,       *)
(* Removable, Readable).                                                   *)
(***************************************************************************)
EXTENDS Naturals, TLC

Types == {"address", "uint"}

\* The configuration of a contract that was just deployed.
EmptyConfig == [k \in {} |-> {}]

\* A mapping in which one entry was written.
Put(mapping, x, entry) ==
    [y \in DOMAIN mapping \union {x} |-> IF y = x THEN entry ELSE mapping[y]]

HasKey(config, key) == key \in DOMAIN config

\* getUint and getAddress without a default: the key must be there, with the
\* type of the getter, or the call reverts with KEY_NOT_FOUND ("32").
Readable(config, key, type) == HasKey(config, key) /\ config[key].type = type

\* _get with a default: the default answers for a key that is not there.  (A key
\* of another type makes it revert too; no caller here meets one.)
GetOr(config, key, default) ==
    IF HasKey(config, key) THEN config[key].value ELSE default

\* mutant: a frozen key can be set
SettableFrozen(config, key, type) == HasKey(config, key) => config[key].type = type

\* _set: a key keeps its type for as long as it is set, and its value for
\* ever once it is frozen.
Settable(config, key, type) ==
    HasKey(config, key) => config[key].type = type /\ ~config[key].frozen

Set(config, key, type, word) ==
    Put(config, key, [type |-> type, value |-> word, frozen |-> FALSE])

\* unset and freeze both need a key that is there and not frozen.
Removable(config, key) == HasKey(config, key) /\ ~config[key].frozen

Unset(config, key) == [k \in DOMAIN config \ {key} |-> config[k]]

Freeze(config, key) == [config EXCEPT ![key].frozen = TRUE]
=============================================================================
