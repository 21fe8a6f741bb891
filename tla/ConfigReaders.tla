---------------------------- MODULE ConfigReaders ---------------------------
(***************************************************************************)
(* The scripts that read the deployed configuration back: the settings of  *)
(* a pool with the value that is in force (read_gyroconfig_pool_params),   *)
(* every key (lib_deployment_verification), and the keys the protocol      *)
(* knows (check_config_keys).  Each lookup is a call of its own to a node, *)
(* so that governance may change the configuration between two of them.    *)
(*                                                                         *)
(* The system is the deployment, and, once governance has executed what    *)
(* the scripts printed, one reader next to governance.                     *)
(***************************************************************************)
EXTENDS Deployment

CONSTANTS
    Fees,        \* the words governance sets a pool setting to
    MaxChanges   \* bound on the changes of governance

ASSUME ReadersAssumption == MaxChanges \in Nat

VARIABLES
    reader,   \* the script that reads, or "none"
    state,    \* "idle", "reading", "over" or "dead"
    lookups,  \* the calls it still has to make
    rows,     \* what it has found: key -> type, value, frozen
    changes   \* the changes of governance so far

\* History: the values of each setting in force since the reader started, the
\* changes it did not see coming, and the keys unset under it.
VARIABLES inForce, changedSince, unsetSince

reading == <<reader, state, lookups, rows>>
readHistory == <<inForce, changedSince, unsetSince>>
readVars == <<deployVars, reading, changes, readHistory>>

Settings == {"PROTOCOL_SWAP_FEE_PERC", "PROTOCOL_FEE_GYRO_PORTION"}
Treasuries == {"BAL_TREASURY", "GYRO_TREASURY"}

(***************************************************************************)
(* mk_pool_setting: the key of a setting for one pool, for the pools of    *)
(* one type, or for all; a pool makes the type count for nothing.          *)
(***************************************************************************)
PoolKey == [PROTOCOL_SWAP_FEE_PERC |-> "SWAP_FEE of pool",
            PROTOCOL_FEE_GYRO_PORTION |-> "GYRO_PORTION of pool"]
TypeKey == [PROTOCOL_SWAP_FEE_PERC |-> "SWAP_FEE of type",
            PROTOCOL_FEE_GYRO_PORTION |-> "GYRO_PORTION of type"]

mk_pool_setting(setting, scope) ==
    CASE scope = "pool" -> PoolKey[setting]
      [] scope = "type" -> TypeKey[setting]
      [] scope = "global" -> setting

Scopes == <<"global", "type", "pool">>

\* The value the pools take: the narrowest scope that is set.
Effective(conf, setting) ==
    GetOr(conf, mk_pool_setting(setting, "pool"),
          GetOr(conf, mk_pool_setting(setting, "type"),
                GetOr(conf, setting, NoAddress)))

(***************************************************************************)
(* Lookups.  What happens to a key that is not there, or has another type, *)
(* is the difference between the scripts: it is caught and counts as not   *)
(* set, or the script dies.                                                *)
(***************************************************************************)
Lookup(call, key, type, caught) ==
    [call |-> call, key |-> key, type |-> type, caught |-> caught]

\* Two calls for each key, the second right after the first.
ForEach(keys, First(_), Second(_)) ==
    [i \in 1..(2 * Len(keys)) |->
        IF i % 2 = 1 THEN First(keys[(i + 1) \div 2]) ELSE Second(keys[i \div 2])]

\* mutant: the error of a key that is not set is not caught
GetUncaught(key, type) == Lookup("get", key, type, FALSE)

\* get_pool_setting and get_pool_setting_str catch error "32".
get_pool_setting(key, type) == Lookup("get", key, type, TRUE)

SettingSeq == InOrder(Settings)
TreasurySeq == InOrder(Treasuries)

SettingsAt(scope) ==
    [i \in DOMAIN SettingSeq |->
        get_pool_setting(mk_pool_setting(SettingSeq[i], scope), "uint")]

TreasuryLookups ==
    [i \in DOMAIN TreasurySeq |-> get_pool_setting(TreasurySeq[i], "address")]

read_main ==
    TreasuryLookups \o SettingsAt("global") \o SettingsAt("type") \o SettingsAt("pool")

FoundAt(setting) ==
    {i \in DOMAIN Scopes : mk_pool_setting(setting, Scopes[i]) \in DOMAIN rows}

\* mutant: the widest scope the setting was found at
PrintedWidest(setting) ==
    IF FoundAt(setting) = {} THEN NoAddress
    ELSE rows[mk_pool_setting(setting, Scopes[Min(FoundAt(setting))])].value

\* What the script prints as EFFECTIVE: the last scope it found the setting at.
PrintedEffective(setting) ==
    IF FoundAt(setting) = {} THEN NoAddress
    ELSE rows[mk_pool_setting(setting, Scopes[Max(FoundAt(setting))])].value

\* The stMATIC script reads the same keys but those of the type.
get_vals == TreasuryLookups \o SettingsAt("global") \o SettingsAt("pool")

\* listKeys at the start; then for each key its type, and its value with the
\* getter of that type.
pull_gyroconfig ==
    ForEach(InOrder(DOMAIN config), LAMBDA key : Lookup("meta", key, "", FALSE),
                                    LAMBDA key : Lookup("typed", key, "", FALSE))

pull_pool_specific == SettingsAt("type") \o SettingsAt("pool")

\* A key is read as an address when its name ends with ADDRESS, and as a number
\* otherwise, the addresses of the two treasuries too.
KnownKeys == DOMAIN Roles \union Settings \union Treasuries
             \union {"BALANCER_VAULT", "ROOT_PRICE_ORACLE"}

TypeByName(key) == IF key \in Settings \union Treasuries THEN "uint" ELSE "address"

check_main ==
    ForEach(InOrder(KnownKeys), LAMBDA key : Lookup("has", key, "", TRUE),
                                LAMBDA key : Lookup("named", key, TypeByName(key), FALSE))

Program == [read |-> read_main, get_vals |-> get_vals, pull |-> pull_gyroconfig,
            pull_pools |-> pull_pool_specific, check |-> check_main]

(***************************************************************************)
(* Governance.                                                             *)
(***************************************************************************)
\* The calls mk_set_vals_stmatic_eclp prints for governance to make.
mk_set_vals == {<<"BAL_TREASURY", "address">>,
                <<mk_pool_setting("PROTOCOL_SWAP_FEE_PERC", "pool"), "uint">>}

GovernedKeys == mk_set_vals \union
    {<<mk_pool_setting("PROTOCOL_SWAP_FEE_PERC", s), "uint">> : s \in {"global", "type"}}

ReadersInit ==
    /\ DeployInit
    /\ reader = "none" /\ state = "idle" /\ lookups = <<>> /\ rows = EmptyConfig
    /\ changes = 0 /\ changedSince = 0 /\ unsetSince = {}
    /\ inForce = [s \in Settings |-> {}]

\* Bounds: readers come after a deployment in which nothing died and nothing was
\* retried, when every printed batch was executed.
Settled == handover = "accepted" /\ printed = {} /\ cuts = 0 /\ retries = 0

Changes(conf, key) ==
    /\ Settled /\ changes < MaxChanges
    /\ config' = conf
    /\ changes' = changes + 1
    /\ IF state = "reading"
       THEN /\ changedSince' = changedSince + 1
            /\ inForce' = [s \in Settings |-> inForce[s] \union {Effective(conf, s)}]
            /\ unsetSince' = IF HasKey(conf, key) THEN unsetSince
                             ELSE unsetSince \union {key}
       ELSE UNCHANGED readHistory
    /\ UNCHANGED <<chain, containers, registries, lists, plan, printed, limits,
                   handover, history, reading>>

SetSetting(key, type, word) ==
    Settable(config, key, type) /\ Changes(Set(config, key, type, word), key)

UnsetSetting(key) == Removable(config, key) /\ Changes(Unset(config, key), key)

FreezeSetting(key) == Removable(config, key) /\ Changes(Freeze(config, key), key)

(***************************************************************************)
(* The reader.                                                             *)
(***************************************************************************)
StartReader(script) ==
    /\ Settled /\ state = "idle"
    /\ reader' = script /\ state' = "reading"
    /\ lookups' = Program[script]
    /\ inForce' = [s \in Settings |-> {Effective(config, s)}]
    /\ UNCHANGED <<deployVars, rows, changes, changedSince, unsetSince>>

Reads(found, left) ==
    /\ state = "reading" /\ lookups # <<>>
    /\ rows' = found
    /\ lookups' = left
    /\ UNCHANGED <<deployVars, reader, state, changes, readHistory>>

Next1 == Head(lookups)
Row(type, value, frozen) ==
    Put(rows, Next1.key, [type |-> type, value |-> value, frozen |-> frozen])

\* One call that answers with a value.
ReadValue ==
    /\ state = "reading" /\ lookups # <<>> /\ Next1.call \in {"get", "named"}
    /\ Readable(config, Next1.key, Next1.type)
    /\ Reads(Row(Next1.type, config[Next1.key].value, FALSE), Tail(lookups))

\* getConfigMeta, and then the value with the getter of the type it gave.
ReadMeta ==
    /\ state = "reading" /\ lookups # <<>> /\ Next1.call = "meta"
    /\ HasKey(config, Next1.key)
    /\ Reads(Row(config[Next1.key].type, NoAddress, config[Next1.key].frozen), Tail(lookups))

ReadTyped ==
    /\ state = "reading" /\ lookups # <<>> /\ Next1.call = "typed"
    /\ Readable(config, Next1.key, rows[Next1.key].type)
    /\ Reads([rows EXCEPT ![Next1.key].value = config[Next1.key].value], Tail(lookups))

\* hasKey: the getter is only called for a key that is there.
ReadHasKey ==
    /\ state = "reading" /\ lookups # <<>> /\ Next1.call = "has"
    /\ Reads(rows, IF HasKey(config, Next1.key) THEN Tail(lookups)
                   ELSE Tail(Tail(lookups)))

ReadNotSet ==
    /\ state = "reading" /\ lookups # <<>> /\ Next1.call = "get"
    /\ ~Readable(config, Next1.key, Next1.type)
    /\ Reads(rows, Tail(lookups))

\* The call reverts and nothing catches the error.
ReaderDies ==
    /\ state = "reading" /\ lookups # <<>> /\ ~Next1.caught
    /\ ~Readable(config, Next1.key,
                 CASE Next1.call = "named" -> Next1.type
                   [] Next1.call = "typed" -> rows[Next1.key].type
                   [] Next1.call = "meta" ->
                          IF HasKey(config, Next1.key) THEN config[Next1.key].type ELSE "")
    /\ state' = "dead"
    /\ UNCHANGED <<deployVars, reader, lookups, rows, changes, readHistory>>

ReaderEnds ==
    /\ state = "reading" /\ lookups = <<>>
    /\ state' = "over"
    /\ UNCHANGED <<deployVars, reader, lookups, rows, changes, readHistory>>

ReadersNext ==
    \/ DeployNext /\ UNCHANGED <<reading, changes, readHistory>>
    \/ \E k \in GovernedKeys, w \in Fees : SetSetting(k[1], k[2], w)
    \/ \E k \in GovernedKeys : UnsetSetting(k[1]) \/ FreezeSetting(k[1])
    \/ \E script \in DOMAIN Program : StartReader(script)
    \/ ReadValue \/ ReadMeta \/ ReadTyped \/ ReadHasKey \/ ReadNotSet
    \/ ReaderDies \/ ReaderEnds

ReadersSpec == ReadersInit /\ [][ReadersNext]_readVars /\ WF_deployVars(Progress)

(***************************************************************************)
(* Properties.                                                             *)
(***************************************************************************)
ReadersTypeOK ==
    /\ DeployTypeOK
    /\ reader \in DOMAIN Program \union {"none"}
    /\ state \in {"idle", "reading", "over", "dead"}
    /\ \A k \in DOMAIN rows : rows[k].type \in Types
    /\ changedSince \in 0..changes /\ changes \in 0..MaxChanges

\* The value printed as in force was in force at some moment while the script
\* read, as long as governance changed no more than one key meanwhile: what it
\* found is then the configuration before the change or the one after it, whether
\* the script had come by the key or not.  (After two changes it may be neither.)
EffectiveInForce ==
    reader = "read" /\ state = "over" /\ changedSince <= 1 =>
        \A s \in Settings : PrintedEffective(s) \in inForce[s]

\* A row that says frozen is true for good: the flag is read before the value, so
\* the value printed next to it can change neither before nor after the reader ends.
FrozenRowsHold ==
    state = "over" =>
        \A k \in DOMAIN rows : rows[k].frozen =>
            HasKey(config, k) /\ config[k].value = rows[k].value

\* A reader dies of a key unset under it, and the check of the keys also of a
\* treasury, an address it takes for a number; nothing else ends it early.
DiesOnlyOf ==
    state = "dead" =>
        \/ Next1.key \in unsetSince
        \/ reader = "check" /\ Next1.key \in Treasuries
=============================================================================
