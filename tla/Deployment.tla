----------------------------- MODULE Deployment -----------------------------
(***************************************************************************)
(* The deployment of the protocol: an operator runs the scripts of a plan  *)
(* in order (misc/deploy-devnet.sh is such a plan), and a script may die   *)
(* while it waits for a transaction.  The operator then runs it again;     *)
(* when a script reverts he may run it again too and in the end goes on    *)
(* with the next one.                                                      *)
(*                                                                         *)
(* Three things the scripts leave to him are actions of his: after the     *)
(* proxy of a contract that the scripts look up in its container he makes  *)
(* the container list the proxy (Adopt), he deploys the one oracle whose   *)
(* script cannot (DeployByHand), and when the plan is over he hands the    *)
(* governance proxy over (ChangeGovernor) to the multisig, which accepts   *)
(* it (AcceptGovernance) and executes the calls the scripts printed        *)
(* (GovernanceExecutes).                                                   *)
(***************************************************************************)
EXTENDS DeploymentScripts

CONSTANTS
    Plan,        \* the names of the scripts, in the order they are run
    MaxCuts,     \* bound on how often a script dies
    MaxRetries   \* bound on how often a script that reverted is run again

\* The functions of scripts/deployment/*.py, and the vaults by their symbols.
ScriptNames ==
    {"proxy_admin.main", "governance_proxy.main", "governance_proxy.proxy",
     "config.main", "config.proxy", "config.set_initial_config",
     "gyd_token.main", "gyd_token.proxy", "vault_registry.main", "vault_registry.proxy",
     "asset_registry.main", "asset_registry.proxy", "asset_registry.initialize",
     "asset_registry.set_asset_ranges", "reserve.main", "reserve.proxy",
     "reserve.reserve_reader", "reserve_manager.main", "pamm.main",
     "motherboard.main", "motherboard.proxy", "fee_handler.main", "stewardship.main",
     "gyd_recovery.main", "rate_manager.main", "rate_manager.atoken_provider",
     "rate_manager.set_rate_providers", "compound_rate_provider.main",
     "chainlink.main", "chainlink.set_feeds", "tellor.main", "coinbase.main",
     "checked.main", "checked.initialize", "vault_price_oracle.generic",
     "vault_price_oracle.cpmm", "vault_price_oracle.g2clp", "vault_price_oracle.g3clp",
     "vault_price_oracle.eclp", "batch.main", "batch.initialize", "safety.root",
     "safety.reserve_safety_manager", "safety.vault_safety_mode", "safety.register",
     "vaults.set_fees", "vaults.set_vaults"} \union vaults

ASSUME PlanAssumption ==
    /\ Plan \in Seq(ScriptNames) /\ IsInjective(Plan)
    /\ MaxCuts \in Nat
    /\ MaxRetries \in Nat

VARIABLES
    next,      \* index in Plan of the script to run
    phase,     \* "ready" to run it, "running" it, or it has just "reverted"
    todo,      \* the steps it still has to take
    printed,   \* batches of calls printed and not executed yet
    cuts,
    retries,
    handover   \* of the governance proxy: "none", "offered" or "accepted"

\* History: the scripts that ended, that reverted, and that a cut left in a
\* state they cannot be run to their end from.
VARIABLES done, reverted, torn

plan == <<next, phase, todo>>
history == <<done, reverted, torn>>
limits == <<cuts, retries>>
deployVars == <<deployment, plan, printed, limits, handover, history>>

Contracts ==
    {"ProxyAdmin", "GovernanceProxy", "GyroConfig", "GydToken", "VaultRegistry",
     "AssetRegistry", "Reserve", "ReserveManager", "PrimaryAMMV1", "ReserveSystemRead",
     "Motherboard", "StaticPercentageFeeHandler", "ReserveStewardshipIncentives",
     "GydRecovery", "RateManager", "ConstantRateProvider", "CompoundV2RateProvider",
     "ChainlinkPriceOracle", "TellorOracle", "TrustedSignerPriceOracle",
     "CheckedPriceOracle", "MockPriceOracle", "BatchVaultPriceOracle", "RootSafetyCheck",
     "ReserveSafetyManager", "VaultSafetyMode", "BalancerPoolVault", "GenericVault"}
    \union {VaultOracles[i] : i \in DOMAIN VaultOracles}

\* The script a name of the plan stands for.  A vault is named by its symbol.
Script(name) ==
    CASE name = "proxy_admin.main" -> proxy_admin_main
      [] name = "governance_proxy.main" -> governance_proxy_main
      [] name = "governance_proxy.proxy" -> governance_proxy_proxy
      [] name = "config.main" -> config_main
      [] name = "config.proxy" -> config_proxy
      [] name = "config.set_initial_config" -> set_initial_config
      [] name = "gyd_token.main" -> gyd_token_main
      [] name = "gyd_token.proxy" -> gyd_token_proxy
      [] name = "vault_registry.main" -> vault_registry_main
      [] name = "vault_registry.proxy" -> vault_registry_proxy
      [] name = "asset_registry.main" -> asset_registry_main
      [] name = "asset_registry.proxy" -> asset_registry_proxy
      [] name = "asset_registry.initialize" -> asset_registry_initialize
      [] name = "asset_registry.set_asset_ranges" -> set_asset_ranges
      [] name = "reserve.main" -> reserve_main
      [] name = "reserve.proxy" -> reserve_proxy
      [] name = "reserve.reserve_reader" -> reserve_reader
      [] name = "reserve_manager.main" -> reserve_manager_main
      [] name = "pamm.main" -> pamm_main
      [] name = "motherboard.main" -> motherboard_main
      [] name = "motherboard.proxy" -> motherboard_proxy
      [] name = "fee_handler.main" -> fee_handler_main
      [] name = "stewardship.main" -> stewardship_main
      [] name = "gyd_recovery.main" -> gyd_recovery_main
      [] name = "rate_manager.main" -> rate_manager_main
      [] name = "rate_manager.atoken_provider" -> atoken_provider
      [] name = "rate_manager.set_rate_providers" -> set_rate_providers
      [] name = "compound_rate_provider.main" -> compound_rate_provider_main
      [] name = "chainlink.main" -> chainlink_main
      [] name = "chainlink.set_feeds" -> set_feeds
      [] name = "tellor.main" -> tellor_main
      [] name = "coinbase.main" -> coinbase_main
      [] name = "checked.main" -> checked_main
      [] name = "checked.initialize" -> checked_initialize
      [] name = "vault_price_oracle.generic" -> vault_price_oracle_generic
      [] name = "vault_price_oracle.cpmm" -> vault_price_oracle_cpmm
      [] name = "vault_price_oracle.g2clp" -> vault_price_oracle_g2clp
      [] name = "vault_price_oracle.g3clp" -> vault_price_oracle_g3clp
      [] name = "vault_price_oracle.eclp" -> vault_price_oracle_eclp
      [] name = "batch.main" -> batch_main
      [] name = "batch.initialize" -> batch_initialize
      [] name = "safety.root" -> safety_root
      [] name = "safety.reserve_safety_manager" -> reserve_safety_manager
      [] name = "safety.vault_safety_mode" -> vault_safety_mode
      [] name = "safety.register" -> safety_register
      [] name = "vaults.set_fees" -> set_fees
      [] name = "vaults.set_vaults" -> set_vaults
      [] name \in GenericSymbols -> generic(name)
      [] name \in BalancerSymbols -> balancer(name)

running == phase = "running"
Idle == ~running /\ next <= Len(Plan)
Name == Plan[next]
Current == Script(Name)
Passed == {Plan[i] : i \in 1..(next - 1)}

DeployInit ==
    /\ InitDeployment(Contracts)
    /\ next = 1 /\ phase = "ready" /\ todo = <<>>
    /\ printed = {} /\ cuts = 0 /\ retries = 0 /\ handover = "none"
    /\ done = {} /\ reverted = {} /\ torn = {}

(***************************************************************************)
(* What the operator does by hand.                                         *)
(***************************************************************************)
\* The contracts whose container lists the proxy, and the script that makes it.
Adoption == [GovernanceProxy |-> "governance_proxy.proxy", GyroConfig |-> "config.proxy",
             GydToken |-> "gyd_token.proxy"]

\* Once the plan is past the script, if it made a proxy.
ToAdopt(c) == Adoption[c] \in Passed /\ Count(c, TRUE) > 0 /\ ~containers[c][1].proxy

Adopt(c) ==
    /\ ~running /\ ToAdopt(c)
    /\ containers' = [containers EXCEPT ![c] = <<Address(c, Count(c, TRUE), TRUE)>>]
    /\ UNCHANGED <<chain, config, registries, lists, plan, printed, limits, handover,
                   history>>

DeployByHand ==
    /\ ~running
    /\ "vault_price_oracle.generic" \in Passed
    /\ containers["GenericVaultPriceOracle"] = <<>>
    /\ LET a == New("GenericVaultPriceOracle") IN
         /\ Add(a, NoAddress, [c \in {"GyroConfig"} |-> Config], "")
         /\ containers' = [containers EXCEPT !["GenericVaultPriceOracle"] = <<a>>]
    /\ UNCHANGED <<config, registries, lists, plan, printed, limits, handover, history>>

ChangeGovernor ==
    /\ ~running /\ next > Len(Plan) /\ handover = "none"
    /\ handover' = "offered"
    /\ UNCHANGED <<deployment, plan, printed, limits, history>>

AcceptGovernance ==
    /\ handover = "offered"
    /\ chain' = [chain EXCEPT ![Governance].governor = Multisig]
    /\ handover' = "accepted"
    /\ UNCHANGED <<containers, config, registries, lists, plan, printed, limits, history>>

\* A batch is executed at once.  The multisig reaches a contract it governs, and
\* through the governance proxy one that the proxy governs.
GovernanceExecutes(batch) ==
    LET calls == {batch[i] : i \in DOMAIN batch}
        roots == {c \in calls : c.list = "ROOT_PRICE_ORACLE"}
    IN
    /\ handover = "accepted"
    /\ \A c \in calls : GovernorOf(c.target) \in {Multisig, Governance}
    /\ roots # {} => Settable(config, "ROOT_PRICE_ORACLE", "address")
    /\ lists' = lists \union {<<c.target, c.list, c.element>> : c \in calls \ roots}
    /\ config' = IF roots = {} THEN config
                 ELSE Set(config, "ROOT_PRICE_ORACLE", "address",
                          (CHOOSE c \in roots : TRUE).element)
    /\ printed' = printed \ {batch}
    /\ UNCHANGED <<chain, containers, registries, plan, limits, handover, history>>

(***************************************************************************)
(* Running a script.                                                       *)
(***************************************************************************)
StartScript ==
    /\ Idle
    /\ Verdict(Current.rules) = "run"
    /\ \A c \in DOMAIN Adoption : ~ToAdopt(c)
    /\ phase = "reverted" => retries < MaxRetries
    /\ retries' = IF phase = "reverted" THEN retries + 1 ELSE retries
    /\ phase' = "running"
    /\ todo' = Current.steps
    /\ UNCHANGED <<deployment, next, printed, cuts, handover, history>>

SkipScript ==
    /\ Idle
    /\ Verdict(Current.rules) = "skip"
    /\ phase' = "ready"
    /\ next' = next + 1
    /\ UNCHANGED <<deployment, todo, printed, limits, handover, history>>

TakesStep ==
    /\ running /\ todo # <<>> /\ Executable(Head(todo))
    /\ todo' = Tail(todo)
    /\ UNCHANGED <<next, phase, limits, handover, history>>

DeployStep == TakesStep /\ DoDeploy(Head(todo)) /\ UNCHANGED printed
ProxyStep == TakesStep /\ DoProxy(Head(todo)) /\ UNCHANGED printed
OverwriteStep == TakesStep /\ DoOverwrite(Head(todo)) /\ UNCHANGED printed
SetKeyStep == TakesStep /\ DoSetKey(Head(todo)) /\ UNCHANGED printed
CallStep == TakesStep /\ DoCall(Head(todo)) /\ UNCHANGED printed
AssetStep == TakesStep /\ DoAssetCall(Head(todo)) /\ UNCHANGED printed
TransferStep == TakesStep /\ DoTransfer(Head(todo)) /\ UNCHANGED printed
PrintStep == /\ TakesStep /\ DoPrint(Head(todo))
             /\ printed' = printed \union {Head(todo).batch}

Finish ==
    /\ running /\ todo = <<>>
    /\ phase' = "ready"
    /\ next' = next + 1
    /\ done' = done \union {Name}
    /\ UNCHANGED <<deployment, todo, printed, limits, handover, reverted, torn>>

\* A step that the chain refuses, or an exception, ends the script.
Revert ==
    /\ running /\ todo # <<>> /\ ~Executable(Head(todo))
    /\ phase' = "reverted" /\ todo' = <<>>
    /\ reverted' = reverted \union {Name}
    /\ UNCHANGED <<deployment, next, printed, limits, handover, done, torn>>

GoOn ==
    /\ phase = "reverted"
    /\ phase' = "ready"
    /\ next' = next + 1
    /\ UNCHANGED <<deployment, todo, printed, limits, handover, history>>

\* An implementation that no proxy took the place of in a container of vaults.
BareVault ==
    \E c \in {"GenericVault", "BalancerPoolVault"} :
        \E i \in DOMAIN containers[c] : ~containers[c][i].proxy

\* Whether the script, cut here, cannot be made good by running it again: it is
\* skipped, its first call or the ownership it hands over is refused, or a vault is
\* left bare or made a second time.
Stuck ==
    \/ Verdict(Current.rules) = "skip"
    \/ Current.steps # <<>> /\ ~Executable(Head(Current.steps))
    \/ \E i \in DOMAIN Current.steps :
           Current.steps[i].op = "transfer" /\ ~Executable(Current.steps[i])
    \/ Name \in vaults /\ (BareVault \/ todo = <<>>)

\* The script dies while it waits for a transaction, the last one included.  One that
\* has nothing left to do and would be skipped now is a script that ended (Finish).
Cut ==
    /\ running /\ cuts < MaxCuts
    /\ todo # <<>> => Head(todo).op # "raise"
    /\ todo = <<>> => Verdict(Current.rules) # "skip"
    /\ phase' = "ready" /\ todo' = <<>>
    /\ cuts' = cuts + 1
    /\ torn' = IF Stuck THEN torn \union {Name} ELSE torn
    /\ UNCHANGED <<deployment, next, printed, retries, handover, done, reverted>>

StepOfScript ==
    \/ DeployStep \/ ProxyStep \/ OverwriteStep \/ SetKeyStep \/ CallStep
    \/ AssetStep \/ TransferStep \/ PrintStep

Progress ==
    \/ StartScript \/ SkipScript \/ StepOfScript \/ Finish \/ Revert \/ GoOn
    \/ DeployByHand
    \/ \E c \in DOMAIN Adoption : Adopt(c)

DeployNext ==
    \/ Progress
    \/ Cut
    \/ ChangeGovernor \/ AcceptGovernance
    \/ \E batch \in printed : GovernanceExecutes(batch)

DeploySpec == DeployInit /\ [][DeployNext]_deployVars /\ WF_deployVars(Progress)

(***************************************************************************)
(* Properties.                                                             *)
(***************************************************************************)
DeployTypeOK ==
    /\ next \in 1..(Len(Plan) + 1)
    /\ phase \in {"ready", "running", "reverted"} /\ handover \in {"none", "offered", "accepted"}
    /\ \A i \in DOMAIN todo : todo[i].op \in {"deploy", "proxy", "overwrite", "setKey",
                                               "call", "asset", "transfer", "print", "raise"}
    /\ \A c \in Contracts : \A i \in DOMAIN containers[c] :
           containers[c][i] \in DOMAIN chain
    /\ \A k \in DOMAIN config : config[k].type \in Types
    /\ \A a \in DOMAIN registries : a.proxy /\ registries[a].stable \subseteq
                                                   registries[a].addresses
    /\ done \union reverted \union torn \subseteq {Plan[i] : i \in DOMAIN Plan}
    /\ cuts \in 0..MaxCuts /\ retries \in 0..MaxRetries

\* The contract each key of the configuration must lead to.
Roles == [GYD_TOKEN |-> "GydToken", VAULT_REGISTRY |-> "VaultRegistry",
          ASSET_REGISTRY |-> "AssetRegistry", RESERVE |-> "Reserve",
          RESERVE_MANAGER |-> "ReserveManager", PAMM |-> "PrimaryAMMV1",
          FEE_HANDLER |-> "StaticPercentageFeeHandler", MOTHERBOARD |-> "Motherboard",
          STEWARDSHIP_INC |-> "ReserveStewardshipIncentives",
          GYD_RECOVERY |-> "GydRecovery", ROOT_SAFETY_CHECK |-> "RootSafetyCheck"]

Upgradeable == {"GydToken", "VaultRegistry", "AssetRegistry", "Reserve", "Motherboard"}

\* The address users of a contract must reach: the newest proxy, or the newest
\* contract when it has no proxy.
InUse(contract) ==
    IF contract \in Upgradeable
    THEN Address(contract, Count(contract, TRUE), TRUE) ELSE Bound(contract)

Listed(target, list) == {l[3] : l \in {m \in lists : m[1] = target /\ m[2] = list}}

KeysLead ==
    \A k \in DOMAIN Roles :
        /\ KeyAddress(k) = InUse(Roles[k])
        /\ GovernorOf(KeyAddress(k)) \in {Governance, Multisig}

StableAssetsHaveRanges ==
    LET reg == registries[KeyAddress("ASSET_REGISTRY")] IN
    \A asset \in reg.stable : HasAssetRange(reg, asset)

ChecksRegistered ==
    Listed(KeyAddress("ROOT_SAFETY_CHECK"), "checks")
        = {Bound("VaultSafetyMode"), Bound("ReserveSafetyManager")}

AssetsHaveFeeds ==
    registries[KeyAddress("ASSET_REGISTRY")].addresses
        \subseteq {a.contract : a \in Listed(Bound("ChainlinkPriceOracle"), "feeds")}

VaultsHaveFees ==
    LET all == _get_all_vault_addresses IN
    Listed(KeyAddress("FEE_HANDLER"), "fees") = {all[i] : i \in DOMAIN all}

\* When the plan is over and no cut left a script that cannot be made good, the
\* protocol is wired as the contracts need it, however often scripts died on the
\* way and were run again: every key leads to the contract in use, governed by
\* the proxy or the multisig; every stable asset has a range (else every reserve
\* state reverts); both checks hang on the root check of the configuration; every
\* asset has a feed; every vault has its fees at the configured handler.
WiredAtTheEnd ==
    next > Len(Plan) /\ torn = {} =>
        /\ KeysLead
        /\ StableAssetsHaveRanges
        /\ ChecksRegistered
        /\ AssetsHaveFeeds
        /\ VaultsHaveFees

\* Between two scripts, what the constructors of the listed contracts read and
\* kept is what the configuration and the containers still say: no contract was
\* built against an address that was replaced after (the constructor of the
\* reserve manager keeps three keys, the oracle of Coinbase prices the registry).
KeptStillHolds ==
    ~running /\ torn = {} =>
        \A contract \in Contracts :
            containers[contract] # <<>> =>
                LET kept == chain[Bound(contract)].kept IN
                \A x \in DOMAIN kept :
                    kept[x] = IF x \in Contracts THEN Bound(x) ELSE KeyAddress(x)

\* The scripts that revert whenever they are run: the oracle deployed without its
\* argument, addManager on an implementation, setVaults from the deployer.
AlwaysRevert ==
    {"vault_price_oracle.generic", "motherboard.proxy", "vaults.set_vaults"}

\* Unless a cut tore something before, no other script of the plan ever reverts:
\* each call is made by an account that governs its target at that moment, and
\* each constructor finds the keys it reads.
OnlyKnownReverts == torn = {} => reverted \subseteq AlwaysRevert

\* The scripts that a cut can leave beyond repair.  The first three carry
\* as_singleton and set their key in a later transaction; the next two
\* start with a call that cannot be repeated and the governance proxy ends with one;
\* a vault leaves its implementation in the container, or is made twice.
NotRepeatable ==
    {"reserve_manager.main", "pamm.main", "safety.root"}
    \union {"asset_registry.initialize", "safety.register", "governance_proxy.proxy"}
    \union vaults

\* Every other script can be run again after it died while it waited for any of its
\* transactions: the first script that is left beyond repair is one of these.
OthersCanBeRepeated == [][torn = {} => torn' \subseteq NotRepeatable]_deployVars

\* as_singleton skips no script that has work to do: a script that the plan went
\* past ran to its end, reverted, or is one that a cut tore.
NothingLeftOut == Passed \subseteq done \union reverted \union torn

\* The operator gets to the end of the plan, whatever dies or reverts: no script
\* waits for a contract that none before it deploys.
Completes == <>(next > Len(Plan))

(***************************************************************************)
(* Plans in which every script finds what it needs.                        *)
(***************************************************************************)
\* The scripts that hand a contract to the governance proxy or call through it,
ThroughGovernance ==
    {"config.proxy", "config.set_initial_config", "gyd_token.proxy",
     "vault_registry.proxy", "asset_registry.proxy", "asset_registry.initialize",
     "asset_registry.set_asset_ranges", "reserve.proxy", "reserve_manager.main",
     "pamm.main", "motherboard.proxy", "fee_handler.main", "stewardship.main",
     "gyd_recovery.main", "rate_manager.main", "chainlink.main", "chainlink.set_feeds",
     "checked.main", "safety.root", "safety.reserve_safety_manager",
     "safety.vault_safety_mode", "safety.register", "vaults.set_fees"}

\* that set keys of the configuration or deploy a contract that keeps its address,
WithConfig ==
    {"config.set_initial_config", "gyd_token.proxy", "vault_registry.main",
     "vault_registry.proxy", "asset_registry.main", "asset_registry.proxy",
     "reserve.proxy", "reserve_manager.main", "pamm.main", "motherboard.main",
     "motherboard.proxy", "fee_handler.main", "stewardship.main", "gyd_recovery.main",
     "safety.root", "safety.vault_safety_mode", "vault_price_oracle.generic"}
    \union vaults

\* and the pairs of a script and one that it must not come before: what the first
\* calls, reads or lists, the second makes, sets or fills.
Needs ==
    (ThroughGovernance \X {"governance_proxy.proxy"})
    \union (WithConfig \X {"config.proxy"})
    \union ({"stewardship.main", "gyd_recovery.main", "motherboard.main"}
                \X {"gyd_token.proxy"})
    \union ({"reserve_manager.main", "motherboard.main"} \X {"reserve.proxy"})
    \union ({"reserve_manager.main", "coinbase.main", "asset_registry.initialize",
             "asset_registry.set_asset_ranges"} \X {"asset_registry.proxy"})
    \union ({"vaults.set_fees"} \X ({"fee_handler.main"} \union vaults))
    \union {<<"reserve_manager.main", "vault_registry.proxy">>,
            <<"motherboard.main", "config.set_initial_config">>,
            <<"asset_registry.set_asset_ranges", "asset_registry.initialize">>}

PlanInOrder ==
    \A j \in DOMAIN Plan : \A name \in ScriptNames :
        <<Plan[j], name>> \in Needs => \E i \in 1..(j - 1) : Plan[i] = name

PlanIsComplete == ScriptNames \subseteq {Plan[i] : i \in DOMAIN Plan}
=============================================================================
