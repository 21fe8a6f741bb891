---------------------------- MODULE WiringProofs ----------------------------
(***************************************************************************)
(* What the deployment promises on mainnet, for every plan in which each   *)
(* script comes after those it needs, however often scripts die and are    *)
(* run again: no script reverts but the three that always do, what a       *)
(* constructor kept is what the deployment still says, at the end of a     *)
(* complete plan the protocol is wired as the contracts need it, and the   *)
(* scripts that a cut can leave half done for good are those of            *)
(* NotRepeatable.                                                          *)
(***************************************************************************)
EXTENDS DeploymentProofs

-----------------------------------------------------------------------------
(* What is made, kept, handed and called by which script.                  *)

VaultKinds == {"GenericVault", "BalancerPoolVault"}

\* The script that sets each key of Roles, and those that set the keys constructors
\* read.
Owner ==
    [GYD_TOKEN |-> "gyd_token.proxy", VAULT_REGISTRY |-> "vault_registry.proxy",
     ASSET_REGISTRY |-> "asset_registry.proxy", RESERVE |-> "reserve.proxy",
     RESERVE_MANAGER |-> "reserve_manager.main", PAMM |-> "pamm.main",
     FEE_HANDLER |-> "fee_handler.main", MOTHERBOARD |-> "motherboard.proxy",
     STEWARDSHIP_INC |-> "stewardship.main", GYD_RECOVERY |-> "gyd_recovery.main",
     ROOT_SAFETY_CHECK |-> "safety.root"]

KeyScript ==
    [GYD_TOKEN |-> "gyd_token.proxy", VAULT_REGISTRY |-> "vault_registry.proxy",
     ASSET_REGISTRY |-> "asset_registry.proxy", RESERVE |-> "reserve.proxy",
     BALANCER_VAULT |-> "config.set_initial_config"]

\* The contracts whose address others keep, and the scripts that are handed the
\* contract their decorators ask for.
Kept == {"ReserveManager", "PrimaryAMMV1", "ChainlinkPriceOracle", "CheckedPriceOracle"}

Hands ==
    {<<"governance_proxy.proxy", "GovernanceProxy">>, <<"governance_proxy.proxy", "ProxyAdmin">>,
     <<"config.proxy", "GyroConfig">>, <<"gyd_token.proxy", "GydToken">>,
     <<"vault_registry.proxy", "VaultRegistry">>, <<"asset_registry.proxy", "AssetRegistry">>,
     <<"reserve.proxy", "Reserve">>, <<"motherboard.proxy", "Motherboard">>,
     <<"reserve.reserve_reader", "ReserveManager">>,
     <<"reserve.reserve_reader", "PrimaryAMMV1">>,
     <<"chainlink.set_feeds", "ChainlinkPriceOracle">>,
     <<"checked.main", "ChainlinkPriceOracle">>, <<"batch.main", "CheckedPriceOracle">>,
     <<"safety.register", "RootSafetyCheck">>, <<"safety.register", "VaultSafetyMode">>,
     <<"safety.register", "ReserveSafetyManager">>,
     <<"vaults.set_fees", "StaticPercentageFeeHandler">>}

\* The lists that a script fills through the governance proxy, and whose they are.
CallScript == [checks |-> "safety.register", feeds |-> "chainlink.set_feeds",
               fees |-> "vaults.set_fees"]
CallTarget == [checks |-> "RootSafetyCheck", feeds |-> "ChainlinkPriceOracle",
               fees |-> "StaticPercentageFeeHandler"]

NeededBy(name, n) == <<name, n>> \in Needs
There(c) == containers[c] # <<>>
Adopted(c) == There(c) /\ containers[c][1].proxy
Handed(name) == \A h \in Hands : h[1] = name => There(h[2])

\* Who governs the contracts that have a governor.
Governed(a) ==
    IF a.proxy
    THEN a.contract \in {"GyroConfig", "VaultRegistry", "AssetRegistry", "Motherboard"}
    ELSE a.contract \in {"ReserveManager", "RateManager", "ChainlinkPriceOracle",
                         "CheckedPriceOracle", "StaticPercentageFeeHandler",
                         "RootSafetyCheck", "ReserveSafetyManager", "VaultSafetyMode"}

OfMultisig(a) ==
    IF a.proxy THEN a.contract \in {"GydToken", "Reserve"}
    ELSE a.contract \in {"PrimaryAMMV1", "ReserveStewardshipIncentives", "GydRecovery"}

OfDeployer(a) ==
    IF a.proxy THEN a.contract = "GovernanceProxy" ELSE a.contract = "ProxyAdmin"

\* The step that makes what the users of a contract will reach.
Makes(step, c) ==
    step.op = (IF c \in Upgradeable THEN "proxy" ELSE "deploy") /\ step.at.contract = c

-----------------------------------------------------------------------------
(* The steps of a script, as they must be for each to succeed.             *)

MadeFits(name, step) ==
    /\ Governed(step.at) =>
           step.governor = Governance /\ NeededBy(name, "governance_proxy.proxy")
    /\ OfMultisig(step.at) => step.governor = Multisig
    /\ OfDeployer(step.at) => step.governor = Deployer
    /\ step.at.contract \in VaultKinds => name \in vaults
    /\ \A k \in DOMAIN Roles : Makes(step, Roles[k]) => name = Owner[k]

DeployFits(name, step) ==
    /\ MadeFits(name, step)
    /\ \A k \in step.keys : k \in DOMAIN KeyScript /\ NeededBy(name, KeyScript[k])
    /\ \A c \in DOMAIN step.kept :
           /\ step.kept[c] = Bound(c)
           /\ \/ c = "GyroConfig" /\ NeededBy(name, "config.proxy")
              \/ c \in Kept /\ There(c)

ProxyFits(name, step) ==
    MadeFits(name, step) /\ (step.at.contract \in VaultKinds => step.label \in vaults)

KeyFits(name, step) ==
    /\ step.by = Governance
    /\ NeededBy(name, "governance_proxy.proxy") /\ NeededBy(name, "config.proxy")
    /\ step.key = "BALANCER_VAULT" => step.word = Outsider("BALANCER_VAULT")
    /\ step.key \in DOMAIN Roles => Owner[step.key] = name

CallFits(name, step) ==
    \/ step.list \in {"managers", "vaults"} /\ name \in AlwaysRevert
    \/ /\ step.by = Governance /\ NeededBy(name, "governance_proxy.proxy")
       /\ step.list \in DOMAIN CallScript /\ CallScript[step.list] = name
       /\ step.target = Bound(CallTarget[step.list]) /\ There(CallTarget[step.list])

AssetFits(name, step) ==
    /\ step.by = Governance /\ NeededBy(name, "governance_proxy.proxy")
    /\ NeededBy(name, "asset_registry.proxy") /\ step.target = KeyAddress("ASSET_REGISTRY")
    /\ name = IF step.list = "ranges" THEN "asset_registry.set_asset_ranges"
              ELSE "asset_registry.initialize"

PrintFits(step) ==
    \A i \in DOMAIN step.batch : step.batch[i].list \notin {"checks", "fees"}

Fits(name, step) ==
    /\ step.op = "deploy" => DeployFits(name, step)
    /\ step.op = "proxy" => ProxyFits(name, step)
    /\ step.op = "overwrite" => name \in vaults
    /\ step.op = "setKey" => KeyFits(name, step)
    /\ step.op = "call" => CallFits(name, step)
    /\ step.op = "asset" => AssetFits(name, step)
    /\ step.op = "print" => PrintFits(step)
    /\ step.op = "transfer" => /\ name = "governance_proxy.proxy"
                               /\ step.target = Bound("ProxyAdmin") /\ There("ProxyAdmin")
    /\ step.op = "raise" => name = "vault_price_oracle.generic"

\* A step after which its script has none left.
Final(step) ==
    step.op = "transfer" \/ (step.op = "call" /\ step.list \in {"managers", "vaults"})

Once == {Makers[c] : c \in DOMAIN Makers} \ NotRepeatable
EndsMade(name, s) ==
    \/ s[Len(s)].op = "raise" /\ Len(s) = 1
    \/ /\ s[Len(s)].op = "deploy" /\ s[Len(s)].at.contract \in DOMAIN Makers
       /\ Makers[s[Len(s)].at.contract] = name

-----------------------------------------------------------------------------
(* What always holds of addresses, containers and history.                 *)

\* The container of a contract that as_singleton guards lists no more than one.
SinglesOK ==
    /\ \A c \in DOMAIN Makers :
          /\ Len(containers[c]) <= 1
          /\ running /\ (\E i \in DOMAIN todo : todo[i].op = "deploy" /\ todo[i].at.contract = c)
                => containers[c] = <<>>
    /\ \A c \in Contracts : \A i \in DOMAIN containers[c] :
          containers[c][i].proxy => c \in DOMAIN Adoption \union VaultKinds

NumbersOK ==
    \A a \in DOMAIN chain :
        /\ a = Address(a.contract, a.nth, a.proxy)
        /\ a.nth \in 1..Count(a.contract, a.proxy)
        /\ DOMAIN chain[a] = {"governor", "kept", "label"}

HistoryOK == done \subseteq Passed

NothingFrozen == handover # "accepted" => \A k \in DOMAIN config : ~config[k].frozen

-----------------------------------------------------------------------------
(* What holds as long as no cut has torn a script.                         *)

RevertsOK == reverted \subseteq AlwaysRevert

\* The operator has adopted what the scripts that ran need.
PastOK ==
    \A n \in done \union reverted : \A c \in DOMAIN Adoption :
        NeededBy(n, Adoption[c]) => Adopted(c)

NeedsOK ==
    running =>
        /\ Handed(Name)
        /\ \A n : NeededBy(Name, n) =>
               n \in done /\ \A c \in DOMAIN Adoption : Adoption[c] = n => Adopted(c)

GovernorsOK ==
    \A a \in DOMAIN chain :
        /\ Governed(a) => Adopted("GovernanceProxy") /\ chain[a].governor = Governance
        /\ OfMultisig(a) => chain[a].governor = Multisig
        /\ OfDeployer(a) =>
              \/ chain[a].governor = Deployer
              \/ a.proxy /\ handover = "accepted"
              \/ ~a.proxy /\ "governance_proxy.proxy" \in done
              \/ /\ ~a.proxy /\ running /\ Name = "governance_proxy.proxy" /\ todo = <<>>
                 /\ a = Bound("ProxyAdmin")

FitsOK ==
    running =>
        /\ \A i \in DOMAIN todo : Fits(Name, todo[i]) /\ (Final(todo[i]) => i = Len(todo))
        /\ Name \in Once /\ todo # <<>> => EndsMade(Name, todo)

PrintedOK ==
    \A batch \in printed : \A i \in DOMAIN batch : batch[i].list \notin {"checks", "fees"}

\* A key leads to the contract in use when its script is over.  While the script runs
\* it makes the contract before it sets the key, to what it made.
SetsOf(k) == {i \in DOMAIN todo : todo[i].op = "setKey" /\ todo[i].key = k}
MakesOf(k) == {i \in DOMAIN todo : Makes(todo[i], Roles[k])}

Leads(k) ==
    /\ k \in DOMAIN config /\ config[k].value = InUse(Roles[k])
    /\ InUse(Roles[k]) \in DOMAIN chain

LeadOK(k) ==
    /\ Owner[k] \in Passed \/ (phase = "reverted" /\ Name = Owner[k]) => Leads(k)
    /\ running /\ Name = Owner[k] /\ SetsOf(k) = {} => MakesOf(k) = {} /\ Leads(k)
    /\ running /\ Name = Owner[k] => \A i \in SetsOf(k) :
          /\ \A j \in MakesOf(k) : j < i /\ todo[i].word = todo[j].at
          /\ MakesOf(k) = {} => /\ todo[i].word = InUse(Roles[k])
                                /\ InUse(Roles[k]) \in DOMAIN chain

LeadsOK == \A k \in DOMAIN Roles : LeadOK(k)

BalancerOK ==
    LET k == "BALANCER_VAULT" IN
    /\ "config.set_initial_config" \in done => k \in DOMAIN config
    /\ running /\ Name = "config.set_initial_config" =>
           k \in DOMAIN config \/ \E i \in DOMAIN todo : todo[i].op = "setKey" /\ todo[i].key = k
    /\ k \in DOMAIN config => config[k].value = Outsider(k)

\* The assets that are stable, that get a range, and all.
Stables == {"USDT", "USDC", "DAI"}
Ranged == {"USDC", "USDP", "GUSD", "USDT", "DAI", "LUSD", "crvUSD"}
Tokens == Ranged \union {"WETH", "WBTC"}

AssetsHere == KeyAddress("ASSET_REGISTRY")
Initialize == "asset_registry.initialize"
SetRanges == "asset_registry.set_asset_ranges"
Names(list) == {todo[i].name : i \in {j \in DOMAIN todo : todo[j].list = list}}

RegistriesAre ==
    /\ DOMAIN registries = {a \in DOMAIN chain : a.contract = "AssetRegistry" /\ a.proxy}
    /\ \A r \in DOMAIN registries :
          /\ registries[r].stable \subseteq Stables /\ registries[r].addresses \subseteq Tokens
          /\ DOMAIN registries[r].assets # {} =>
                Initialize \in done \/ (running /\ Name = Initialize /\ r = AssetsHere)

InitializeOK ==
    LET reg == registries[AssetsHere] IN
    /\ Initialize \in done => Ranged \subseteq reg.addresses
    /\ running /\ Name = Initialize =>
          /\ \/ DOMAIN reg.assets = {}
             \/ "ETH" \in DOMAIN reg.assets /\ reg.assets["ETH"] = "WETH"
          /\ DOMAIN reg.assets = {} =>
                todo # <<>> /\ todo[1].list = "assets" /\ todo[1].name = "ETH"
          /\ \A i \in DOMAIN todo : todo[i].op = "asset"
          /\ \A i \in DOMAIN todo : todo[i].list = "assets" =>
                /\ Asset(todo[i].name) \in Tokens /\ todo[i].name \notin DOMAIN reg.assets
                /\ \A j \in DOMAIN todo :
                       todo[j].list = "assets" /\ todo[j].name = todo[i].name => i = j
          /\ \A i \in DOMAIN todo : todo[i].list = "stable" =>
                /\ todo[i].name \in Stables
                /\ \A j \in DOMAIN todo : todo[j].list = "assets" => j < i
          /\ \A n \in Ranged : n \in reg.addresses \/ n \in Names("assets")

RangesOK ==
    LET reg == registries[AssetsHere] IN
    /\ SetRanges \in done => Stables \subseteq reg.ranges
    /\ running /\ Name = SetRanges =>
          /\ \A i \in DOMAIN todo : todo[i].op = "asset" /\ todo[i].list = "ranges"
                                    /\ todo[i].name \in Ranged
          /\ \A n \in Stables : n \in reg.ranges \/ n \in Names("ranges")

Register == "safety.register"
Root == Bound("RootSafetyCheck")
Checks == {Bound("VaultSafetyMode"), Bound("ReserveSafetyManager")}
Elements == {todo[i].element : i \in DOMAIN todo}

ChecksOK ==
    /\ \A m \in lists : m[2] = "checks" =>
          /\ Register \in done \/ (running /\ Name = Register)
          /\ There("RootSafetyCheck") /\ m[3] \in Checks /\ m = <<Root, "checks", m[3]>>
    /\ Register \in done => \A e \in Checks : <<Root, "checks", e>> \in lists
    /\ Register \in done \/ (running /\ Name = Register) =>
          There("VaultSafetyMode") /\ There("ReserveSafetyManager") /\ There("RootSafetyCheck")
    /\ running /\ Name = Register =>
          /\ \/ \A e \in Checks : <<Root, "checks", e>> \notin lists
             \/ <<Root, "checks", Bound("VaultSafetyMode")>> \in lists
          /\ <<Root, "checks", Bound("VaultSafetyMode")>> \notin lists =>
                todo # <<>> /\ todo[1].element = Bound("VaultSafetyMode")
          /\ \A i \in DOMAIN todo : /\ todo[i].op = "call" /\ todo[i].list = "checks"
                                    /\ todo[i].element \in Checks
                                    /\ <<Root, "checks", todo[i].element>> \notin lists
          /\ \A i, j \in DOMAIN todo : todo[i].element = todo[j].element => i = j
          /\ \A e \in Checks : <<Root, "checks", e>> \in lists \/ e \in Elements

FeedOf(a) == <<Bound("ChainlinkPriceOracle"), "feeds", Outsider(a)>>

FeedsOK ==
    LET script == "chainlink.set_feeds" IN
    /\ script \in done \/ (running /\ Name = script) => There("ChainlinkPriceOracle")
    /\ script \in done => \A a \in get_chainlink_feeds : FeedOf(a) \in lists
    /\ running /\ Name = script => \A a \in get_chainlink_feeds :
           \/ FeedOf(a) \in lists
           \/ \E i \in DOMAIN todo : todo[i].op = "call" /\ todo[i].list = "feeds"
                                     /\ todo[i].element = Outsider(a)

AllVaults == UNION {{containers[c][i] : i \in DOMAIN containers[c]} : c \in VaultKinds}
Handler == Bound("StaticPercentageFeeHandler")

FeesOK ==
    LET script == "vaults.set_fees" IN
    /\ \A m \in lists : m[2] = "fees" =>
          /\ {"fee_handler.main"} \union vaults \subseteq done
          /\ m[1] = Handler /\ m[3] \in AllVaults
    /\ script \in done => \A e \in AllVaults : <<Handler, "fees", e>> \in lists
    /\ running /\ Name = script =>
          /\ \A i \in DOMAIN todo : todo[i].op = "call" /\ todo[i].element \in AllVaults
          /\ \A e \in AllVaults : <<Handler, "fees", e>> \in lists \/ e \in Elements

\* An implementation in a container of vaults is the one a running script will swap.
VaultsOK ==
    /\ \A a \in DOMAIN chain : a.contract \in VaultKinds /\ a.proxy => chain[a].label \in vaults
    /\ \A c \in VaultKinds : \A i \in DOMAIN containers[c] : ~containers[c][i].proxy =>
          /\ running /\ Name \in vaults
          /\ \E j \in DOMAIN todo : todo[j].op = "overwrite"
                                    /\ todo[j].implementation = containers[c][i]
          /\ \A j \in DOMAIN containers[c] : ~containers[c][j].proxy => i = j
    /\ running => \A i \in DOMAIN todo :
          /\ todo[i].op = "deploy" /\ todo[i].at.contract \in VaultKinds =>
                /\ \A c \in VaultKinds : \A j \in DOMAIN containers[c] : containers[c][j].proxy
                /\ \E j \in DOMAIN todo : j > i /\ todo[j].op = "overwrite"
                                          /\ todo[j].implementation = todo[i].at
          /\ todo[i].op = "overwrite" =>
                /\ todo[i].proxy.proxy
                /\ \A j \in DOMAIN todo : todo[j].op = "overwrite" => i = j

\* What a constructor kept is what the containers and the configuration say.
KeptAs(x, word) ==
    \/ x = "GyroConfig" /\ Adopted(x) /\ word = Bound(x)
    \/ x \in Kept /\ There(x) /\ word = Bound(x)
    \/ x \in DOMAIN KeyScript /\ KeyScript[x] \in done /\ x \in DOMAIN config
       /\ word = config[x].value

KeptOK ==
    \A a \in DOMAIN chain : \A x \in DOMAIN chain[a].kept : KeptAs(x, chain[a].kept[x])

BaseInv == SinglesOK /\ NumbersOK /\ HistoryOK /\ NothingFrozen
SoundInv == /\ RevertsOK /\ PastOK /\ NeedsOK /\ GovernorsOK /\ FitsOK /\ PrintedOK
            /\ LeadsOK /\ BalancerOK /\ RegistriesAre /\ InitializeOK /\ RangesOK
            /\ ChecksOK /\ FeedsOK /\ FeesOK /\ VaultsOK /\ KeptOK
WiredInv == BaseInv /\ (torn = {} => SoundInv)

-----------------------------------------------------------------------------
(* The scripts and what they need.                                         *)

LEMMA RolesAre ==
    /\ DOMAIN Owner = DOMAIN Roles
    /\ \A k \in DOMAIN Roles :
          \/ k = "GYD_TOKEN" /\ Roles[k] = "GydToken" /\ Owner[k] = "gyd_token.proxy"
          \/ k = "VAULT_REGISTRY" /\ Roles[k] = "VaultRegistry"
             /\ Owner[k] = "vault_registry.proxy"
          \/ k = "ASSET_REGISTRY" /\ Roles[k] = "AssetRegistry"
             /\ Owner[k] = "asset_registry.proxy"
          \/ k = "RESERVE" /\ Roles[k] = "Reserve" /\ Owner[k] = "reserve.proxy"
          \/ k = "RESERVE_MANAGER" /\ Roles[k] = "ReserveManager"
             /\ Owner[k] = "reserve_manager.main"
          \/ k = "PAMM" /\ Roles[k] = "PrimaryAMMV1" /\ Owner[k] = "pamm.main"
          \/ k = "FEE_HANDLER" /\ Roles[k] = "StaticPercentageFeeHandler"
             /\ Owner[k] = "fee_handler.main"
          \/ k = "MOTHERBOARD" /\ Roles[k] = "Motherboard" /\ Owner[k] = "motherboard.proxy"
          \/ k = "STEWARDSHIP_INC" /\ Roles[k] = "ReserveStewardshipIncentives"
             /\ Owner[k] = "stewardship.main"
          \/ k = "GYD_RECOVERY" /\ Roles[k] = "GydRecovery" /\ Owner[k] = "gyd_recovery.main"
          \/ k = "ROOT_SAFETY_CHECK" /\ Roles[k] = "RootSafetyCheck"
             /\ Owner[k] = "safety.root"
BY DEF Roles, Owner

LEMMA NeedsAre ==
    /\ \A n \in ThroughGovernance : NeededBy(n, "governance_proxy.proxy")
    /\ \A n \in WithConfig : NeededBy(n, "config.proxy")
    /\ \A n \in {"stewardship.main", "gyd_recovery.main", "motherboard.main"} :
           NeededBy(n, "gyd_token.proxy")
    /\ \A n \in {"reserve_manager.main", "motherboard.main"} : NeededBy(n, "reserve.proxy")
    /\ \A n \in {"reserve_manager.main", "coinbase.main", "asset_registry.initialize",
                 "asset_registry.set_asset_ranges"} : NeededBy(n, "asset_registry.proxy")
    /\ \A n \in {"fee_handler.main"} \union vaults : NeededBy("vaults.set_fees", n)
    /\ NeededBy("reserve_manager.main", "vault_registry.proxy")
    /\ NeededBy("motherboard.main", "config.set_initial_config")
    /\ NeededBy("asset_registry.set_asset_ranges", "asset_registry.initialize")
BY DEF NeededBy, Needs

LEMMA MainnetVaults ==
    ASSUME ChainId = 1
    PROVE  vaults = {"V-fUSDC", "V-sDAI", "V-aUSDT", "V-ECLP-LUSD-crvUSD"}
BY DEF vaults, GenericSymbols, BalancerSymbols

LEMMA NeededAre ==
    ASSUME ChainId = 1, NEW name, NEW n, NeededBy(name, n)
    PROVE  n \in ScriptNames /\ n \notin AlwaysRevert
<1>1. \/ n \in vaults
      \/ n \in {"governance_proxy.proxy", "config.proxy", "gyd_token.proxy", "reserve.proxy",
                "asset_registry.proxy", "fee_handler.main", "vault_registry.proxy",
                "config.set_initial_config", "asset_registry.initialize"}
    BY DEF NeededBy, Needs
<1>2. n \in vaults => n \in ScriptNames /\ n \notin AlwaysRevert
    BY MainnetVaults DEF ScriptNames, AlwaysRevert
<1>3. n \notin vaults => n \in ScriptNames /\ n \notin AlwaysRevert
    BY <1>1 DEF ScriptNames, AlwaysRevert
<1>. QED  BY <1>2, <1>3

-----------------------------------------------------------------------------
(* Every step of every script fits it.                                     *)

DeployMay(name, c, g, keys, cs) ==
    /\ c \in {"ReserveManager", "RateManager", "ChainlinkPriceOracle", "CheckedPriceOracle",
              "StaticPercentageFeeHandler", "RootSafetyCheck", "ReserveSafetyManager",
              "VaultSafetyMode"} => name \in ThroughGovernance /\ g = Governance
    /\ c \in {"PrimaryAMMV1", "ReserveStewardshipIncentives", "GydRecovery"} => g = Multisig
    /\ c = "ProxyAdmin" => g = Deployer
    /\ c \in VaultKinds => name \in vaults
    /\ \A k \in DOMAIN Roles : Roles[k] = c /\ c \notin Upgradeable => name = Owner[k]
    /\ \A k \in keys : k \in DOMAIN KeyScript /\ NeededBy(name, KeyScript[k])
    /\ \A x \in cs : \/ x = "GyroConfig" /\ name \in WithConfig
                     \/ x \in Kept /\ There(x)

ProxyMay(name, c, g, label) ==
    /\ c \in {"GyroConfig", "VaultRegistry", "AssetRegistry", "Motherboard"} =>
           name \in ThroughGovernance /\ g = Governance
    /\ c \in {"GydToken", "Reserve"} => g = Multisig
    /\ c = "GovernanceProxy" => g = Deployer
    /\ c \in VaultKinds => name \in vaults /\ label \in vaults
    /\ \A k \in DOMAIN Roles : Roles[k] = c /\ c \in Upgradeable => name = Owner[k]

LEMMA DeployFitsWhen ==
    ASSUME NEW name, NEW c, NEW g, NEW keys, NEW cs, DeployMay(name, c, g, keys, cs)
    PROVE  /\ Fits(name, Deploy(c, g, keys, cs)) /\ ~Final(Deploy(c, g, keys, cs))
           /\ \A b : Makes(Deploy(c, g, keys, cs), b) <=> b = c /\ b \notin Upgradeable
           /\ Deploy(c, g, keys, cs).at = New(c)
<1>. DEFINE s == Deploy(c, g, keys, cs)
<1>1. /\ s.op = "deploy" /\ s.at = New(c) /\ s.governor = g /\ s.keys = keys
      /\ DOMAIN s.kept = cs /\ \A x \in cs : s.kept[x] = Bound(x)
    BY DEF Deploy
<1>2. New(c).contract = c /\ New(c).proxy = FALSE  BY DEF New, Address
<1>. HIDE DEF s
<1>3. \A b : Makes(s, b) <=> b = c /\ b \notin Upgradeable  BY <1>1, <1>2 DEF Makes
<1>4. MadeFits(name, s)
    <2>1. Governed(s.at) => s.governor = Governance /\ NeededBy(name, "governance_proxy.proxy")
        BY <1>1, <1>2, NeedsAre DEF Governed, DeployMay
    <2>2. OfMultisig(s.at) => s.governor = Multisig  BY <1>1, <1>2 DEF OfMultisig, DeployMay
    <2>3. OfDeployer(s.at) => s.governor = Deployer  BY <1>1, <1>2 DEF OfDeployer, DeployMay
    <2>4. \A k \in DOMAIN Roles : Makes(s, Roles[k]) => name = Owner[k]  BY <1>3 DEF DeployMay
    <2>. QED  BY <1>1, <1>2, <2>1, <2>2, <2>3, <2>4 DEF MadeFits, DeployMay
<1>5. DeployFits(name, s)  BY <1>1, <1>4, NeedsAre DEF DeployFits, DeployMay
<1>. QED  BY <1>1, <1>3, <1>5 DEF Fits, Final, s

LEMMA ProxyFitsWhen ==
    ASSUME NEW name, NEW impl, NEW c, impl.contract = c, NEW g, NEW label,
           ProxyMay(name, c, g, label)
    PROVE  /\ Fits(name, DeployProxy(impl, g, label)) /\ ~Final(DeployProxy(impl, g, label))
           /\ \A b : Makes(DeployProxy(impl, g, label), b) <=> b = c /\ b \in Upgradeable
           /\ DeployProxy(impl, g, label).at = NewProxy(c)
<1>. DEFINE s == DeployProxy(impl, g, label)
<1>1. s.op = "proxy" /\ s.at = NewProxy(c) /\ s.governor = g /\ s.label = label
    BY DEF DeployProxy
<1>2. NewProxy(c).contract = c /\ NewProxy(c).proxy = TRUE  BY DEF NewProxy, Address
<1>. HIDE DEF s
<1>3. \A b : Makes(s, b) <=> b = c /\ b \in Upgradeable  BY <1>1, <1>2 DEF Makes
<1>4. MadeFits(name, s)
    <2>1. Governed(s.at) => s.governor = Governance /\ NeededBy(name, "governance_proxy.proxy")
        BY <1>1, <1>2, NeedsAre DEF Governed, ProxyMay
    <2>2. OfMultisig(s.at) => s.governor = Multisig  BY <1>1, <1>2 DEF OfMultisig, ProxyMay
    <2>3. OfDeployer(s.at) => s.governor = Deployer  BY <1>1, <1>2 DEF OfDeployer, ProxyMay
    <2>4. \A k \in DOMAIN Roles : Makes(s, Roles[k]) => name = Owner[k]  BY <1>3 DEF ProxyMay
    <2>. QED  BY <1>1, <1>2, <2>1, <2>2, <2>3, <2>4 DEF MadeFits, ProxyMay
<1>. QED  BY <1>1, <1>2, <1>3, <1>4 DEF Fits, Final, ProxyFits, ProxyMay, s

\* The other kinds of steps.  None of them makes a contract.
LEMMA OthersFitWhen ==
    ASSUME NEW name
    PROVE  /\ \A k, w : /\ name \in ThroughGovernance \cap WithConfig
                        /\ k = "BALANCER_VAULT" => w = Outsider(k)
                        /\ k \in DOMAIN Roles => Owner[k] = name
                        => Fits(name, SetAddress(k, w))
           /\ \A k : k \notin DOMAIN Roles /\ k # "BALANCER_VAULT"
                     /\ name \in ThroughGovernance \cap WithConfig => Fits(name, SetUint(k))
           /\ \A l, n : /\ name \in ThroughGovernance /\ NeededBy(name, "asset_registry.proxy")
                        /\ name = IF l = "ranges" THEN "asset_registry.set_asset_ranges"
                                  ELSE "asset_registry.initialize"
                        => Fits(name, CallAsset(l, n))
           /\ \A b : (\A i \in DOMAIN b : b[i].list \notin {"checks", "fees"})
                     => Fits(name, PrintCalls(b))
           /\ name = "vault_price_oracle.generic" => Fits(name, Raise)
           /\ \A impl, p : name \in vaults => Fits(name, Overwrite(impl, p))
           /\ \A l, e : /\ name \in ThroughGovernance /\ l \in DOMAIN CallScript
                        /\ CallScript[l] = name /\ There(CallTarget[l])
                        => Fits(name, Call(Governance, Bound(CallTarget[l]), l, e))
           /\ \A by, t, l, e : l \in {"managers", "vaults"} /\ name \in AlwaysRevert
                        => Fits(name, Call(by, t, l, e))
           /\ \A o : name = "governance_proxy.proxy" /\ There("ProxyAdmin")
                     => Fits(name, TransferOwnership(Bound("ProxyAdmin"), o))
<1>1. ASSUME NEW k, NEW w, name \in ThroughGovernance \cap WithConfig,
             k = "BALANCER_VAULT" => w = Outsider(k), k \in DOMAIN Roles => Owner[k] = name
      PROVE  Fits(name, SetAddress(k, w))
    BY <1>1, NeedsAre DEF Fits, KeyFits, SetAddress, SetKeyOf, Governance
<1>2. ASSUME NEW k, name \in ThroughGovernance \cap WithConfig, k # "BALANCER_VAULT",
             k \notin DOMAIN Roles
      PROVE  Fits(name, SetUint(k))
    BY <1>2, NeedsAre DEF Fits, KeyFits, SetUint, SetKeyOf, Governance
<1>3. ASSUME NEW l, NEW n, name \in ThroughGovernance,
             NeededBy(name, "asset_registry.proxy"),
             name = IF l = "ranges" THEN "asset_registry.set_asset_ranges"
                    ELSE "asset_registry.initialize"
      PROVE  Fits(name, CallAsset(l, n))
    BY <1>3, NeedsAre DEF Fits, AssetFits, CallAsset, Governance
<1>4. ASSUME NEW b, \A i \in DOMAIN b : b[i].list \notin {"checks", "fees"}
      PROVE  Fits(name, PrintCalls(b))
    BY <1>4 DEF Fits, PrintFits, PrintCalls
<1>5. name = "vault_price_oracle.generic" => Fits(name, Raise)  BY DEF Fits, Raise
<1>6. ASSUME NEW impl, NEW p, name \in vaults PROVE Fits(name, Overwrite(impl, p))
    BY <1>6 DEF Fits, Overwrite
<1>7. ASSUME NEW l, NEW e, name \in ThroughGovernance, l \in DOMAIN CallScript,
             CallScript[l] = name, There(CallTarget[l])
      PROVE  Fits(name, Call(Governance, Bound(CallTarget[l]), l, e))
    BY <1>7, NeedsAre DEF Fits, CallFits, Call
<1>8. ASSUME NEW by, NEW t, NEW l, NEW e, l \in {"managers", "vaults"}, name \in AlwaysRevert
      PROVE  Fits(name, Call(by, t, l, e))
    BY <1>8 DEF Fits, CallFits, Call
<1>9. ASSUME NEW o, name = "governance_proxy.proxy", There("ProxyAdmin")
      PROVE  Fits(name, TransferOwnership(Bound("ProxyAdmin"), o))
    BY <1>9 DEF Fits, TransferOwnership
<1>. QED  BY <1>1, <1>2, <1>3, <1>4, <1>5, <1>6, <1>7, <1>8, <1>9

\* The steps of a script: each fits it, one that leaves nothing to do is the last,
\* and a script that as_singleton guards and that can be repeated deploys last.
Good(name, s) ==
    /\ IsSequence(s)
    /\ \A i \in DOMAIN s : Fits(name, s[i]) /\ (Final(s[i]) => i = Len(s))
    /\ name \in Once /\ s # <<>> => EndsMade(name, s)

FitAll(name, s) == IsSequence(s) /\ \A i \in DOMAIN s : Fits(name, s[i]) /\ ~Final(s[i])

LEMMA OnceAre ==
    /\ \A name \in Once : \E c \in DOMAIN Makers : name = Makers[c]
    /\ Once \cap (NotRepeatable \union
          {"governance_proxy.proxy", "config.proxy", "config.set_initial_config",
           "gyd_token.proxy", "vault_registry.proxy", "asset_registry.proxy",
           "asset_registry.set_asset_ranges", "reserve.proxy", "motherboard.main",
           "motherboard.proxy", "fee_handler.main", "stewardship.main", "gyd_recovery.main",
           "rate_manager.main", "rate_manager.atoken_provider",
           "rate_manager.set_rate_providers", "compound_rate_provider.main",
           "chainlink.set_feeds", "checked.initialize", "vault_price_oracle.g2clp",
           "vault_price_oracle.g3clp", "vault_price_oracle.eclp", "batch.initialize",
           "vaults.set_fees", "vaults.set_vaults"}) = {}
<1>1. \A name \in Once : \E c \in DOMAIN Makers : name = Makers[c]  BY DEF Once
<1>2. Once \cap NotRepeatable = {}  BY DEF Once
<1>3. \A c \in DOMAIN Makers : Makers[c] \in
          {"proxy_admin.main", "governance_proxy.main", "config.main", "gyd_token.main",
           "vault_registry.main", "asset_registry.main", "reserve.main",
           "reserve.reserve_reader", "reserve_manager.main", "pamm.main", "chainlink.main",
           "tellor.main", "coinbase.main", "checked.main", "vault_price_oracle.generic",
           "vault_price_oracle.cpmm", "batch.main", "safety.root",
           "safety.reserve_safety_manager", "safety.vault_safety_mode"}
    BY DEF Makers
<1>. QED  BY <1>1, <1>2, <1>3

LEMMA FitSingles ==
    ASSUME NEW name
    PROVE  /\ FitAll(name, <<>>)
           /\ \A a : Fits(name, a) /\ ~Final(a) => FitAll(name, <<a>>)
           /\ \A a, b : Fits(name, a) /\ ~Final(a) /\ Fits(name, b) /\ ~Final(b)
                        => FitAll(name, <<a, b>>)
           /\ \A a, b, c : /\ Fits(name, a) /\ ~Final(a) /\ Fits(name, b) /\ ~Final(b)
                           /\ Fits(name, c) /\ ~Final(c)
                           => FitAll(name, <<a, b, c>>)
<1>1. \A i : i \notin DOMAIN <<>>
    <2>. DEFINE s == <<>>
    <2>1. IsSequence(s) /\ Len(s) = 0  BY Singles
    <2>. HIDE DEF s
    <2>2. DOMAIN s = {}  BY <2>1, LengthOf
    <2>. QED  BY <2>2 DEF s
<1>2. FitAll(name, <<>>)  BY <1>1, Singles DEF FitAll
<1>3. ASSUME NEW a, Fits(name, a), ~Final(a) PROVE FitAll(name, <<a>>)
    <2>1. \A i \in DOMAIN <<a>> : <<a>>[i] = a  OBVIOUS
    <2>. QED  BY <1>3, <2>1, Singles DEF FitAll
<1>4. ASSUME NEW a, Fits(name, a), ~Final(a), NEW b, Fits(name, b), ~Final(b)
      PROVE  FitAll(name, <<a, b>>)
    <2>1. \A i \in DOMAIN <<a, b>> : <<a, b>>[i] \in {a, b}  OBVIOUS
    <2>. QED  BY <1>4, <2>1, Singles DEF FitAll
<1>5. ASSUME NEW a, Fits(name, a), ~Final(a), NEW b, Fits(name, b), ~Final(b),
             NEW c, Fits(name, c), ~Final(c)
      PROVE  FitAll(name, <<a, b, c>>)
    <2>1. \A i \in DOMAIN <<a, b, c>> : <<a, b, c>>[i] \in {a, b, c}  OBVIOUS
    <2>. QED  BY <1>5, <2>1, Singles DEF FitAll
<1>. QED  BY <1>2, <1>3, <1>4, <1>5

LEMMA FitJoined ==
    ASSUME NEW name, NEW s, NEW t, FitAll(name, s), FitAll(name, t)
    PROVE  FitAll(name, s \o t)
<1>1. IsSequence(s \o t)  BY Joined DEF FitAll
<1>2. ASSUME NEW i \in DOMAIN (s \o t)
      PROVE  Fits(name, (s \o t)[i]) /\ ~Final((s \o t)[i])
    <2>. DEFINE x == (s \o t)[i]
    <2>1. (\E j \in DOMAIN s : x = s[j]) \/ (\E j \in DOMAIN t : x = t[j])
        BY Joined DEF FitAll
    <2>. HIDE DEF x
    <2>2. Fits(name, x) /\ ~Final(x)  BY <2>1 DEF FitAll
    <2>. QED  BY <2>2 DEF x
<1>. QED  BY <1>1, <1>2 DEF FitAll

LEMMA FitIsGood ==
    ASSUME NEW name, name \notin Once, NEW s, FitAll(name, s)
    PROVE  Good(name, s)
BY DEF Good, FitAll

\* A last step at the end.
LEMMA FitThenLast ==
    ASSUME NEW name, name \notin Once, NEW s, FitAll(name, s), NEW a, Fits(name, a)
    PROVE  Good(name, s \o <<a>>)
<1>. DEFINE t == <<a>>
            u == s \o t
<1>1. IsSequence(s) /\ IsSequence(t) /\ Len(t) = 1 /\ t[1] = a
    BY Singles DEF FitAll
<1>. HIDE DEF t, u
<1>2. /\ IsSequence(u) /\ DOMAIN u = 1..(Len(s) + 1)
      /\ \A i \in 1..(Len(s) + 1) : u[i] = IF i <= Len(s) THEN s[i] ELSE t[i - Len(s)]
    BY <1>1, JoinedAt DEF u
<1>3. Len(s) \in Nat /\ DOMAIN s = 1..Len(s) /\ Len(u) \in Nat /\ DOMAIN u = 1..Len(u)
    BY <1>1, <1>2, LengthOf
<1>4. Len(u) = Len(s) + 1  BY <1>2, <1>3
<1>5. ASSUME NEW i \in DOMAIN u PROVE Fits(name, u[i]) /\ (Final(u[i]) => i = Len(u))
    <2>1. CASE i <= Len(s)
        <3>1. i \in DOMAIN s /\ u[i] = s[i]  BY <1>2, <1>3, <2>1
        <3>. QED  BY <3>1 DEF FitAll
    <2>2. CASE ~(i <= Len(s))
        <3>1. i = Len(s) + 1 /\ i - Len(s) = 1  BY <1>2, <1>3, <2>2
        <3>2. u[i] = t[1]  BY <1>2, <2>2, <3>1
        <3>. QED  BY <1>1, <1>4, <3>1, <3>2
    <2>. QED  BY <2>1, <2>2
<1>. QED  BY <1>2, <1>5 DEF Good, u, t

\* A script that does nothing but deploy.
LEMMA DeployAlone ==
    ASSUME NEW name, NEW c, NEW g, NEW keys, NEW cs, DeployMay(name, c, g, keys, cs),
           name \in Once => c \in DOMAIN Makers /\ Makers[c] = name
    PROVE  Good(name, <<Deploy(c, g, keys, cs)>>)
<1>. DEFINE a == Deploy(c, g, keys, cs)
            s == <<a>>
<1>1. Fits(name, a) /\ ~Final(a)  BY DeployFitsWhen
<1>2. a.op = "deploy" /\ a.at.contract = c  BY DEF Deploy, New, Address
<1>. HIDE DEF a
<1>3. FitAll(name, s)  BY <1>1, FitSingles
<1>4. Len(s) = 1 /\ s[1] = a  OBVIOUS
<1>. HIDE DEF s
<1>5. name \in Once => EndsMade(name, s)  BY <1>2, <1>4 DEF EndsMade
<1>. QED  BY <1>3, <1>5 DEF Good, FitAll, a, s

LEMMA GoodDeploys ==
    /\ Good("proxy_admin.main", proxy_admin_main.steps)
    /\ Good("governance_proxy.main", governance_proxy_main.steps)
    /\ Good("config.main", config_main.steps)
    /\ Good("gyd_token.main", gyd_token_main.steps)
    /\ Good("vault_registry.main", vault_registry_main.steps)
    /\ Good("asset_registry.main", asset_registry_main.steps)
    /\ Good("reserve.main", reserve_main.steps)
    /\ Handed("reserve.reserve_reader") => Good("reserve.reserve_reader", reserve_reader.steps)
    /\ Good("motherboard.main", motherboard_main.steps)
    /\ Good("rate_manager.main", rate_manager_main.steps)
    /\ Good("rate_manager.atoken_provider", atoken_provider.steps)
    /\ Good("compound_rate_provider.main", compound_rate_provider_main.steps)
    /\ Good("chainlink.main", chainlink_main.steps)
    /\ Good("tellor.main", tellor_main.steps)
    /\ Good("coinbase.main", coinbase_main.steps)
    /\ Good("vault_price_oracle.cpmm", vault_price_oracle_cpmm.steps)
    /\ Good("vault_price_oracle.g2clp", vault_price_oracle_g2clp.steps)
    /\ Good("vault_price_oracle.g3clp", vault_price_oracle_g3clp.steps)
    /\ Good("vault_price_oracle.eclp", vault_price_oracle_eclp.steps)
    /\ Handed("batch.main") => Good("batch.main", batch_main.steps)
    /\ Good("safety.reserve_safety_manager", reserve_safety_manager.steps)
    /\ Good("safety.vault_safety_mode", vault_safety_mode.steps)
<1>1. Good("proxy_admin.main", proxy_admin_main.steps)
    <2>1. DeployMay("proxy_admin.main", "ProxyAdmin", Deployer, {},
                    {})
        BY RolesAre DEF DeployMay, VaultKinds, Upgradeable
    <2>2. "ProxyAdmin" \in DOMAIN Makers /\ Makers["ProxyAdmin"] = "proxy_admin.main"  BY DEF Makers
    <2>. QED  BY <2>1, <2>2, DeployAlone DEF proxy_admin_main, Steps
<1>2. Good("governance_proxy.main", governance_proxy_main.steps)
    <2>1. DeployMay("governance_proxy.main", "GovernanceProxy", NoAddress, {},
                    {})
        BY RolesAre DEF DeployMay, VaultKinds, Upgradeable
    <2>2. "GovernanceProxy" \in DOMAIN Makers /\ Makers["GovernanceProxy"] = "governance_proxy.main"  BY DEF Makers
    <2>. QED  BY <2>1, <2>2, DeployAlone DEF governance_proxy_main, Steps
<1>3. Good("config.main", config_main.steps)
    <2>1. DeployMay("config.main", "GyroConfig", NoAddress, {},
                    {})
        BY RolesAre DEF DeployMay, VaultKinds, Upgradeable
    <2>2. "GyroConfig" \in DOMAIN Makers /\ Makers["GyroConfig"] = "config.main"  BY DEF Makers
    <2>. QED  BY <2>1, <2>2, DeployAlone DEF config_main, Steps
<1>4. Good("gyd_token.main", gyd_token_main.steps)
    <2>1. DeployMay("gyd_token.main", "GydToken", NoAddress, {},
                    {})
        BY RolesAre DEF DeployMay, VaultKinds, Upgradeable
    <2>2. "GydToken" \in DOMAIN Makers /\ Makers["GydToken"] = "gyd_token.main"  BY DEF Makers
    <2>. QED  BY <2>1, <2>2, DeployAlone DEF gyd_token_main, Steps
<1>5. Good("vault_registry.main", vault_registry_main.steps)
    <2>1. DeployMay("vault_registry.main", "VaultRegistry", NoAddress, {},
                    {"GyroConfig"})
        BY RolesAre DEF DeployMay, VaultKinds, Upgradeable, WithConfig
    <2>2. "VaultRegistry" \in DOMAIN Makers /\ Makers["VaultRegistry"] = "vault_registry.main"  BY DEF Makers
    <2>. QED  BY <2>1, <2>2, DeployAlone DEF vault_registry_main, Steps
<1>6. Good("asset_registry.main", asset_registry_main.steps)
    <2>1. DeployMay("asset_registry.main", "AssetRegistry", NoAddress, {},
                    {"GyroConfig"})
        BY RolesAre DEF DeployMay, VaultKinds, Upgradeable, WithConfig
    <2>2. "AssetRegistry" \in DOMAIN Makers /\ Makers["AssetRegistry"] = "asset_registry.main"  BY DEF Makers
    <2>. QED  BY <2>1, <2>2, DeployAlone DEF asset_registry_main, Steps
<1>7. Good("reserve.main", reserve_main.steps)
    <2>1. DeployMay("reserve.main", "Reserve", NoAddress, {},
                    {})
        BY RolesAre DEF DeployMay, VaultKinds, Upgradeable
    <2>2. "Reserve" \in DOMAIN Makers /\ Makers["Reserve"] = "reserve.main"  BY DEF Makers
    <2>. QED  BY <2>1, <2>2, DeployAlone DEF reserve_main, Steps
<1>8. ASSUME Handed("reserve.reserve_reader") PROVE Good("reserve.reserve_reader", reserve_reader.steps)
    <2>1. DeployMay("reserve.reserve_reader", "ReserveSystemRead", NoAddress, {},
                    {"ReserveManager", "PrimaryAMMV1"})
        BY <1>8, RolesAre DEF DeployMay, VaultKinds, Upgradeable, Handed, Hands, Kept
    <2>2. "ReserveSystemRead" \in DOMAIN Makers /\ Makers["ReserveSystemRead"] = "reserve.reserve_reader"  BY DEF Makers
    <2>. QED  BY <2>1, <2>2, DeployAlone DEF reserve_reader, Steps
<1>9. Good("motherboard.main", motherboard_main.steps)
    <2>1. DeployMay("motherboard.main", "Motherboard", NoAddress, {"GYD_TOKEN", "RESERVE", "BALANCER_VAULT"},
                    {"GyroConfig"})
        BY RolesAre, NeedsAre DEF DeployMay, VaultKinds, Upgradeable, WithConfig, KeyScript
    <2>2. "motherboard.main" \notin Once  BY OnceAre
    <2>. QED  BY <2>1, <2>2, DeployAlone DEF motherboard_main, Steps
<1>10. Good("rate_manager.main", rate_manager_main.steps)
    <2>1. DeployMay("rate_manager.main", "RateManager", Governance, {},
                    {})
        BY RolesAre DEF DeployMay, VaultKinds, Upgradeable, ThroughGovernance
    <2>2. "rate_manager.main" \notin Once  BY OnceAre
    <2>. QED  BY <2>1, <2>2, DeployAlone DEF rate_manager_main, Steps
<1>11. Good("rate_manager.atoken_provider", atoken_provider.steps)
    <2>1. DeployMay("rate_manager.atoken_provider", "ConstantRateProvider", NoAddress, {},
                    {})
        BY RolesAre DEF DeployMay, VaultKinds, Upgradeable
    <2>2. "rate_manager.atoken_provider" \notin Once  BY OnceAre
    <2>. QED  BY <2>1, <2>2, DeployAlone DEF atoken_provider, Steps
<1>12. Good("compound_rate_provider.main", compound_rate_provider_main.steps)
    <2>1. DeployMay("compound_rate_provider.main", "CompoundV2RateProvider", NoAddress, {},
                    {})
        BY RolesAre DEF DeployMay, VaultKinds, Upgradeable
    <2>2. "compound_rate_provider.main" \notin Once  BY OnceAre
    <2>. QED  BY <2>1, <2>2, DeployAlone DEF compound_rate_provider_main, Steps
<1>13. Good("chainlink.main", chainlink_main.steps)
    <2>1. DeployMay("chainlink.main", "ChainlinkPriceOracle", Governance, {},
                    {})
        BY RolesAre DEF DeployMay, VaultKinds, Upgradeable, ThroughGovernance
    <2>2. "ChainlinkPriceOracle" \in DOMAIN Makers /\ Makers["ChainlinkPriceOracle"] = "chainlink.main"  BY DEF Makers
    <2>. QED  BY <2>1, <2>2, DeployAlone DEF chainlink_main, Steps
<1>14. Good("tellor.main", tellor_main.steps)
    <2>1. DeployMay("tellor.main", "TellorOracle", NoAddress, {},
                    {})
        BY RolesAre DEF DeployMay, VaultKinds, Upgradeable
    <2>2. "TellorOracle" \in DOMAIN Makers /\ Makers["TellorOracle"] = "tellor.main"  BY DEF Makers
    <2>. QED  BY <2>1, <2>2, DeployAlone DEF tellor_main, Steps
<1>15. Good("coinbase.main", coinbase_main.steps)
    <2>1. DeployMay("coinbase.main", "TrustedSignerPriceOracle", NoAddress, {"ASSET_REGISTRY"},
                    {})
        BY RolesAre, NeedsAre DEF DeployMay, VaultKinds, Upgradeable, KeyScript
    <2>2. "TrustedSignerPriceOracle" \in DOMAIN Makers /\ Makers["TrustedSignerPriceOracle"] = "coinbase.main"  BY DEF Makers
    <2>. QED  BY <2>1, <2>2, DeployAlone DEF coinbase_main, Steps
<1>16. Good("vault_price_oracle.cpmm", vault_price_oracle_cpmm.steps)
    <2>1. DeployMay("vault_price_oracle.cpmm", "BalancerCPMMPriceOracle", NoAddress, {},
                    {})
        BY RolesAre DEF DeployMay, VaultKinds, Upgradeable
    <2>2. "BalancerCPMMPriceOracle" \in DOMAIN Makers /\ Makers["BalancerCPMMPriceOracle"] = "vault_price_oracle.cpmm"  BY DEF Makers
    <2>. QED  BY <2>1, <2>2, DeployAlone DEF vault_price_oracle_cpmm, Steps
<1>17. Good("vault_price_oracle.g2clp", vault_price_oracle_g2clp.steps)
    <2>1. DeployMay("vault_price_oracle.g2clp", "Balancer2CLPPriceOracle", NoAddress, {},
                    {})
        BY RolesAre DEF DeployMay, VaultKinds, Upgradeable
    <2>2. "vault_price_oracle.g2clp" \notin Once  BY OnceAre
    <2>. QED  BY <2>1, <2>2, DeployAlone DEF vault_price_oracle_g2clp, Steps
<1>18. Good("vault_price_oracle.g3clp", vault_price_oracle_g3clp.steps)
    <2>1. DeployMay("vault_price_oracle.g3clp", "Balancer3CLPPriceOracle", NoAddress, {},
                    {})
        BY RolesAre DEF DeployMay, VaultKinds, Upgradeable
    <2>2. "vault_price_oracle.g3clp" \notin Once  BY OnceAre
    <2>. QED  BY <2>1, <2>2, DeployAlone DEF vault_price_oracle_g3clp, Steps
<1>19. Good("vault_price_oracle.eclp", vault_price_oracle_eclp.steps)
    <2>1. DeployMay("vault_price_oracle.eclp", "BalancerECLPPriceOracle", NoAddress, {},
                    {})
        BY RolesAre DEF DeployMay, VaultKinds, Upgradeable
    <2>2. "vault_price_oracle.eclp" \notin Once  BY OnceAre
    <2>. QED  BY <2>1, <2>2, DeployAlone DEF vault_price_oracle_eclp, Steps
<1>20. ASSUME Handed("batch.main") PROVE Good("batch.main", batch_main.steps)
    <2>1. DeployMay("batch.main", "BatchVaultPriceOracle", Multisig, {},
                    {"CheckedPriceOracle"})
        BY <1>20, RolesAre DEF DeployMay, VaultKinds, Upgradeable, Handed, Hands, Kept
    <2>2. "BatchVaultPriceOracle" \in DOMAIN Makers /\ Makers["BatchVaultPriceOracle"] = "batch.main"  BY DEF Makers
    <2>. QED  BY <2>1, <2>2, DeployAlone DEF batch_main, Steps
<1>21. Good("safety.reserve_safety_manager", reserve_safety_manager.steps)
    <2>1. DeployMay("safety.reserve_safety_manager", "ReserveSafetyManager", Governance, {},
                    {})
        BY RolesAre DEF DeployMay, VaultKinds, Upgradeable, ThroughGovernance
    <2>2. "ReserveSafetyManager" \in DOMAIN Makers /\ Makers["ReserveSafetyManager"] = "safety.reserve_safety_manager"  BY DEF Makers
    <2>. QED  BY <2>1, <2>2, DeployAlone DEF reserve_safety_manager, Steps
<1>22. Good("safety.vault_safety_mode", vault_safety_mode.steps)
    <2>1. DeployMay("safety.vault_safety_mode", "VaultSafetyMode", Governance, {},
                    {"GyroConfig"})
        BY RolesAre DEF DeployMay, VaultKinds, Upgradeable, ThroughGovernance, WithConfig
    <2>2. "VaultSafetyMode" \in DOMAIN Makers /\ Makers["VaultSafetyMode"] = "safety.vault_safety_mode"  BY DEF Makers
    <2>. QED  BY <2>1, <2>2, DeployAlone DEF vault_safety_mode, Steps
<1>. QED  BY <1>1, <1>2, <1>3, <1>4, <1>5, <1>6, <1>7, <1>8, <1>9, <1>10, <1>11, <1>12, <1>13, <1>14, <1>15, <1>16, <1>17, <1>18, <1>19, <1>20, <1>21, <1>22

\* The steps of a script that owns a key: what it makes comes before the step that sets
\* the key to it.
Points(s, k) ==
    /\ \E i \in DOMAIN s : s[i].op = "setKey" /\ s[i].key = k
    /\ \E j \in DOMAIN s : Makes(s[j], Roles[k])
    /\ \A i, j \in DOMAIN s :
          s[i].op = "setKey" /\ s[i].key = k /\ Makes(s[j], Roles[k]) =>
              j < i /\ s[i].word = s[j].at

LEMMA PointsPair ==
    ASSUME NEW k, NEW a, NEW b, Makes(a, Roles[k]), b.op = "setKey", b.key = k,
           b.word = a.at
    PROVE  Points(<<a, b>>, k)
<1>1. a.op # "setKey" /\ ~Makes(b, Roles[k])  BY DEF Makes
<1>2. DOMAIN <<a, b>> = {1, 2} /\ <<a, b>>[1] = a /\ <<a, b>>[2] = b
    <2>1. 1..2 = {1, 2}  OBVIOUS
    <2>. QED  BY <2>1
<1>. DEFINE s == <<a, b>>
<1>3. DOMAIN s = {1, 2} /\ s[1] = a /\ s[2] = b  BY <1>2
<1>. HIDE DEF s
<1>4. ASSUME NEW i \in DOMAIN s, NEW j \in DOMAIN s, s[i].op = "setKey", Makes(s[j], Roles[k])
      PROVE  i = 2 /\ j = 1
    BY <1>1, <1>3, <1>4
<1>5. /\ 2 \in DOMAIN s /\ s[2].op = "setKey" /\ s[2].key = k
      /\ 1 \in DOMAIN s /\ Makes(s[1], Roles[k])
    BY <1>3
<1>6. 1 < 2 /\ s[2].word = s[1].at  BY <1>3
<1>. QED  BY <1>4, <1>5, <1>6 DEF Points, s

LEMMA PointsMore ==
    ASSUME NEW k, NEW s, NEW t, IsSequence(s), IsSequence(t), Points(s, k),
           \A i \in DOMAIN t : ~(t[i].op = "setKey" /\ t[i].key = k) /\ ~Makes(t[i], Roles[k])
    PROVE  Points(s \o t, k)
<1>. DEFINE u == s \o t
<1>1. /\ DOMAIN u = 1..(Len(s) + Len(t))
      /\ \A i \in 1..(Len(s) + Len(t)) : u[i] = IF i <= Len(s) THEN s[i] ELSE t[i - Len(s)]
    BY JoinedAt
<1>2. Len(s) \in Nat /\ DOMAIN s = 1..Len(s) /\ Len(t) \in Nat /\ DOMAIN t = 1..Len(t)
    BY LengthOf
<1>. HIDE DEF u
<1>3. \A i \in DOMAIN s : i \in DOMAIN u /\ u[i] = s[i]  BY <1>1, <1>2
<1>4. ASSUME NEW i \in DOMAIN u
      PROVE  \/ i \in DOMAIN s /\ u[i] = s[i]
             \/ ~(u[i].op = "setKey" /\ u[i].key = k) /\ ~Makes(u[i], Roles[k])
    <2>1. CASE i <= Len(s)  BY <1>1, <1>2, <2>1
    <2>2. CASE ~(i <= Len(s))
        <3>1. i - Len(s) \in DOMAIN t /\ u[i] = t[i - Len(s)]  BY <1>1, <1>2, <2>2
        <3>. QED  BY <3>1
    <2>. QED  BY <2>1, <2>2
<1>5. \E i \in DOMAIN u : u[i].op = "setKey" /\ u[i].key = k  BY <1>3 DEF Points
<1>6. \E j \in DOMAIN u : Makes(u[j], Roles[k])  BY <1>3 DEF Points
<1>7. \A i, j \in DOMAIN u :
          u[i].op = "setKey" /\ u[i].key = k /\ Makes(u[j], Roles[k]) =>
              j < i /\ u[i].word = u[j].at
    BY <1>4 DEF Points
<1>. QED  BY <1>5, <1>6, <1>7 DEF Points, u

\* The two ways a script makes a contract and sets its key.
LEMMA DeployPair ==
    ASSUME NEW name, NEW k \in DOMAIN Roles, Owner[k] = name, Roles[k] \notin Upgradeable,
           NEW g, NEW keys, NEW cs, DeployMay(name, Roles[k], g, keys, cs),
           name \in ThroughGovernance \cap WithConfig
    PROVE  /\ IsSequence(DeployAndSetKey(Roles[k], g, keys, cs, k))
           /\ FitAll(name, DeployAndSetKey(Roles[k], g, keys, cs, k))
           /\ Points(DeployAndSetKey(Roles[k], g, keys, cs, k), k)
<1>. DEFINE c == Roles[k]
            a == Deploy(c, g, keys, cs)
            b == SetAddress(k, New(c))
<1>1. Fits(name, a) /\ ~Final(a) /\ Makes(a, c) /\ a.at = New(c)  BY DeployFitsWhen
<1>2. b.op = "setKey" /\ b.key = k /\ b.word = New(c)  BY DEF SetAddress, SetKeyOf
<1>3. ~Final(b)  BY <1>2 DEF Final
<1>4. Fits(name, b)  BY OthersFitWhen, RolesAre
<1>5. DeployAndSetKey(c, g, keys, cs, k) = <<a, b>>  BY DEF DeployAndSetKey
<1>. HIDE DEF a, b, c
<1>6. FitAll(name, <<a, b>>)  BY <1>1, <1>3, <1>4, FitSingles
<1>7. Points(<<a, b>>, k)  BY <1>1, <1>2, PointsPair DEF c
<1>. QED  BY <1>5, <1>6, <1>7 DEF FitAll, c

LEMMA ProxyPair ==
    ASSUME NEW name, NEW k \in DOMAIN Roles, Owner[k] = name, Roles[k] \in Upgradeable,
           NEW impl, impl.contract = Roles[k], NEW g, NEW label, ProxyMay(name, Roles[k], g, label),
           name \in ThroughGovernance \cap WithConfig
    PROVE  /\ IsSequence(deploy_proxy(impl, g, k, label, FALSE))
           /\ FitAll(name, deploy_proxy(impl, g, k, label, FALSE))
           /\ Points(deploy_proxy(impl, g, k, label, FALSE), k)
<1>. DEFINE c == Roles[k]
            a == DeployProxy(impl, g, label)
            b == SetAddress(k, NewProxy(c))
<1>0. impl.contract = c /\ ProxyMay(name, c, g, label) /\ c \in Upgradeable  OBVIOUS
<1>. HIDE DEF c
<1>1. Fits(name, a) /\ ~Final(a) /\ Makes(a, c) /\ a.at = NewProxy(c)
    BY <1>0, ProxyFitsWhen
<1>2. b.op = "setKey" /\ b.key = k /\ b.word = NewProxy(c)  BY DEF SetAddress, SetKeyOf
<1>3. ~Final(b)  BY <1>2 DEF Final
<1>4. Fits(name, b)  BY OthersFitWhen, RolesAre
<1>5. deploy_proxy(impl, g, k, label, FALSE) = <<a, b>>
    BY <1>0, ProxyScript DEF AddressKeys
<1>. HIDE DEF a, b
<1>6. FitAll(name, <<a, b>>)  BY <1>1, <1>3, <1>4, FitSingles
<1>7. Points(<<a, b>>, k)  BY <1>1, <1>2, PointsPair DEF c
<1>. QED  BY <1>5, <1>6, <1>7 DEF FitAll

LEMMA EmptyThen ==
    ASSUME NEW s, IsSequence(s)
    PROVE  <<>> \o s = s
BY DEF IsSequence

LEMMA HandedContract ==
    ASSUME ContainersOK, NEW name, Handed(name), NEW c, <<name, c>> \in Hands
    PROVE  There(c) /\ Bound(c).contract = c
<1>1. There(c)  BY DEF Handed
<1>2. c \in Contracts  BY DEF Hands, Contracts
<1>. HIDE DEF Contracts
<1>. QED  BY <1>1, <1>2, BoundOf DEF There

\* Numbers that a script sets after its key.
LEMMA UintsFit ==
    ASSUME NEW name, name \in ThroughGovernance \cap WithConfig, NEW a, NEW b, NEW c,
           {a, b, c} \cap (DOMAIN Roles \union {"BALANCER_VAULT"}) = {}
    PROVE  /\ FitAll(name, <<SetUint(a), SetUint(b), SetUint(c)>>)
           /\ FitAll(name, <<SetUint(a), SetUint(b)>>)
           /\ \A k \in DOMAIN Roles :
                 /\ \A i \in DOMAIN <<SetUint(a), SetUint(b), SetUint(c)>> :
                       LET x == <<SetUint(a), SetUint(b), SetUint(c)>>[i] IN
                       ~(x.op = "setKey" /\ x.key = k) /\ ~Makes(x, Roles[k])
                 /\ \A i \in DOMAIN <<SetUint(a), SetUint(b)>> :
                       LET x == <<SetUint(a), SetUint(b)>>[i] IN
                       ~(x.op = "setKey" /\ x.key = k) /\ ~Makes(x, Roles[k])
<1>1. ASSUME NEW x \in {a, b, c}
      PROVE  /\ Fits(name, SetUint(x)) /\ ~Final(SetUint(x))
             /\ \A k \in DOMAIN Roles :
                   ~(SetUint(x).op = "setKey" /\ SetUint(x).key = k) /\ ~Makes(SetUint(x), Roles[k])
    <2>1. SetUint(x).op = "setKey" /\ SetUint(x).key = x  BY DEF SetUint, SetKeyOf
    <2>2. Fits(name, SetUint(x))  BY OthersFitWhen
    <2>. QED  BY <2>1, <2>2 DEF Final, Makes
<1>. DEFINE A == SetUint(a)
            B == SetUint(b)
            C == SetUint(c)
<1>2. /\ Fits(name, A) /\ Fits(name, B) /\ Fits(name, C) /\ ~Final(A) /\ ~Final(B) /\ ~Final(C)
      /\ \A k \in DOMAIN Roles : \A x \in {A, B, C} :
              ~(x.op = "setKey" /\ x.key = k) /\ ~Makes(x, Roles[k])
    BY <1>1
<1>. HIDE DEF A, B, C
<1>3. FitAll(name, <<A, B, C>>) /\ FitAll(name, <<A, B>>)  BY <1>2, FitSingles
<1>4. \A i \in DOMAIN <<A, B, C>> : <<A, B, C>>[i] \in {A, B, C}  OBVIOUS
<1>5. \A i \in DOMAIN <<A, B>> : <<A, B>>[i] \in {A, B, C}  OBVIOUS
<1>. QED  BY <1>2, <1>3, <1>4, <1>5 DEF A, B, C

LEMMA GoodPairs ==
    ASSUME ChainId = 1
    PROVE  /\ Good("reserve_manager.main", reserve_manager_main.steps) /\ Points(reserve_manager_main.steps, "RESERVE_MANAGER")
           /\ Good("pamm.main", pamm_main.steps) /\ Points(pamm_main.steps, "PAMM")
           /\ Good("fee_handler.main", fee_handler_main.steps) /\ Points(fee_handler_main.steps, "FEE_HANDLER")
           /\ Good("safety.root", safety_root.steps) /\ Points(safety_root.steps, "ROOT_SAFETY_CHECK")
           /\ Good("stewardship.main", stewardship_main.steps) /\ Points(stewardship_main.steps, "STEWARDSHIP_INC")
           /\ Good("gyd_recovery.main", gyd_recovery_main.steps) /\ Points(gyd_recovery_main.steps, "GYD_RECOVERY")
<1>1. Good("reserve_manager.main", reserve_manager_main.steps) /\ Points(reserve_manager_main.steps, "RESERVE_MANAGER")
    <2>. DEFINE p == DeployAndSetKey("ReserveManager", Governance, {"VAULT_REGISTRY", "ASSET_REGISTRY", "RESERVE"}, {"GyroConfig"}, "RESERVE_MANAGER")
    <2>1. /\ "RESERVE_MANAGER" \in DOMAIN Roles /\ Roles["RESERVE_MANAGER"] = "ReserveManager" /\ Owner["RESERVE_MANAGER"] = "reserve_manager.main"
          /\ "ReserveManager" \notin Upgradeable /\ "reserve_manager.main" \in ThroughGovernance \cap WithConfig
        BY DEF Roles, Owner, Upgradeable, ThroughGovernance, WithConfig
    <2>2. DeployMay("reserve_manager.main", "ReserveManager", Governance, {"VAULT_REGISTRY", "ASSET_REGISTRY", "RESERVE"}, {"GyroConfig"})
        BY RolesAre, NeedsAre DEF DeployMay, VaultKinds, ThroughGovernance, WithConfig, KeyScript
    <2>3. IsSequence(p) /\ FitAll("reserve_manager.main", p) /\ Points(p, "RESERVE_MANAGER")  BY <2>1, <2>2, DeployPair
    <2>4. reserve_manager_main.steps = p  BY DEF reserve_manager_main, Steps
    <2>. HIDE DEF p
    <2>5. "reserve_manager.main" \notin Once  BY OnceAre DEF NotRepeatable
    <2>. QED  BY <2>3, <2>4, <2>5, FitIsGood
<1>2. Good("pamm.main", pamm_main.steps) /\ Points(pamm_main.steps, "PAMM")
    <2>. DEFINE p == DeployAndSetKey("PrimaryAMMV1", Multisig, {}, {"GyroConfig"}, "PAMM")
    <2>1. /\ "PAMM" \in DOMAIN Roles /\ Roles["PAMM"] = "PrimaryAMMV1" /\ Owner["PAMM"] = "pamm.main"
          /\ "PrimaryAMMV1" \notin Upgradeable /\ "pamm.main" \in ThroughGovernance \cap WithConfig
        BY DEF Roles, Owner, Upgradeable, ThroughGovernance, WithConfig
    <2>2. DeployMay("pamm.main", "PrimaryAMMV1", Multisig, {}, {"GyroConfig"})
        BY RolesAre DEF DeployMay, VaultKinds, ThroughGovernance, WithConfig
    <2>3. IsSequence(p) /\ FitAll("pamm.main", p) /\ Points(p, "PAMM")  BY <2>1, <2>2, DeployPair
    <2>4. pamm_main.steps = p  BY DEF pamm_main, Steps
    <2>. HIDE DEF p
    <2>5. "pamm.main" \notin Once  BY OnceAre DEF NotRepeatable
    <2>. QED  BY <2>3, <2>4, <2>5, FitIsGood
<1>3. Good("fee_handler.main", fee_handler_main.steps) /\ Points(fee_handler_main.steps, "FEE_HANDLER")
    <2>. DEFINE p == DeployAndSetKey("StaticPercentageFeeHandler", Governance, {}, {}, "FEE_HANDLER")
    <2>1. /\ "FEE_HANDLER" \in DOMAIN Roles /\ Roles["FEE_HANDLER"] = "StaticPercentageFeeHandler" /\ Owner["FEE_HANDLER"] = "fee_handler.main"
          /\ "StaticPercentageFeeHandler" \notin Upgradeable /\ "fee_handler.main" \in ThroughGovernance \cap WithConfig
        BY DEF Roles, Owner, Upgradeable, ThroughGovernance, WithConfig
    <2>2. DeployMay("fee_handler.main", "StaticPercentageFeeHandler", Governance, {}, {})
        BY RolesAre DEF DeployMay, VaultKinds, ThroughGovernance, WithConfig
    <2>3. IsSequence(p) /\ FitAll("fee_handler.main", p) /\ Points(p, "FEE_HANDLER")  BY <2>1, <2>2, DeployPair
    <2>4. fee_handler_main.steps = p  BY DEF fee_handler_main, Steps
    <2>. HIDE DEF p
    <2>5. "fee_handler.main" \notin Once  BY OnceAre DEF NotRepeatable
    <2>. QED  BY <2>3, <2>4, <2>5, FitIsGood
<1>4. Good("safety.root", safety_root.steps) /\ Points(safety_root.steps, "ROOT_SAFETY_CHECK")
    <2>. DEFINE p == DeployAndSetKey("RootSafetyCheck", Governance, {}, {"GyroConfig"}, "ROOT_SAFETY_CHECK")
    <2>1. /\ "ROOT_SAFETY_CHECK" \in DOMAIN Roles /\ Roles["ROOT_SAFETY_CHECK"] = "RootSafetyCheck" /\ Owner["ROOT_SAFETY_CHECK"] = "safety.root"
          /\ "RootSafetyCheck" \notin Upgradeable /\ "safety.root" \in ThroughGovernance \cap WithConfig
        BY DEF Roles, Owner, Upgradeable, ThroughGovernance, WithConfig
    <2>2. DeployMay("safety.root", "RootSafetyCheck", Governance, {}, {"GyroConfig"})
        BY RolesAre DEF DeployMay, VaultKinds, ThroughGovernance, WithConfig
    <2>3. IsSequence(p) /\ FitAll("safety.root", p) /\ Points(p, "ROOT_SAFETY_CHECK")  BY <2>1, <2>2, DeployPair
    <2>4. safety_root.steps = p  BY DEF safety_root, Steps
    <2>. HIDE DEF p
    <2>5. "safety.root" \notin Once  BY OnceAre DEF NotRepeatable
    <2>. QED  BY <2>3, <2>4, <2>5, FitIsGood
<1>5. Good("stewardship.main", stewardship_main.steps) /\ Points(stewardship_main.steps, "STEWARDSHIP_INC")
    <2>. DEFINE p == DeployAndSetKey("ReserveStewardshipIncentives", Multisig, {"GYD_TOKEN"}, {"GyroConfig"}, "STEWARDSHIP_INC")
    <2>1. /\ "STEWARDSHIP_INC" \in DOMAIN Roles /\ Roles["STEWARDSHIP_INC"] = "ReserveStewardshipIncentives" /\ Owner["STEWARDSHIP_INC"] = "stewardship.main"
          /\ "ReserveStewardshipIncentives" \notin Upgradeable /\ "stewardship.main" \in ThroughGovernance \cap WithConfig
        BY DEF Roles, Owner, Upgradeable, ThroughGovernance, WithConfig
    <2>2. DeployMay("stewardship.main", "ReserveStewardshipIncentives", Multisig, {"GYD_TOKEN"}, {"GyroConfig"})
        BY RolesAre, NeedsAre DEF DeployMay, VaultKinds, ThroughGovernance, WithConfig, KeyScript
    <2>3. IsSequence(p) /\ FitAll("stewardship.main", p) /\ Points(p, "STEWARDSHIP_INC")  BY <2>1, <2>2, DeployPair
    <2>. DEFINE t == <<SetUint("STEWARDSHIP_INC_DURATION"),
                     SetUint("STEWARDSHIP_INC_MAX_VIOLATIONS"),
                     SetUint("STEWARDSHIP_INC_MIN_CR")>>
    <2>4. {"STEWARDSHIP_INC_DURATION", "STEWARDSHIP_INC_MAX_VIOLATIONS", "STEWARDSHIP_INC_MIN_CR"}
              \cap (DOMAIN Roles \union {"BALANCER_VAULT"}) = {}
        BY DEF Roles
    <2>5. FitAll("stewardship.main", t) /\ \A i \in DOMAIN t :
              ~(t[i].op = "setKey" /\ t[i].key = "STEWARDSHIP_INC") /\ ~Makes(t[i], Roles["STEWARDSHIP_INC"])
        BY <2>1, <2>4, UintsFit
    <2>7. stewardship_main.steps = p \o t  BY DEF stewardship_main, Steps
    <2>. HIDE DEF p, t
    <2>8. FitAll("stewardship.main", p \o t)  BY <2>3, <2>5, FitJoined
    <2>9. Points(p \o t, "STEWARDSHIP_INC")  BY <2>3, <2>5, PointsMore DEF FitAll
    <2>. QED  BY <2>7, <2>8, <2>9, FitIsGood, OnceAre
<1>6. Good("gyd_recovery.main", gyd_recovery_main.steps) /\ Points(gyd_recovery_main.steps, "GYD_RECOVERY")
    <2>. DEFINE p == DeployAndSetKey("GydRecovery", Multisig, {"GYD_TOKEN"}, {"GyroConfig"}, "GYD_RECOVERY")
    <2>1. /\ "GYD_RECOVERY" \in DOMAIN Roles /\ Roles["GYD_RECOVERY"] = "GydRecovery" /\ Owner["GYD_RECOVERY"] = "gyd_recovery.main"
          /\ "GydRecovery" \notin Upgradeable /\ "gyd_recovery.main" \in ThroughGovernance \cap WithConfig
        BY DEF Roles, Owner, Upgradeable, ThroughGovernance, WithConfig
    <2>2. DeployMay("gyd_recovery.main", "GydRecovery", Multisig, {"GYD_TOKEN"}, {"GyroConfig"})
        BY RolesAre, NeedsAre DEF DeployMay, VaultKinds, ThroughGovernance, WithConfig, KeyScript
    <2>3. IsSequence(p) /\ FitAll("gyd_recovery.main", p) /\ Points(p, "GYD_RECOVERY")  BY <2>1, <2>2, DeployPair
    <2>. DEFINE t == <<SetUint("GYD_RECOVERY_TARGET_CR"), SetUint("GYD_RECOVERY_TRIGGER_CR")>>
    <2>4. {"GYD_RECOVERY_TARGET_CR", "GYD_RECOVERY_TRIGGER_CR"}
              \cap (DOMAIN Roles \union {"BALANCER_VAULT"}) = {}
        BY DEF Roles
    <2>5. FitAll("gyd_recovery.main", t) /\ \A i \in DOMAIN t :
              ~(t[i].op = "setKey" /\ t[i].key = "GYD_RECOVERY") /\ ~Makes(t[i], Roles["GYD_RECOVERY"])
        BY <2>1, <2>4, UintsFit
    <2>6. gyd_recovery_main.steps = (<<>> \o p) \o t
        BY DEF gyd_recovery_main, Steps, HasGyfiToken, HasDaoTreasury
    <2>. HIDE DEF p, t
    <2>7. gyd_recovery_main.steps = p \o t  BY <2>3, <2>6, EmptyThen
    <2>8. FitAll("gyd_recovery.main", p \o t)  BY <2>3, <2>5, FitJoined
    <2>9. Points(p \o t, "GYD_RECOVERY")  BY <2>3, <2>5, PointsMore DEF FitAll
    <2>. QED  BY <2>7, <2>8, <2>9, FitIsGood, OnceAre
<1>. QED  BY <1>1, <1>2, <1>3, <1>4, <1>5, <1>6

LEMMA GoodProxies ==
    ASSUME ContainersOK
    PROVE  /\ Handed("gyd_token.proxy") => Good("gyd_token.proxy", gyd_token_proxy.steps) /\ Points(gyd_token_proxy.steps, "GYD_TOKEN")
           /\ Handed("vault_registry.proxy") => Good("vault_registry.proxy", vault_registry_proxy.steps) /\ Points(vault_registry_proxy.steps, "VAULT_REGISTRY")
           /\ Handed("asset_registry.proxy") => Good("asset_registry.proxy", asset_registry_proxy.steps) /\ Points(asset_registry_proxy.steps, "ASSET_REGISTRY")
           /\ Handed("reserve.proxy") => Good("reserve.proxy", reserve_proxy.steps) /\ Points(reserve_proxy.steps, "RESERVE")
           /\ Handed("motherboard.proxy") => Good("motherboard.proxy", motherboard_proxy.steps) /\ Points(motherboard_proxy.steps, "MOTHERBOARD")
<1>1. ASSUME Handed("gyd_token.proxy") PROVE Good("gyd_token.proxy", gyd_token_proxy.steps) /\ Points(gyd_token_proxy.steps, "GYD_TOKEN")
    <2>. DEFINE p == deploy_proxy(Bound("GydToken"), Multisig, "GYD_TOKEN", "", FALSE)
    <2>1. /\ "GYD_TOKEN" \in DOMAIN Roles /\ Roles["GYD_TOKEN"] = "GydToken" /\ Owner["GYD_TOKEN"] = "gyd_token.proxy"
          /\ "GydToken" \in Upgradeable /\ "gyd_token.proxy" \in ThroughGovernance \cap WithConfig
        BY DEF Roles, Owner, Upgradeable, ThroughGovernance, WithConfig
    <2>2. \A label : ProxyMay("gyd_token.proxy", "GydToken", Multisig, label)
        BY RolesAre DEF ProxyMay, VaultKinds, ThroughGovernance
    <2>3. Bound("GydToken").contract = "GydToken"  BY <1>1, HandedContract DEF Hands
    <2>4. IsSequence(p) /\ FitAll("gyd_token.proxy", p) /\ Points(p, "GYD_TOKEN")
        BY <2>1, <2>2, <2>3, ProxyPair
    <2>5. gyd_token_proxy.steps = p  BY DEF gyd_token_proxy, Steps
    <2>. HIDE DEF p
    <2>6. "gyd_token.proxy" \notin Once  BY OnceAre
    <2>. QED  BY <2>4, <2>5, <2>6, FitIsGood
<1>2. ASSUME Handed("vault_registry.proxy") PROVE Good("vault_registry.proxy", vault_registry_proxy.steps) /\ Points(vault_registry_proxy.steps, "VAULT_REGISTRY")
    <2>. DEFINE p == deploy_proxy(Bound("VaultRegistry"), Governance, "VAULT_REGISTRY", "", FALSE)
    <2>1. /\ "VAULT_REGISTRY" \in DOMAIN Roles /\ Roles["VAULT_REGISTRY"] = "VaultRegistry" /\ Owner["VAULT_REGISTRY"] = "vault_registry.proxy"
          /\ "VaultRegistry" \in Upgradeable /\ "vault_registry.proxy" \in ThroughGovernance \cap WithConfig
        BY DEF Roles, Owner, Upgradeable, ThroughGovernance, WithConfig
    <2>2. \A label : ProxyMay("vault_registry.proxy", "VaultRegistry", Governance, label)
        BY RolesAre DEF ProxyMay, VaultKinds, ThroughGovernance
    <2>3. Bound("VaultRegistry").contract = "VaultRegistry"  BY <1>2, HandedContract DEF Hands
    <2>4. IsSequence(p) /\ FitAll("vault_registry.proxy", p) /\ Points(p, "VAULT_REGISTRY")
        BY <2>1, <2>2, <2>3, ProxyPair
    <2>5. vault_registry_proxy.steps = p  BY DEF vault_registry_proxy, Steps
    <2>. HIDE DEF p
    <2>6. "vault_registry.proxy" \notin Once  BY OnceAre
    <2>. QED  BY <2>4, <2>5, <2>6, FitIsGood
<1>3. ASSUME Handed("asset_registry.proxy") PROVE Good("asset_registry.proxy", asset_registry_proxy.steps) /\ Points(asset_registry_proxy.steps, "ASSET_REGISTRY")
    <2>. DEFINE p == deploy_proxy(Bound("AssetRegistry"), Governance, "ASSET_REGISTRY", "", FALSE)
    <2>1. /\ "ASSET_REGISTRY" \in DOMAIN Roles /\ Roles["ASSET_REGISTRY"] = "AssetRegistry" /\ Owner["ASSET_REGISTRY"] = "asset_registry.proxy"
          /\ "AssetRegistry" \in Upgradeable /\ "asset_registry.proxy" \in ThroughGovernance \cap WithConfig
        BY DEF Roles, Owner, Upgradeable, ThroughGovernance, WithConfig
    <2>2. \A label : ProxyMay("asset_registry.proxy", "AssetRegistry", Governance, label)
        BY RolesAre DEF ProxyMay, VaultKinds, ThroughGovernance
    <2>3. Bound("AssetRegistry").contract = "AssetRegistry"  BY <1>3, HandedContract DEF Hands
    <2>4. IsSequence(p) /\ FitAll("asset_registry.proxy", p) /\ Points(p, "ASSET_REGISTRY")
        BY <2>1, <2>2, <2>3, ProxyPair
    <2>5. asset_registry_proxy.steps = p  BY DEF asset_registry_proxy, Steps
    <2>. HIDE DEF p
    <2>6. "asset_registry.proxy" \notin Once  BY OnceAre
    <2>. QED  BY <2>4, <2>5, <2>6, FitIsGood
<1>4. ASSUME Handed("reserve.proxy") PROVE Good("reserve.proxy", reserve_proxy.steps) /\ Points(reserve_proxy.steps, "RESERVE")
    <2>. DEFINE p == deploy_proxy(Bound("Reserve"), Multisig, "RESERVE", "", FALSE)
    <2>1. /\ "RESERVE" \in DOMAIN Roles /\ Roles["RESERVE"] = "Reserve" /\ Owner["RESERVE"] = "reserve.proxy"
          /\ "Reserve" \in Upgradeable /\ "reserve.proxy" \in ThroughGovernance \cap WithConfig
        BY DEF Roles, Owner, Upgradeable, ThroughGovernance, WithConfig
    <2>2. \A label : ProxyMay("reserve.proxy", "Reserve", Multisig, label)
        BY RolesAre DEF ProxyMay, VaultKinds, ThroughGovernance
    <2>3. Bound("Reserve").contract = "Reserve"  BY <1>4, HandedContract DEF Hands
    <2>4. IsSequence(p) /\ FitAll("reserve.proxy", p) /\ Points(p, "RESERVE")
        BY <2>1, <2>2, <2>3, ProxyPair
    <2>5. reserve_proxy.steps = p  BY DEF reserve_proxy, Steps
    <2>. HIDE DEF p
    <2>6. "reserve.proxy" \notin Once  BY OnceAre
    <2>. QED  BY <2>4, <2>5, <2>6, FitIsGood
<1>5. ASSUME Handed("motherboard.proxy") PROVE Good("motherboard.proxy", motherboard_proxy.steps) /\ Points(motherboard_proxy.steps, "MOTHERBOARD")
    <2>. DEFINE p == deploy_proxy(Bound("Motherboard"), Governance, "MOTHERBOARD", "", FALSE)
    <2>1. /\ "MOTHERBOARD" \in DOMAIN Roles /\ Roles["MOTHERBOARD"] = "Motherboard" /\ Owner["MOTHERBOARD"] = "motherboard.proxy"
          /\ "Motherboard" \in Upgradeable /\ "motherboard.proxy" \in ThroughGovernance \cap WithConfig
        BY DEF Roles, Owner, Upgradeable, ThroughGovernance, WithConfig
    <2>2. \A label : ProxyMay("motherboard.proxy", "Motherboard", Governance, label)
        BY RolesAre DEF ProxyMay, VaultKinds, ThroughGovernance
    <2>3. Bound("Motherboard").contract = "Motherboard"  BY <1>5, HandedContract DEF Hands
    <2>4. IsSequence(p) /\ FitAll("motherboard.proxy", p) /\ Points(p, "MOTHERBOARD")
        BY <2>1, <2>2, <2>3, ProxyPair
    <2>. DEFINE x == Call(Governance, Bound("Reserve"), "managers", NewProxy("Motherboard"))
    <2>5. motherboard_proxy.steps = p \o <<x>>  BY DEF motherboard_proxy, Steps
    <2>6. x.op = "call"  BY DEF Call
    <2>7. Fits("motherboard.proxy", x)  BY OthersFitWhen DEF AlwaysRevert
    <2>. HIDE DEF p, x
    <2>8. "motherboard.proxy" \notin Once  BY OnceAre
    <2>9. Good("motherboard.proxy", p \o <<x>>)  BY <2>4, <2>7, <2>8, FitThenLast
    <2>10. Points(p \o <<x>>, "MOTHERBOARD")
        <3>1. IsSequence(<<x>>)  BY Singles
        <3>2. \A j \in DOMAIN <<x>> : <<x>>[j] = x  OBVIOUS
        <3>3. \A j \in DOMAIN <<x>> : <<x>>[j].op # "setKey" /\ ~Makes(<<x>>[j], "Motherboard")
            BY <2>6, <3>2 DEF Makes
        <3>. QED  BY <2>1, <2>4, <3>1, <3>3, PointsMore
    <2>. QED  BY <2>5, <2>9, <2>10
<1>. QED  BY <1>1, <1>2, <1>3, <1>4, <1>5

-----------------------------------------------------------------------------
(* The scripts that are left: one proxy, calls, or batches to print.       *)

LEMMA GoodFew ==
    ASSUME ChainId = 1, ContainersOK
    PROVE  /\ Handed("checked.main") => Good("checked.main", checked_main.steps)
           /\ Handed("config.proxy") => Good("config.proxy", config_proxy.steps)
           /\ Handed("governance_proxy.proxy") =>
                  Good("governance_proxy.proxy", governance_proxy_proxy.steps)
           /\ Good("config.set_initial_config", set_initial_config.steps)
           /\ Good("vault_price_oracle.generic", vault_price_oracle_generic.steps)
<1>1. ASSUME Handed("checked.main") PROVE Good("checked.main", checked_main.steps)
    <2>. DEFINE s == <<Deploy("CheckedPriceOracle", Governance, {}, {"ChainlinkPriceOracle"})>>
    <2>1. There("ChainlinkPriceOracle")  BY <1>1, HandedContract DEF Hands
    <2>2. DeployMay("checked.main", "CheckedPriceOracle", Governance, {},
                    {"ChainlinkPriceOracle"})
        BY <2>1, RolesAre DEF DeployMay, VaultKinds, Upgradeable, ThroughGovernance, Kept
    <2>3. "CheckedPriceOracle" \in DOMAIN Makers /\ Makers["CheckedPriceOracle"] = "checked.main"
        BY DEF Makers
    <2>4. Good("checked.main", s)  BY <2>2, <2>3, DeployAlone
    <2>5. checked_main.steps = <<>> \o s  BY DEF checked_main, Steps, IsLive, DevChainIds
    <2>6. IsSequence(s)  BY Singles
    <2>. HIDE DEF s
    <2>7. <<>> \o s = s  BY <2>6, EmptyThen
    <2>. QED  BY <2>4, <2>5, <2>7
<1>2. ASSUME Handed("config.proxy") PROVE Good("config.proxy", config_proxy.steps)
    <2>. DEFINE p(l) == DeployProxy(Config, Governance, l)
    <2>1. Config.contract = "GyroConfig"  BY <1>2, HandedContract DEF Hands, Config
    <2>2. \A l : ProxyMay("config.proxy", "GyroConfig", Governance, l)
        BY RolesAre DEF ProxyMay, VaultKinds, ThroughGovernance
    <2>3. \A l : Fits("config.proxy", p(l)) /\ ~Final(p(l))  BY <2>1, <2>2, ProxyFitsWhen
    <2>4. \A l : deploy_proxy(Config, Governance, "", l, FALSE) = <<p(l)>>  BY ProxyScript
    <2>5. config_proxy.steps = deploy_proxy(Config, Governance, "", "", FALSE)
        BY DEF config_proxy, Steps
    <2>. HIDE DEF p
    <2>6. config_proxy.steps = <<p("")>>  BY <2>4, <2>5
    <2>. DEFINE a == p("")
    <2>7. Fits("config.proxy", a) /\ ~Final(a)  BY <2>3
    <2>. HIDE DEF a
    <2>8. FitAll("config.proxy", <<a>>)  BY <2>7, FitSingles
    <2>9. "config.proxy" \notin Once  BY OnceAre
    <2>. QED  BY <2>6, <2>8, <2>9, FitIsGood DEF a
<1>3. ASSUME Handed("governance_proxy.proxy")
      PROVE  Good("governance_proxy.proxy", governance_proxy_proxy.steps)
    <2>. DEFINE p(l) == DeployProxy(Governance, Deployer, l)
                x == TransferOwnership(Bound("ProxyAdmin"), NewProxy("GovernanceProxy"))
    <2>1. Governance.contract = "GovernanceProxy" /\ There("ProxyAdmin")
        BY <1>3, HandedContract DEF Hands, Governance
    <2>2. \A l : ProxyMay("governance_proxy.proxy", "GovernanceProxy", Deployer, l)
        BY RolesAre DEF ProxyMay, VaultKinds, ThroughGovernance
    <2>3. \A l : Fits("governance_proxy.proxy", p(l)) /\ ~Final(p(l))
        BY <2>1, <2>2, ProxyFitsWhen
    <2>4. \A l : deploy_proxy(Governance, Deployer, "", l, FALSE) = <<p(l)>>  BY ProxyScript
    <2>5. governance_proxy_proxy.steps
            = deploy_proxy(Governance, Deployer, "", "", FALSE) \o <<x>>
        BY DEF governance_proxy_proxy, Steps
    <2>6. Fits("governance_proxy.proxy", x)  BY <2>1, OthersFitWhen
    <2>. HIDE DEF p, x
    <2>7. governance_proxy_proxy.steps = <<p("")>> \o <<x>>  BY <2>4, <2>5
    <2>. DEFINE a == p("")
    <2>8. Fits("governance_proxy.proxy", a) /\ ~Final(a)  BY <2>3
    <2>. HIDE DEF a
    <2>9. FitAll("governance_proxy.proxy", <<a>>)  BY <2>8, FitSingles
    <2>10. "governance_proxy.proxy" \notin Once  BY OnceAre
    <2>. QED  BY <2>6, <2>7, <2>9, <2>10, FitThenLast DEF a
<1>4. Good("config.set_initial_config", set_initial_config.steps)
    <2>. DEFINE name == "config.set_initial_config"
                a == SetAddress("BALANCER_VAULT", Outsider("BALANCER_VAULT"))
    <2>1. name \in ThroughGovernance \cap WithConfig /\ "BALANCER_VAULT" \notin DOMAIN Roles
        BY DEF ThroughGovernance, WithConfig, Roles
    <2>2. Fits(name, a)  BY <2>1, OthersFitWhen
    <2>3. ~Final(a)  BY DEF Final, SetAddress, SetKeyOf
    <2>4. set_initial_config.steps = <<a>>  BY DEF set_initial_config, Steps
    <2>. HIDE DEF a
    <2>5. FitAll(name, <<a>>)  BY <2>2, <2>3, FitSingles
    <2>. QED  BY <2>4, <2>5, OnceAre, FitIsGood
<1>5. Good("vault_price_oracle.generic", vault_price_oracle_generic.steps)
    <2>. DEFINE name == "vault_price_oracle.generic"
                a == Raise
    <2>1. Fits(name, a)  BY OthersFitWhen
    <2>2. a.op = "raise"  BY DEF Raise
    <2>3. vault_price_oracle_generic.steps = <<a>>  BY DEF vault_price_oracle_generic, Steps
    <2>. HIDE DEF a
    <2>4. FitAll(name, <<a>>)  BY <2>1, <2>2, FitSingles DEF Final
    <2>5. Len(<<a>>) = 1 /\ <<a>>[1] = a  OBVIOUS
    <2>6. EndsMade(name, <<a>>)  BY <2>2, <2>5 DEF EndsMade
    <2>. QED  BY <2>3, <2>4, <2>6 DEF Good, FitAll
<1>. QED  BY <1>1, <1>2, <1>3, <1>4, <1>5

\* Calls to the asset registry.
LEMMA OnAssetsAre ==
    ASSUME NEW l, NEW names, IsSequence(names)
    PROVE  /\ IsSequence(OnAssets(l, names)) /\ DOMAIN OnAssets(l, names) = DOMAIN names
           /\ \A i \in DOMAIN names : /\ OnAssets(l, names)[i] = CallAsset(l, names[i])
                                      /\ OnAssets(l, names)[i].op = "asset"
                                      /\ OnAssets(l, names)[i].list = l
                                      /\ OnAssets(l, names)[i].name = names[i]
<1>. DEFINE t == OnAssets(l, names)
<1>1. DOMAIN t = DOMAIN names /\ \A i \in DOMAIN names : t[i] = CallAsset(l, names[i])
    BY DEF OnAssets
<1>2. t = [i \in DOMAIN names |-> t[i]]  BY DEF OnAssets
<1>. HIDE DEF t
<1>3. IsSequence(t)  BY <1>1, <1>2, SameLength
<1>4. \A x : CallAsset(l, x).op = "asset" /\ CallAsset(l, x).list = l /\ CallAsset(l, x).name = x
    BY DEF CallAsset
<1>5. \A i \in DOMAIN names : t[i].op = "asset" /\ t[i].list = l /\ t[i].name = names[i]
    BY <1>1, <1>4
<1>. QED  BY <1>1, <1>3, <1>5 DEF t

AssetNames == <<"ETH", "WETH", "DAI", "WBTC", "USDC", "USDT", "USDP", "GUSD", "LUSD", "crvUSD">>
StableNames == <<"USDT", "USDC", "DAI">>
RangeNames == <<"USDC", "USDP", "GUSD", "USDT", "DAI", "LUSD", "crvUSD">>

LEMMA NamesAre ==
    /\ IsSequence(AssetNames) /\ Len(AssetNames) = 10 /\ DOMAIN AssetNames = 1..10
    /\ IsSequence(StableNames) /\ Len(StableNames) = 3 /\ DOMAIN StableNames = 1..3
    /\ IsSequence(RangeNames) /\ Len(RangeNames) = 7 /\ DOMAIN RangeNames = 1..7
BY DEF IsSequence, AssetNames, StableNames, RangeNames

LEMMA GoodAssets ==
    /\ Good(Initialize, asset_registry_initialize.steps)
    /\ Good(SetRanges, set_asset_ranges.steps)
<1>1. ASSUME NEW name, NEW l, NEW names, IsSequence(names), name \in ThroughGovernance,
             NeededBy(name, "asset_registry.proxy"),
             name = IF l = "ranges" THEN "asset_registry.set_asset_ranges"
                    ELSE "asset_registry.initialize"
      PROVE  FitAll(name, OnAssets(l, names))
    <2>1. \A n : Fits(name, CallAsset(l, n))  BY <1>1, OthersFitWhen
    <2>2. \A n : ~Final(CallAsset(l, n))  BY DEF Final, CallAsset
    <2>. QED  BY <1>1, <2>1, <2>2, OnAssetsAre DEF FitAll
<1>2. /\ {Initialize, SetRanges} \subseteq ThroughGovernance
      /\ NeededBy(Initialize, "asset_registry.proxy")
      /\ NeededBy(SetRanges, "asset_registry.proxy")
    BY NeedsAre DEF ThroughGovernance, Initialize, SetRanges
<1>3. Initialize \notin Once /\ SetRanges \notin Once
    BY OnceAre DEF Initialize, SetRanges, NotRepeatable
<1>4. Good(Initialize, asset_registry_initialize.steps)
    <2>. DEFINE s == OnAssets("assets", AssetNames)
                t == OnAssets("stable", StableNames)
    <2>1. FitAll(Initialize, s) /\ FitAll(Initialize, t)
        BY <1>1, <1>2, NamesAre DEF Initialize
    <2>2. asset_registry_initialize.steps = s \o t
        BY DEF asset_registry_initialize, Steps, AssetNames, StableNames
    <2>. HIDE DEF s, t
    <2>. QED  BY <1>3, <2>1, <2>2, FitJoined, FitIsGood
<1>5. Good(SetRanges, set_asset_ranges.steps)
    <2>1. FitAll(SetRanges, OnAssets("ranges", RangeNames))
        BY <1>1, <1>2, NamesAre DEF SetRanges
    <2>2. set_asset_ranges.steps = OnAssets("ranges", RangeNames)
        BY DEF set_asset_ranges, Steps, RangeNames
    <2>. QED  BY <1>3, <2>1, <2>2, FitIsGood
<1>. QED  BY <1>4, <1>5

\* Batches of calls that are printed.
Harmless(batch) == IsSequence(batch) /\ \A i \in DOMAIN batch : batch[i].list \notin {"checks", "fees"}

LEMMA HarmlessBatches ==
    /\ \A s, t : Harmless(s) /\ Harmless(t) => Harmless(s \o t)
    /\ \A target, l, elements : l \notin {"checks", "fees"} /\ IsSequence(elements)
           => Harmless(OnTarget(target, l, elements))
<1>1. ASSUME NEW s, NEW t, Harmless(s), Harmless(t) PROVE Harmless(s \o t)
    <2>. DEFINE u == s \o t
    <2>1. IsSequence(u) /\ \A i \in DOMAIN u : \/ \E j \in DOMAIN s : u[i] = s[j]
                                               \/ \E j \in DOMAIN t : u[i] = t[j]
        BY <1>1, Joined DEF Harmless
    <2>. HIDE DEF u
    <2>2. Harmless(u)  BY <1>1, <2>1 DEF Harmless
    <2>. QED  BY <2>2 DEF u
<1>2. ASSUME NEW target, NEW l, NEW elements, l \notin {"checks", "fees"}, IsSequence(elements)
      PROVE  Harmless(OnTarget(target, l, elements))
    <2>. DEFINE t == OnTarget(target, l, elements)
    <2>1. DOMAIN t = DOMAIN elements /\ \A i \in DOMAIN t : t[i].list = l  BY DEF OnTarget
    <2>2. t = [i \in DOMAIN elements |-> t[i]]  BY DEF OnTarget
    <2>. HIDE DEF t
    <2>3. IsSequence(t)  BY <1>2, <2>1, <2>2, SameLength
    <2>. QED  BY <1>2, <2>1, <2>3 DEF Harmless, t
<1>. QED  BY <1>1, <1>2

LEMMA GoodPrints ==
    /\ Good("rate_manager.set_rate_providers", set_rate_providers.steps)
    /\ Good("checked.initialize", checked_initialize.steps)
    /\ Good("batch.initialize", batch_initialize.steps)
    /\ Good("vaults.set_vaults", set_vaults.steps)
<1>1. ASSUME NEW batch, \A i \in DOMAIN batch : batch[i].list \notin {"checks", "fees"}
      PROVE  \A name : /\ FitAll(name, <<PrintCalls(batch)>>)
                       /\ name \notin Once => Good(name, <<PrintCalls(batch)>>)
    <2>. DEFINE a == PrintCalls(batch)
    <2>1. \A name : Fits(name, a)  BY <1>1, OthersFitWhen
    <2>2. ~Final(a)  BY DEF Final, PrintCalls
    <2>. HIDE DEF a
    <2>3. \A name : FitAll(name, <<a>>)  BY <2>1, <2>2, FitSingles
    <2>4. \A name : name \notin Once => Good(name, <<a>>)  BY <2>3, FitIsGood
    <2>. QED  BY <2>3, <2>4 DEF a
<1>2. Good("rate_manager.set_rate_providers", set_rate_providers.steps)
    <2>. DEFINE b == OnTarget(Bound("RateManager"), "providers",
                              <<Outsider("sDAI"), Outsider("fUSDC"), Outsider("aUSDT")>>)
    <2>1. set_rate_providers.steps = <<PrintCalls(b)>>  BY DEF set_rate_providers, Steps
    <2>2. \A i \in DOMAIN b : b[i].list \notin {"checks", "fees"}  BY DEF OnTarget
    <2>. HIDE DEF b
    <2>. QED  BY <1>1, <2>1, <2>2, OnceAre
<1>3. Good("checked.initialize", checked_initialize.steps)
    <2>. DEFINE o == Bound("CheckedPriceOracle")
                x == <<Bound("TrustedSignerPriceOracle"), Bound("TellorOracle")>>
                y == <<Outsider("USDC"), Outsider("USDT"), Outsider("DAI")>>
                z == <<Outsider("WETH"), Outsider("USDC"), Outsider("USDT"),
                       Outsider("DAI"), Outsider("LUSD")>>
                w == <<Outsider("crvUSD"), Outsider("GUSD"), Outsider("USDP")>>
                b == OnTarget(o, "ethOracles", x) \o OnTarget(o, "twap", y)
                     \o OnTarget(o, "relative", z) \o OnTarget(o, "ignorable", w)
    <2>1. checked_initialize.steps = <<PrintCalls(b)>>  BY DEF checked_initialize, Steps
    <2>2. \A p, q, r, s, t : /\ IsSequence(<<p, q>>) /\ IsSequence(<<p, q, r>>)
                             /\ IsSequence(<<p, q, r, s, t>>)
        BY DEF IsSequence
    <2>3. IsSequence(x) /\ IsSequence(y) /\ IsSequence(z) /\ IsSequence(w)  BY <2>2
    <2>. HIDE DEF o, x, y, z, w
    <2>4. /\ Harmless(OnTarget(o, "ethOracles", x)) /\ Harmless(OnTarget(o, "twap", y))
          /\ Harmless(OnTarget(o, "relative", z)) /\ Harmless(OnTarget(o, "ignorable", w))
        BY <2>3, HarmlessBatches
    <2>5. Harmless(b)  BY <2>4, HarmlessBatches
    <2>. HIDE DEF b
    <2>. QED  BY <1>1, <2>1, <2>5, OnceAre DEF Harmless
<1>4. Good("batch.initialize", batch_initialize.steps)
    <2>. DEFINE o == Bound("BatchVaultPriceOracle")
                x == [i \in DOMAIN VaultOracles |-> Bound(VaultOracles[i])]
                b == OnTarget(o, "vaultOracles", x)
                     \o OnTarget(Config, "ROOT_PRICE_ORACLE", <<o>>)
    <2>1. batch_initialize.steps = <<PrintCalls(b)>>  BY DEF batch_initialize, Steps
    <2>2. IsSequence(<<o>>)  BY Singles
    <2>3. IsSequence(x)
        <3>1. IsSequence(VaultOracles)  BY DEF IsSequence, VaultOracles
        <3>. QED  BY <3>1, SameLength
    <2>. HIDE DEF o, x
    <2>4. /\ Harmless(OnTarget(o, "vaultOracles", x))
          /\ Harmless(OnTarget(Config, "ROOT_PRICE_ORACLE", <<o>>))
        BY <2>2, <2>3, HarmlessBatches
    <2>5. Harmless(b)  BY <2>4, HarmlessBatches
    <2>. HIDE DEF b
    <2>. QED  BY <1>1, <2>1, <2>5, OnceAre DEF Harmless
<1>5. Good("vaults.set_vaults", set_vaults.steps)
    <2>. DEFINE m == Bound("ReserveManager")
                b == OnTarget(m, "vaults", get_vault_configs)
                p == PrintCalls(b)
                x == Call(Deployer, m, "vaults", NoAddress)
    <2>1. set_vaults.steps = <<p, x>>  BY DEF set_vaults, Steps
    <2>2. \A i \in DOMAIN b : b[i].list \notin {"checks", "fees"}  BY DEF OnTarget
    <2>. HIDE DEF b
    <2>3. FitAll("vaults.set_vaults", <<p>>)  BY <1>1, <2>2
    <2>4. Fits("vaults.set_vaults", x)  BY OthersFitWhen DEF AlwaysRevert
    <2>. HIDE DEF p, x
    <2>5. Good("vaults.set_vaults", <<p>> \o <<x>>)  BY <2>3, <2>4, OnceAre, FitThenLast
    <2>. QED  BY <2>1, <2>5, Singles
<1>. QED  BY <1>2, <1>3, <1>4, <1>5

\* Calls through the governance proxy.
OracleFeeds == {a \in get_chainlink_feeds :
                    <<Bound("ChainlinkPriceOracle"), "feeds", Outsider(a)>> \notin lists}

LEMMA FeedsInOrder == Enumerates(InOrder(OracleFeeds), OracleFeeds)
<1>1. IsFiniteSet(get_chainlink_feeds)
    <2>1. IsFiniteSet({"ETH", "WETH", "DAI", "WBTC", "CRV", "USDC", "USDT", "crvUSD",
                       "USDP", "LUSD", "GUSD", "GUSD"})
        BY TwelveFinite
    <2>2. IsFiniteSet({"ETH", "WETH", "DAI", "WBTC", "USDC", "USDT", "WMATIC", "LINK",
                       "AAVE", "UNI", "TUSD", "BUSD"})
        BY TwelveFinite
    <2>. QED  BY <2>1, <2>2 DEF get_chainlink_feeds
<1>2. OracleFeeds \subseteq get_chainlink_feeds  BY DEF OracleFeeds
<1>3. IsFiniteSet(OracleFeeds)  BY <1>1, <1>2, FS_Subset
<1>. QED  BY <1>3, InOrderEnumerates

LEMMA FeedSteps ==
    LET t == set_feeds.steps IN
    /\ IsSequence(t)
    /\ \A i \in DOMAIN t : \E a \in get_chainlink_feeds :
          t[i] = Call(Governance, Bound("ChainlinkPriceOracle"), "feeds", Outsider(a))
    /\ \A a \in OracleFeeds : \E i \in DOMAIN t :
          t[i] = Call(Governance, Bound("ChainlinkPriceOracle"), "feeds", Outsider(a))
<1>. DEFINE o == Bound("ChainlinkPriceOracle")
            missing == InOrder(OracleFeeds)
            t == [i \in DOMAIN missing |-> Call(Governance, o, "feeds", Outsider(missing[i]))]
<1>1. set_feeds.steps = t  BY DEF set_feeds, Steps, OracleFeeds
<1>2. Enumerates(missing, OracleFeeds)  BY FeedsInOrder
<1>. HIDE DEF missing
<1>3. /\ IsSequence(missing) /\ \A i \in DOMAIN missing : missing[i] \in get_chainlink_feeds
      /\ \A a \in OracleFeeds : \E i \in DOMAIN missing : missing[i] = a
    BY <1>2 DEF Enumerates, OracleFeeds
<1>4. IsSequence(t)  BY <1>3, SameLength
<1>. QED  BY <1>1, <1>3, <1>4

LEMMA GoodCalls ==
    /\ Handed("chainlink.set_feeds") => Good("chainlink.set_feeds", set_feeds.steps)
    /\ Handed(Register) => Good(Register, safety_register.steps)
<1>1. ASSUME Handed("chainlink.set_feeds") PROVE Good("chainlink.set_feeds", set_feeds.steps)
    <2>. DEFINE name == "chainlink.set_feeds"
                t == set_feeds.steps
                call(a) == Call(Governance, Bound("ChainlinkPriceOracle"), "feeds", Outsider(a))
    <2>1. There("ChainlinkPriceOracle")  BY <1>1 DEF Handed, Hands
    <2>2. name \in ThroughGovernance  BY DEF ThroughGovernance
    <2>3. \A e : Fits(name, Call(Governance, Bound("ChainlinkPriceOracle"), "feeds", e))
        <3>1. /\ "feeds" \in DOMAIN CallScript /\ CallScript["feeds"] = name
              /\ CallTarget["feeds"] = "ChainlinkPriceOracle"
            BY DEF CallScript, CallTarget
        <3>. QED  BY <2>1, <2>2, <3>1, OthersFitWhen
    <2>4. \A e : ~Final(Call(Governance, Bound("ChainlinkPriceOracle"), "feeds", e))
        BY DEF Final, Call
    <2>5. FitAll(name, t)  BY <2>3, <2>4, FeedSteps DEF FitAll
    <2>. HIDE DEF t
    <2>. QED  BY <2>5, OnceAre, FitIsGood DEF t
<1>2. ASSUME Handed(Register) PROVE Good(Register, safety_register.steps)
    <2>. DEFINE a == Call(Governance, Root, "checks", Bound("VaultSafetyMode"))
                b == Call(Governance, Root, "checks", Bound("ReserveSafetyManager"))
    <2>1. There("RootSafetyCheck")  BY <1>2 DEF Handed, Hands, Register
    <2>2. Register \in ThroughGovernance  BY DEF ThroughGovernance, Register
    <2>3. \A e : Fits(Register, Call(Governance, Root, "checks", e))
        <3>1. /\ "checks" \in DOMAIN CallScript /\ CallScript["checks"] = Register
              /\ CallTarget["checks"] = "RootSafetyCheck"
            BY DEF CallScript, CallTarget, Register
        <3>. QED  BY <2>1, <2>2, <3>1, OthersFitWhen DEF Root
    <2>4. \A e : ~Final(Call(Governance, Root, "checks", e))  BY DEF Final, Call
    <2>5. Fits(Register, a) /\ ~Final(a) /\ Fits(Register, b) /\ ~Final(b)  BY <2>3, <2>4
    <2>6. safety_register.steps = <<a, b>>  BY DEF safety_register, Steps, Root
    <2>. HIDE DEF a, b
    <2>7. FitAll(Register, <<a, b>>)  BY <2>5, FitSingles
    <2>8. Register \notin Once  BY OnceAre DEF Register, NotRepeatable
    <2>. QED  BY <2>6, <2>7, <2>8, FitIsGood
<1>. QED  BY <1>1, <1>2

\* A vault.
LEMMA VaultSteps ==
    ASSUME NEW symbol \in vaults, NEW c \in VaultKinds
    PROVE  \E a, b, o :
              /\ DeployVault(c, {"GyroConfig"}, symbol).steps = <<a, b, o>>
              /\ a = Deploy(c, NoAddress, {}, {"GyroConfig"})
              /\ b = DeployProxy(New(c), Multisig, symbol)
              /\ o = Overwrite(New(c), NewProxy(c))
<1>. DEFINE a == Deploy(c, NoAddress, {}, {"GyroConfig"})
            impl == New(c)
            b == DeployProxy(impl, Multisig, symbol)
            o == Overwrite(impl, NewProxy(impl.contract))
<1>1. impl.contract = c  BY DEF New, Address
<1>. HIDE DEF impl
<1>2. deploy_proxy(impl, Multisig, "", symbol, TRUE) = <<b, o>>  BY ProxyScript
<1>3. DeployVault(c, {"GyroConfig"}, symbol).steps
        = <<a>> \o deploy_proxy(impl, Multisig, "", symbol, TRUE)
    BY DEF DeployVault, Steps, impl
<1>. HIDE DEF a, b, o
<1>4. <<a>> \o <<b, o>> = <<a, b, o>>  BY Singles
<1>5. DeployVault(c, {"GyroConfig"}, symbol).steps = <<a, b, o>>  BY <1>2, <1>3, <1>4
<1>. QED  BY <1>1, <1>5 DEF a, b, o, impl

LEMMA GoodVaults ==
    ASSUME NEW symbol \in vaults, NEW c \in VaultKinds
    PROVE  Good(symbol, DeployVault(c, {"GyroConfig"}, symbol).steps)
<1>1. PICK a, b, o :
          /\ DeployVault(c, {"GyroConfig"}, symbol).steps = <<a, b, o>>
          /\ a = Deploy(c, NoAddress, {}, {"GyroConfig"})
          /\ b = DeployProxy(New(c), Multisig, symbol)
          /\ o = Overwrite(New(c), NewProxy(c))
    BY VaultSteps
<1>2. Fits(symbol, a) /\ ~Final(a)
    <2>1. DeployMay(symbol, c, NoAddress, {}, {"GyroConfig"})
        BY RolesAre DEF DeployMay, VaultKinds, WithConfig
    <2>. QED  BY <1>1, <2>1, DeployFitsWhen
<1>3. Fits(symbol, b) /\ ~Final(b)
    <2>1. ProxyMay(symbol, c, Multisig, symbol)
        BY RolesAre DEF ProxyMay, VaultKinds
    <2>2. New(c).contract = c  BY DEF New, Address
    <2>. QED  BY <1>1, <2>1, <2>2, ProxyFitsWhen
<1>4. Fits(symbol, o)  BY <1>1, OthersFitWhen
<1>5. ~Final(o)  BY <1>1 DEF Final, Overwrite
<1>6. FitAll(symbol, <<a, b, o>>)  BY <1>2, <1>3, <1>4, <1>5, FitSingles
<1>7. symbol \notin Once  BY OnceAre DEF NotRepeatable
<1>. QED  BY <1>1, <1>6, <1>7, FitIsGood

\* The vaults in both containers, one container after the other.
LEMMA VaultAddresses ==
    ASSUME ContainersOK
    PROVE  /\ IsSequence(_get_all_vault_addresses)
           /\ {_get_all_vault_addresses[i] : i \in DOMAIN _get_all_vault_addresses} = AllVaults
<1>. DEFINE p == containers["GenericVault"]
            q == containers["BalancerPoolVault"]
            all == p \o q
<1>0. {"GenericVault", "BalancerPoolVault"} \subseteq Contracts  BY ContractsAre
<1>1. IsSequence(p) /\ IsSequence(q)
    <2>. HIDE DEF Contracts
    <2>. QED  BY <1>0 DEF ContainersOK
<1>2. AllVaults = {p[i] : i \in DOMAIN p} \union {q[i] : i \in DOMAIN q}
    BY DEF AllVaults, VaultKinds
<1>3. _get_all_vault_addresses = all  BY DEF _get_all_vault_addresses
<1>. HIDE DEF p, q
<1>4. /\ Len(p) \in Nat /\ DOMAIN p = 1..Len(p) /\ Len(q) \in Nat /\ DOMAIN q = 1..Len(q)
      /\ IsSequence(all) /\ DOMAIN all = 1..(Len(p) + Len(q))
      /\ \A i \in 1..(Len(p) + Len(q)) :
            all[i] = IF i <= Len(p) THEN p[i] ELSE q[i - Len(p)]
    BY <1>1, LengthOf, JoinedAt
<1>. HIDE DEF all
<1>5. \A e \in AllVaults : \E i \in DOMAIN all : all[i] = e
    <2>1. \A j \in DOMAIN p : j \in DOMAIN all /\ all[j] = p[j]  BY <1>4
    <2>2. \A j \in DOMAIN q : Len(p) + j \in DOMAIN all /\ all[Len(p) + j] = q[j]  BY <1>4
    <2>. QED  BY <1>2, <2>1, <2>2
<1>6. \A i \in DOMAIN all : all[i] \in AllVaults
    <2>. SUFFICES ASSUME NEW i \in DOMAIN all PROVE all[i] \in AllVaults  OBVIOUS
    <2>1. CASE i <= Len(p)
        <3>1. i \in DOMAIN p /\ all[i] = p[i]  BY <1>4, <2>1
        <3>. QED  BY <1>2, <3>1
    <2>2. CASE i > Len(p)
        <3>1. i - Len(p) \in DOMAIN q /\ all[i] = q[i - Len(p)]  BY <1>4, <2>2
        <3>. QED  BY <1>2, <3>1
    <2>. QED  BY <1>4, <2>1, <2>2
<1>7. {all[i] : i \in DOMAIN all} = AllVaults  BY <1>5, <1>6
<1>. QED  BY <1>3, <1>4, <1>7

\* The fees of all vaults.
LEMMA FeeSteps ==
    ASSUME ContainersOK, \A e \in AllVaults : HasConfig(e)
    PROVE  LET t == set_fees.steps IN
           /\ IsSequence(t)
           /\ \A i \in DOMAIN t : \E e \in AllVaults : t[i] = Call(Governance, Handler, "fees", e)
           /\ \A e \in AllVaults : \E i \in DOMAIN t : t[i] = Call(Governance, Handler, "fees", e)
<1>. DEFINE all == _get_all_vault_addresses
            unknown == {i \in DOMAIN all : ~HasConfig(all[i])}
            t == [i \in DOMAIN all |-> Call(Governance, Handler, "fees", all[i])]
<1>1. IsSequence(all) /\ {all[i] : i \in DOMAIN all} = AllVaults  BY VaultAddresses
<1>2. \A e \in AllVaults : \E i \in DOMAIN all : all[i] = e  BY <1>1
<1>3. _get_all_vault_addresses = all  OBVIOUS
<1>. HIDE DEF all
<1>4. \A i \in DOMAIN all : all[i] \in AllVaults  BY <1>1
<1>5. unknown = {}  BY <1>4
<1>6. IsSequence(t)  BY <1>1, SameLength
<1>7. \A i \in DOMAIN t : \E e \in AllVaults : t[i] = Call(Governance, Handler, "fees", e)
    BY <1>4
<1>8. \A e \in AllVaults : \E i \in DOMAIN t : t[i] = Call(Governance, Handler, "fees", e)
    <2>. SUFFICES ASSUME NEW e \in AllVaults
                  PROVE  \E i \in DOMAIN t : t[i] = Call(Governance, Handler, "fees", e)
        OBVIOUS
    <2>1. PICK i \in DOMAIN all : all[i] = e  BY <1>2
    <2>2. i \in DOMAIN t /\ t[i] = Call(Governance, Handler, "fees", e)  BY <2>1
    <2>. QED  BY <2>2
<1>9. set_fees.steps = t \o <<>>
    BY <1>3, <1>5 DEF set_fees, Steps, Handler
<1>. HIDE DEF t
<1>10. t \o <<>> = t  BY <1>6, ConcatEmptySeq DEF IsSequence
<1>. QED  BY <1>6, <1>7, <1>8, <1>9, <1>10

FeesReady(name) == name = "vaults.set_fees" => \A e \in AllVaults : HasConfig(e)

LEMMA GoodFees ==
    ASSUME ContainersOK, Handed("vaults.set_fees"), FeesReady("vaults.set_fees")
    PROVE  Good("vaults.set_fees", set_fees.steps)
<1>. DEFINE name == "vaults.set_fees"
            t == set_fees.steps
<1>1. There("StaticPercentageFeeHandler")  BY DEF Handed, Hands
<1>2. \A e : Fits(name, Call(Governance, Handler, "fees", e))
    <2>1. /\ "fees" \in DOMAIN CallScript /\ CallScript["fees"] = name
          /\ CallTarget["fees"] = "StaticPercentageFeeHandler" /\ name \in ThroughGovernance
        BY DEF CallScript, CallTarget, ThroughGovernance
    <2>. QED  BY <1>1, <2>1, OthersFitWhen DEF Handler
<1>3. \A e : ~Final(Call(Governance, Handler, "fees", e))  BY DEF Final, Call
<1>4. IsSequence(t) /\ \A i \in DOMAIN t : \E e \in AllVaults : t[i] = Call(Governance, Handler, "fees", e)
    BY FeeSteps DEF FeesReady
<1>5. FitAll(name, t)  BY <1>2, <1>3, <1>4 DEF FitAll
<1>. HIDE DEF t
<1>. QED  BY <1>5, OnceAre, FitIsGood DEF t

LEMMA AllGood ==
    ASSUME ChainId = 1, ContainersOK, NEW name \in ScriptNames, Handed(name), FeesReady(name)
    PROVE  Good(name, Script(name).steps)
<1>1. ASSUME name \in vaults PROVE Good(name, Script(name).steps)
    <2>1. CASE name \in GenericSymbols
        <3>1. Script(name) = DeployVault("GenericVault", {"GyroConfig"}, name)
            BY <2>1, ScriptIs DEF generic
        <3>. QED  BY <1>1, <3>1, GoodVaults DEF VaultKinds
    <2>2. CASE name \in BalancerSymbols
        <3>1. Script(name) = DeployVault("BalancerPoolVault", {"GyroConfig"}, name)
            BY <2>2, ScriptIs DEF balancer
        <3>. QED  BY <1>1, <3>1, GoodVaults DEF VaultKinds
    <2>. QED  BY <1>1, <2>1, <2>2 DEF vaults
<1>2. ASSUME name \notin vaults PROVE Good(name, Script(name).steps)
    <2>. HIDE DEF Good, Handed, FeesReady
    <2>1. name \in {"proxy_admin.main", "governance_proxy.main", "config.main",
                    "gyd_token.main", "vault_registry.main", "asset_registry.main",
                    "reserve.main", "reserve.reserve_reader", "motherboard.main",
                    "rate_manager.main", "rate_manager.atoken_provider",
                    "compound_rate_provider.main", "chainlink.main", "tellor.main",
                    "coinbase.main", "vault_price_oracle.cpmm", "vault_price_oracle.g2clp",
                    "vault_price_oracle.g3clp", "vault_price_oracle.eclp", "batch.main",
                    "safety.reserve_safety_manager", "safety.vault_safety_mode"}
          => Good(name, Script(name).steps)
        BY ScriptIs, GoodDeploys
    <2>2. name \in {"reserve_manager.main", "pamm.main", "fee_handler.main", "safety.root",
                    "stewardship.main", "gyd_recovery.main"}
          => Good(name, Script(name).steps)
        BY ScriptIs, GoodPairs
    <2>3. name \in {"gyd_token.proxy", "vault_registry.proxy", "asset_registry.proxy",
                    "reserve.proxy", "motherboard.proxy"}
          => Good(name, Script(name).steps)
        BY ScriptIs, GoodProxies
    <2>4. name \in {"checked.main", "config.proxy", "governance_proxy.proxy",
                    "config.set_initial_config", "vault_price_oracle.generic"}
          => Good(name, Script(name).steps)
        BY ScriptIs, GoodFew
    <2>5. name \in {"asset_registry.initialize", "asset_registry.set_asset_ranges"}
          => Good(name, Script(name).steps)
        BY ScriptIs, GoodAssets DEF Initialize, SetRanges
    <2>6. name \in {"rate_manager.set_rate_providers", "checked.initialize",
                    "batch.initialize", "vaults.set_vaults"}
          => Good(name, Script(name).steps)
        BY ScriptIs, GoodPrints
    <2>7. name \in {"chainlink.set_feeds", "safety.register"} => Good(name, Script(name).steps)
        BY ScriptIs, GoodCalls DEF Register
    <2>8. name = "vaults.set_fees" => Good(name, Script(name).steps)
        BY ScriptIs, GoodFees
    <2>. QED
        BY <1>2, <2>1, <2>2, <2>3, <2>4, <2>5, <2>6, <2>7, <2>8 DEF ScriptNames
<1>. QED  BY <1>1, <1>2

\* The decorators hand a script the contracts it needs.
LEMMA HandsRule ==
    \A h \in Hands : HasRule(Script(h[1]), Deployed(h[2]))
<1>1. \A a, b, c, d, steps :
          /\ \A x \in {a} : HasRule(Steps(<<a>>, steps), x)
          /\ \A x \in {a, b} : HasRule(Steps(<<a, b>>, steps), x)
          /\ \A x \in {a, b, c} : HasRule(Steps(<<a, b, c>>, steps), x)
          /\ \A x \in {a, b, c, d} : HasRule(Steps(<<a, b, c, d>>, steps), x)
    <2>. SUFFICES ASSUME NEW a, NEW b, NEW c, NEW d, NEW steps
                  PROVE  /\ \A x \in {a} : HasRule(Steps(<<a>>, steps), x)
                         /\ \A x \in {a, b} : HasRule(Steps(<<a, b>>, steps), x)
                         /\ \A x \in {a, b, c} : HasRule(Steps(<<a, b, c>>, steps), x)
                         /\ \A x \in {a, b, c, d} : HasRule(Steps(<<a, b, c, d>>, steps), x)
        OBVIOUS
    <2>1. DOMAIN <<a>> = 1..1 /\ DOMAIN <<a, b>> = 1..2 /\ DOMAIN <<a, b, c>> = 1..3
          /\ DOMAIN <<a, b, c, d>> = 1..4
        OBVIOUS
    <2>2. /\ <<a>>[1] = a /\ <<a, b>>[1] = a /\ <<a, b>>[2] = b
          /\ <<a, b, c>>[1] = a /\ <<a, b, c>>[2] = b /\ <<a, b, c>>[3] = c
          /\ <<a, b, c, d>>[1] = a /\ <<a, b, c, d>>[2] = b
          /\ <<a, b, c, d>>[3] = c /\ <<a, b, c, d>>[4] = d
        OBVIOUS
    <2>3. 1 \in 1..1 /\ {1, 2} \subseteq 1..2 /\ {1, 2, 3} \subseteq 1..3 /\ {1, 2, 3, 4} \subseteq 1..4
        OBVIOUS
    <2>. QED  BY <2>1, <2>2, <2>3 DEF HasRule, Steps
<1>. HIDE DEF HasRule
<1>2. /\ HasRule(governance_proxy_proxy, Deployed("GovernanceProxy"))
      /\ HasRule(governance_proxy_proxy, Deployed("ProxyAdmin"))
      /\ HasRule(config_proxy, Deployed("GyroConfig"))
      /\ HasRule(gyd_token_proxy, Deployed("GydToken"))
      /\ HasRule(vault_registry_proxy, Deployed("VaultRegistry"))
      /\ HasRule(asset_registry_proxy, Deployed("AssetRegistry"))
      /\ HasRule(reserve_proxy, Deployed("Reserve"))
      /\ HasRule(motherboard_proxy, Deployed("Motherboard"))
    BY <1>1 DEF governance_proxy_proxy, config_proxy, gyd_token_proxy, vault_registry_proxy,
                asset_registry_proxy, reserve_proxy, motherboard_proxy, NeedsGovernedConfig
<1>3. /\ HasRule(reserve_reader, Deployed("ReserveManager"))
      /\ HasRule(reserve_reader, Deployed("PrimaryAMMV1"))
      /\ HasRule(set_feeds, Deployed("ChainlinkPriceOracle"))
      /\ HasRule(checked_main, Deployed("ChainlinkPriceOracle"))
      /\ HasRule(batch_main, Deployed("CheckedPriceOracle"))
      /\ HasRule(safety_register, Deployed("RootSafetyCheck"))
      /\ HasRule(safety_register, Deployed("VaultSafetyMode"))
      /\ HasRule(safety_register, Deployed("ReserveSafetyManager"))
      /\ HasRule(set_fees, Deployed("StaticPercentageFeeHandler"))
    BY <1>1 DEF reserve_reader, set_feeds, checked_main, batch_main, safety_register, set_fees
<1>. QED  BY <1>2, <1>3, ScriptIs DEF Hands


-----------------------------------------------------------------------------
(* What the steps leave alone.                                             *)

Moves == DeployNext \/ GovernanceChanges \/ UNCHANGED deployVars

\* A step of a script, by what it does.
LEMMA StepIs ==
    ASSUME DeployInv, StepOfScript
    PROVE  /\ TakesStep /\ running /\ running' /\ Name' = Name
           /\ 1 \in DOMAIN todo /\ IsSequence(todo) /\ IsSequence(todo') /\ todo # <<>>
           /\ \A i \in DOMAIN todo' : /\ i \in Nat /\ i > 0
                                      /\ i + 1 \in DOMAIN todo /\ todo'[i] = todo[i + 1]
           /\ Head(todo) = todo[1] /\ StepOf(Name, todo[1]) /\ Executable(todo[1])
           /\ UNCHANGED <<next, phase, cuts, retries, handover, done, reverted, torn>>
           /\ DeployStep => DoDeploy(todo[1])
           /\ ProxyStep => DoProxy(todo[1])
           /\ OverwriteStep => DoOverwrite(todo[1])
           /\ SetKeyStep => DoSetKey(todo[1])
           /\ CallStep => DoCall(todo[1])
           /\ AssetStep => DoAssetCall(todo[1])
           /\ TransferStep => DoTransfer(todo[1])
           /\ PrintStep => DoPrint(todo[1]) /\ printed' = printed \union {todo[1].batch}
           /\ ~PrintStep => printed' = printed
<1>1. TakesStep  BY FreeAddresses
<1>2. Head(todo) = todo[1]  BY <1>1, TakenStep DEF DeployInv
<1>3. UNCHANGED <<next, phase, cuts, retries, handover, done, reverted, torn>>
    BY <1>1 DEF TakesStep, limits, history
<1>4. IsSequence(todo) /\ todo # <<>>  BY <1>1 DEF TakesStep, DeployInv, TodoOK
<1>5. Name' = Name  BY <1>3 DEF Name
<1>. QED  BY <1>1, <1>2, <1>3, <1>4, <1>5, TakenStep
          DEF DeployInv, StepOfScript, DeployStep, ProxyStep, OverwriteStep, SetKeyStep, CallStep,
              AssetStep, TransferStep, PrintStep

\* What is left when a step was taken: its steps are the others.
LEMMA LeftOf ==
    ASSUME NEW i \in DOMAIN todo, i # 1, DeployInv, StepOfScript
    PROVE  /\ i - 1 \in DOMAIN todo' /\ todo'[i - 1] = todo[i]
           /\ Len(todo') = Len(todo) - 1
<1>1. IsSequence(todo) /\ todo # <<>> /\ todo' = Tail(todo)  BY StepIs DEF TakesStep
<1>2. /\ Len(todo) \in Nat /\ DOMAIN todo = 1..Len(todo)
      /\ Len(todo') \in Nat /\ Len(todo') = Len(todo) - 1 /\ DOMAIN todo' = 1..Len(todo')
      /\ \A j \in DOMAIN todo' : todo'[j] = todo[j + 1]
    BY <1>1, TailOf, LengthOf
<1>3. i - 1 \in DOMAIN todo' /\ (i - 1) + 1 = i  BY <1>2
<1>. QED  BY <1>2, <1>3

LEMMA StartIs ==
    ASSUME DeployInv, StartScript
    PROVE  /\ UNCHANGED <<chain, containers, config, registries, lists, next, printed, handover,
                          done, reverted, torn>>
           /\ ~running /\ running' /\ Name' = Name /\ todo' = Current.steps
           /\ Verdict(Current.rules) = "run" /\ next \in DOMAIN Plan /\ Name \in ScriptNames
           /\ \A c \in DOMAIN Adoption : ~ToAdopt(c)
<1>1. /\ UNCHANGED <<deployment, next, printed, cuts, handover, history>>
      /\ Idle /\ phase' = "running" /\ todo' = Current.steps
      /\ Verdict(Current.rules) = "run" /\ \A c \in DOMAIN Adoption : ~ToAdopt(c)
    BY DEF StartScript
<1>2. next \in DOMAIN Plan  BY <1>1, PlanLength DEF DeployInv, PlanOK, Idle
<1>3. Name \in ScriptNames  BY <1>2, PlanLength, PlanAssumption DEF Name
<1>4. Name' = Name  BY <1>1 DEF Name
<1>. QED  BY <1>1, <1>2, <1>3, <1>4 DEF deployment, history, Idle, running

\* A script ends, one way or another, or is skipped.
Ends == Finish \/ Revert \/ Cut \/ SkipScript \/ GoOn

LEMMA EndIs ==
    ASSUME DeployInv, Ends
    PROVE  /\ UNCHANGED <<chain, containers, config, registries, lists, printed, handover>>
           /\ ~running' /\ todo' = <<>>
           /\ done' = (IF Finish THEN done \union {Name} ELSE done)
           /\ reverted' = (IF Revert THEN reverted \union {Name} ELSE reverted)
<1>i. TodoOK /\ PlanOK  BY DEF DeployInv
<1>1. CASE Finish
    <2>1. ~Revert  BY <1>1 DEF Finish, Revert
    <2>. QED  BY <1>1, <2>1 DEF Finish, deployment, running
<1>2. CASE Revert
    <2>1. ~Finish  BY <1>2 DEF Finish, Revert
    <2>. QED  BY <1>2, <2>1 DEF Revert, deployment, running
<1>3. CASE Cut
    <2>1. ~Finish /\ ~Revert  BY <1>3, <1>i, PlanLength DEF Finish, Revert, Cut, PlanOK, running
    <2>. QED  BY <1>3, <2>1 DEF Cut, deployment, running
<1>4. CASE SkipScript \/ GoOn
    <2>1. ~running  BY <1>4 DEF SkipScript, Idle, GoOn, running
    <2>2. ~Finish /\ ~Revert /\ todo = <<>>  BY <2>1, <1>i DEF Finish, Revert, TodoOK
    <2>. QED  BY <1>4, <2>1, <2>2 DEF SkipScript, GoOn, deployment, history, running
<1>. QED  BY <1>1, <1>2, <1>3, <1>4 DEF Ends

\* What the operator and governance do between the scripts.
ByHand ==
    \/ DeployByHand \/ ChangeGovernor \/ AcceptGovernance \/ GovernanceChanges
    \/ \E c \in DOMAIN Adoption : Adopt(c)
    \/ \E batch \in printed : GovernanceExecutes(batch)

\* A change of one key leaves the others as they are.
LEMMA OthersSame ==
    ASSUME NEW key, NEW type, NEW word, NEW k, k # key
    PROVE  /\ /\ k \in DOMAIN Set(config, key, type, word) <=> k \in DOMAIN config
              /\ k \in DOMAIN config => Set(config, key, type, word)[k] = config[k]
           /\ /\ k \in DOMAIN Unset(config, key) <=> k \in DOMAIN config
              /\ k \in DOMAIN config => Unset(config, key)[k] = config[k]
           /\ /\ k \in DOMAIN Freeze(config, key) <=> k \in DOMAIN config
              /\ k \in DOMAIN config => Freeze(config, key)[k] = config[k]
BY DEF Set, Put, Unset, Freeze

\* The keys that governance changes are none of those the scripts set.
OfGovernance == Settings \union Treasuries \union {PoolKey[s] : s \in Settings}
                \union {TypeKey[s] : s \in Settings}

LEMMA GovernanceIs ==
    ASSUME DeployInv, GovernanceChanges
    PROVE  /\ UNCHANGED <<chain, containers, registries, lists, plan, printed, limits, handover,
                          history>>
           /\ handover = "accepted" /\ Settled
           /\ \A k : k \notin OfGovernance =>
                  /\ k \in DOMAIN config' <=> k \in DOMAIN config
                  /\ k \in DOMAIN config => config'[k] = config[k]
<1>. DEFINE Same(conf, key) == \A k : k # key => /\ k \in DOMAIN conf <=> k \in DOMAIN config
                                                 /\ k \in DOMAIN config => conf[k] = config[k]
<1>0. \A k \in GovernedKeys : k[1] \in OfGovernance
    BY DEF GovernedKeys, mk_set_vals, mk_pool_setting, Settings, Treasuries, OfGovernance
<1>1. \A key, type, word : /\ Same(Set(config, key, type, word), key)
                           /\ Same(Unset(config, key), key) /\ Same(Freeze(config, key), key)
    BY OthersSame
<1>. HIDE DEF Same
<1>2. ASSUME NEW k \in GovernedKeys, NEW w \in Fees, SetSetting(k[1], k[2], w)
      PROVE  \E conf, key : Changes(conf, key) /\ key \in OfGovernance /\ Same(conf, key)
    BY <1>0, <1>1, <1>2 DEF SetSetting
<1>3. ASSUME NEW k \in GovernedKeys, UnsetSetting(k[1]) \/ FreezeSetting(k[1])
      PROVE  \E conf, key : Changes(conf, key) /\ key \in OfGovernance /\ Same(conf, key)
    BY <1>0, <1>1, <1>3 DEF UnsetSetting, FreezeSetting
<1>4. PICK conf, key : Changes(conf, key) /\ key \in OfGovernance /\ Same(conf, key)
    BY <1>2, <1>3 DEF GovernanceChanges
<1>5. /\ UNCHANGED <<chain, containers, registries, lists, plan, printed, limits, handover,
                     history>>
      /\ handover = "accepted" /\ Settled /\ config' = conf
    BY <1>4 DEF Changes, Settled
<1>6. \A k : k \notin OfGovernance => /\ k \in DOMAIN config' <=> k \in DOMAIN config
                                      /\ k \in DOMAIN config => config'[k] = config[k]
    BY <1>4, <1>5 DEF Same
<1>. QED  BY <1>5, <1>6

LEMMA MovesAre ==
    Moves => StartScript \/ StepOfScript \/ Ends \/ ByHand \/ UNCHANGED deployVars
BY DEF Moves, DeployNext, Progress, Ends, ByHand

LEMMA HandIs ==
    ASSUME DeployInv, ByHand
    PROVE  /\ UNCHANGED <<next, phase, todo, done, reverted, torn, registries>>
           /\ ~running /\ ~running' /\ todo = <<>> /\ Name' = Name
<1>i. TodoOK /\ PlanOK  BY DEF DeployInv
<1>1. UNCHANGED <<next, phase, todo, done, reverted, torn, registries>>
    <2>1. ASSUME NEW c \in DOMAIN Adoption, Adopt(c)
          PROVE  UNCHANGED <<next, phase, todo, done, reverted, torn, registries>>
        BY <2>1 DEF Adopt, plan, history
    <2>2. ASSUME NEW batch \in printed, GovernanceExecutes(batch)
          PROVE  UNCHANGED <<next, phase, todo, done, reverted, torn, registries>>
        BY <2>2 DEF GovernanceExecutes, plan, history
    <2>3. ASSUME DeployByHand \/ ChangeGovernor \/ AcceptGovernance
          PROVE  UNCHANGED <<next, phase, todo, done, reverted, torn, registries>>
        BY <2>3 DEF DeployByHand, ChangeGovernor, AcceptGovernance, plan, history, deployment
    <2>4. ASSUME GovernanceChanges
          PROVE  UNCHANGED <<next, phase, todo, done, reverted, torn, registries>>
        BY <2>4, GovernanceIs DEF plan, history
    <2>. QED  BY <2>1, <2>2, <2>3, <2>4 DEF ByHand
<1>2. ~running
    <2>1. ASSUME handover # "none" PROVE ~running
        BY <2>1, <1>i, PlanLength DEF PlanOK, running
    <2>2. ASSUME NEW c \in DOMAIN Adoption, Adopt(c) PROVE ~running  BY <2>2 DEF Adopt
    <2>3. ASSUME NEW batch \in printed, GovernanceExecutes(batch) PROVE ~running
        BY <2>1, <2>3 DEF GovernanceExecutes
    <2>4. ASSUME DeployByHand \/ ChangeGovernor PROVE ~running
        BY <2>4 DEF DeployByHand, ChangeGovernor
    <2>5. ASSUME AcceptGovernance PROVE ~running  BY <2>1, <2>5 DEF AcceptGovernance
    <2>6. ASSUME GovernanceChanges PROVE ~running  BY <2>1, <2>6, GovernanceIs
    <2>. QED  BY <2>2, <2>3, <2>4, <2>5, <2>6 DEF ByHand
<1>. QED  BY <1>1, <1>2, <1>i DEF TodoOK, running, Name

\* The address of a new contract is free.
LEMMA Fresh ==
    ASSUME DeployInv, BaseInv, NEW c
    PROVE  New(c) \notin DOMAIN chain /\ NewProxy(c) \notin DOMAIN chain
<1>1. Count(c, FALSE) \in Nat /\ Count(c, TRUE) \in Nat  BY CountIs DEF DeployInv, ChainOK
<1>2. /\ New(c).contract = c /\ New(c).nth = Count(c, FALSE) + 1 /\ New(c).proxy = FALSE
      /\ NewProxy(c).contract = c /\ NewProxy(c).nth = Count(c, TRUE) + 1
      /\ NewProxy(c).proxy = TRUE
    BY DEF New, NewProxy, Address
<1>3. \A a \in DOMAIN chain : a.nth \in 1..Count(a.contract, a.proxy)  BY DEF BaseInv, NumbersOK
<1>4. ASSUME NEW a \in DOMAIN chain, NEW p \in BOOLEAN, a.contract = c, a.proxy = p,
             a.nth = Count(c, p) + 1
      PROVE  FALSE
    <2>1. a.nth \in 1..Count(c, p) /\ Count(c, p) \in Nat  BY <1>1, <1>3, <1>4
    <2>. QED  BY <1>4, <2>1
<1>. HIDE DEF New, NewProxy
<1>. QED  BY <1>2, <1>4

\* What is deployed at a free address.
Placed(a, governor, kept, label) ==
    /\ a \notin DOMAIN chain /\ DOMAIN chain' = DOMAIN chain \union {a}
    /\ chain'[a] = [governor |-> governor, kept |-> kept, label |-> label]
    /\ \A x \in DOMAIN chain : chain'[x] = chain[x]
    /\ Count(a.contract, a.proxy)' = Count(a.contract, a.proxy) + 1
    /\ \A c, p : c # a.contract \/ p # a.proxy => Count(c, p)' = Count(c, p)

LEMMA AddPlaces ==
    ASSUME IsFiniteSet(DOMAIN chain), NEW a, a \notin DOMAIN chain, NEW g, NEW kept, NEW l,
           Add(a, g, kept, l)
    PROVE  Placed(a, g, kept, l)
<1>1. /\ DOMAIN chain' = DOMAIN chain \union {a} /\ \A x \in DOMAIN chain : chain'[x] = chain[x]
      /\ chain'[a] = [governor |-> g, kept |-> kept, label |-> l]
    BY DEF Add, Put
<1>2. ASSUME NEW c, NEW p
      PROVE  Count(c, p)' = IF a.contract = c /\ a.proxy = p THEN Count(c, p) + 1 ELSE Count(c, p)
    <2>. DEFINE S == {x \in DOMAIN chain : x.contract = c /\ x.proxy = p}
                T == {x \in DOMAIN chain' : x.contract = c /\ x.proxy = p}
    <2>1. IsFiniteSet(S)  BY FS_Subset
    <2>2. Count(c, p) = Cardinality(S) /\ Count(c, p)' = Cardinality(T)  BY DEF Count
    <2>3. T = IF a.contract = c /\ a.proxy = p THEN S \union {a} ELSE S  BY <1>1
    <2>4. a \notin S  OBVIOUS
    <2>. HIDE DEF S, T
    <2>. QED  BY <2>1, <2>2, <2>3, <2>4, FS_AddElement
<1>3. Count(a.contract, a.proxy)' = Count(a.contract, a.proxy) + 1  BY <1>2
<1>4. \A c, p : c # a.contract \/ p # a.proxy => Count(c, p)' = Count(c, p)  BY <1>2
<1>. QED  BY <1>1, <1>3, <1>4 DEF Placed

HandOracle == "GenericVaultPriceOracle"

LEMMA DeployIs ==
    ASSUME DeployInv, BaseInv, DeployStep
    PROVE  /\ StepOfScript /\ todo[1].op = "deploy" /\ todo[1].at = New(todo[1].at.contract)
           /\ Placed(todo[1].at, todo[1].governor,
                     KeptBy(todo[1]), "")
           /\ containers' = [containers EXCEPT ![todo[1].at.contract] = Append(@, todo[1].at)]
           /\ UNCHANGED <<config, registries, lists, printed>>
           /\ \A k \in todo[1].keys : k \in DOMAIN config
<1>1. StepOfScript /\ ~PrintStep
    <2>1. DeployStep => Head(todo).op = "deploy"  BY DEF DeployStep, DoDeploy
    <2>2. PrintStep => Head(todo).op = "print"  BY DEF PrintStep, DoPrint
    <2>. QED  BY <2>1, <2>2 DEF StepOfScript
<1>2. DoDeploy(todo[1]) /\ StepOf(Name, todo[1]) /\ Executable(todo[1]) /\ UNCHANGED printed
    BY <1>1, StepIs
<1>3. todo[1].op = "deploy" /\ todo[1].at = New(todo[1].at.contract)
    BY <1>2 DEF DoDeploy, StepOf
<1>4. todo[1].at \notin DOMAIN chain  BY <1>3, Fresh
<1>5. Placed(todo[1].at, todo[1].governor,
             KeptBy(todo[1]), "")
    <2>1. IsFiniteSet(DOMAIN chain)  BY DEF DeployInv, ChainOK
    <2>. HIDE DEF Placed
    <2>2. \A l : Add(todo[1].at, todo[1].governor,
                     KeptBy(todo[1]), l) =>
                 Placed(todo[1].at, todo[1].governor,
                     KeptBy(todo[1]), l)
        BY <2>1, <1>4, AddPlaces
    <2>. QED  BY <1>2, <2>2 DEF DoDeploy
<1>6. \A k \in todo[1].keys : k \in DOMAIN config
    BY <1>2, <1>3 DEF Executable, Readable, HasKey
<1>. QED  BY <1>1, <1>2, <1>3, <1>5, <1>6 DEF DoDeploy

LEMMA ProxyIs ==
    ASSUME DeployInv, BaseInv, ProxyStep
    PROVE  /\ StepOfScript /\ todo[1].op = "proxy" /\ todo[1].at = NewProxy(todo[1].at.contract)
           /\ Placed(todo[1].at, todo[1].governor, [k \in {} |-> {}], todo[1].label)
           /\ registries' = IF todo[1].at.contract = "AssetRegistry"
                            THEN Put(registries, todo[1].at, EmptyRegistry) ELSE registries
           /\ UNCHANGED <<containers, config, lists, printed>>
<1>1. StepOfScript /\ ~PrintStep
    <2>1. ProxyStep => Head(todo).op = "proxy"  BY DEF ProxyStep, DoProxy
    <2>2. PrintStep => Head(todo).op = "print"  BY DEF PrintStep, DoPrint
    <2>. QED  BY <2>1, <2>2 DEF StepOfScript
<1>2. DoProxy(todo[1]) /\ StepOf(Name, todo[1]) /\ UNCHANGED printed
    BY <1>1, StepIs
<1>3. todo[1].op = "proxy" /\ todo[1].at = NewProxy(todo[1].at.contract)
    BY <1>2 DEF DoProxy, StepOf
<1>4. todo[1].at \notin DOMAIN chain  BY <1>3, Fresh
<1>5. Placed(todo[1].at, todo[1].governor, [k \in {} |-> {}], todo[1].label)
    <2>1. IsFiniteSet(DOMAIN chain)  BY DEF DeployInv, ChainOK
    <2>. QED  BY <1>2, <1>4, <2>1, AddPlaces DEF DoProxy
<1>. QED  BY <1>1, <1>2, <1>3, <1>5 DEF DoProxy

LEMMA OtherSteps ==
    ASSUME DeployInv
    PROVE  /\ OverwriteStep =>
                  /\ todo[1].op = "overwrite" /\ UNCHANGED <<chain, config, registries, lists, printed>>
                  /\ todo[1].implementation.contract \in VaultKinds
                  /\ todo[1].proxy.contract = todo[1].implementation.contract
                  /\ containers' = [containers EXCEPT ![todo[1].implementation.contract] =
                        Append(RemoveFirst(containers[todo[1].implementation.contract],
                                           todo[1].implementation), todo[1].proxy)]
           /\ SetKeyStep =>
                  /\ todo[1].op = "setKey"
                  /\ UNCHANGED <<chain, containers, registries, lists, printed>>
                  /\ config' = Set(config, todo[1].key, todo[1].type, todo[1].word)
           /\ CallStep =>
                  /\ todo[1].op = "call"
                  /\ UNCHANGED <<chain, containers, config, registries, printed>>
                  /\ lists' = lists \union {<<todo[1].target, todo[1].list, todo[1].element>>}
           /\ AssetStep =>
                  /\ todo[1].op = "asset" /\ UNCHANGED <<chain, containers, config, lists, printed>>
           /\ TransferStep =>
                  /\ todo[1].op = "transfer"
                  /\ UNCHANGED <<containers, config, registries, lists, printed>>
                  /\ chain' = [chain EXCEPT ![todo[1].target].governor = todo[1].to]
           /\ PrintStep =>
                  /\ todo[1].op = "print" /\ printed' = printed \union {todo[1].batch}
                  /\ UNCHANGED <<chain, containers, config, registries, lists>>
<1>1. OverwriteStep \/ SetKeyStep \/ CallStep \/ AssetStep \/ TransferStep \/ PrintStep
        => TakesStep
    BY DEF OverwriteStep, SetKeyStep, CallStep, AssetStep, TransferStep, PrintStep
<1>2. TakesStep => Head(todo) = todo[1] /\ StepOf(Name, todo[1])  BY TakenStep DEF DeployInv
<1>. QED  BY <1>1, <1>2 DEF OverwriteStep, SetKeyStep, CallStep, AssetStep, TransferStep, PrintStep,
          DoOverwrite, DoSetKey, DoCall, DoAssetCall, DoTransfer, DoPrint, deployment, StepOf,
          VaultKinds

LEMMA HandPlaces ==
    ASSUME DeployInv, BaseInv, DeployByHand
    PROVE  /\ Placed(New(HandOracle), NoAddress, [c \in {"GyroConfig"} |-> Config], "")
           /\ containers[HandOracle] = <<>>
           /\ containers' = [containers EXCEPT ![HandOracle] = <<New(HandOracle)>>]
           /\ UNCHANGED <<config, registries, lists, printed, handover>>
           /\ HandOracle \in Contracts
           /\ New(HandOracle).contract = HandOracle /\ New(HandOracle).proxy = FALSE
           /\ "vault_price_oracle.generic" \in Passed
<1>. DEFINE a == New(HandOracle)
<1>1. a \notin DOMAIN chain  BY Fresh
<1>2. \A l : Add(a, NoAddress, [c \in {"GyroConfig"} |-> Config], l) =>
                 Placed(a, NoAddress, [c \in {"GyroConfig"} |-> Config], l)
    <2>1. IsFiniteSet(DOMAIN chain)  BY DEF DeployInv, ChainOK
    <2>. HIDE DEF Placed, a
    <2>. QED  BY <1>1, <2>1, AddPlaces
<1>3. a.contract = HandOracle /\ a.proxy = FALSE  BY DEF New, Address
<1>. HIDE DEF Placed
<1>4. HandOracle \in Contracts  BY ContractsAre DEF HandOracle
<1>. QED  BY <1>2, <1>3, <1>4 DEF DeployByHand, HandOracle

\* The chain: a contract is only deployed by a script or by hand, and its governor
\* only changes when a script or the multisig takes it over.
ChainGrows ==
    /\ DOMAIN chain \subseteq DOMAIN chain'
    /\ \A a \in DOMAIN chain : /\ DOMAIN chain'[a] = DOMAIN chain[a]
                               /\ chain'[a].kept = chain[a].kept
                               /\ chain'[a].label = chain[a].label
    /\ \A a \in DOMAIN chain :
           \/ chain'[a].governor = chain[a].governor
           \/ TransferStep /\ a = todo[1].target /\ chain'[a].governor = todo[1].to
           \/ AcceptGovernance /\ a = Governance /\ handover' = "accepted"
    /\ \A c, p : Count(c, p) \in Nat /\ Count(c, p)' \in Nat /\ Count(c, p)' >= Count(c, p)
    /\ \A a \in DOMAIN chain' \ DOMAIN chain :
           /\ a.nth = Count(a.contract, a.proxy)' /\ Count(a.contract, a.proxy)' >= 1
           /\ a = Address(a.contract, a.nth, a.proxy)
           /\ DOMAIN chain'[a] = {"governor", "kept", "label"}
    /\ \A a \in DOMAIN chain' \ DOMAIN chain :
           \/ DeployStep /\ a = todo[1].at /\ ~a.proxy
           \/ ProxyStep /\ a = todo[1].at /\ a.proxy
           \/ DeployByHand /\ a = New(HandOracle) /\ ~a.proxy

LEMMA SameChainGrows ==
    ASSUME DeployInv, UNCHANGED chain
    PROVE  ChainGrows
<1>1. \A c, p : Count(c, p) \in Nat  BY CountIs DEF DeployInv, ChainOK
<1>2. \A c, p : Count(c, p)' = Count(c, p)  BY DEF Count
<1>. QED  BY <1>1, <1>2 DEF ChainGrows

LEMMA PlacedGrows ==
    ASSUME DeployInv, NEW c, NEW p \in BOOLEAN, NEW a, a = Address(c, Count(c, p) + 1, p),
           NEW g, NEW kept, NEW l, Placed(a, g, kept, l),
           \/ DeployStep /\ a = todo[1].at /\ ~a.proxy
           \/ ProxyStep /\ a = todo[1].at /\ a.proxy
           \/ DeployByHand /\ a = New(HandOracle) /\ ~a.proxy
    PROVE  ChainGrows
<1>1. \A d, q : Count(d, q) \in Nat  BY CountIs DEF DeployInv, ChainOK
<1>2. a.contract = c /\ a.nth = Count(c, p) + 1 /\ a.proxy = p  BY DEF Address
<1>3. \A d, q : Count(d, q)' \in Nat /\ Count(d, q)' >= Count(d, q)
    <2>. SUFFICES ASSUME NEW d, NEW q PROVE Count(d, q)' \in Nat /\ Count(d, q)' >= Count(d, q)
        OBVIOUS
    <2>1. CASE d # c \/ q # p
        <3>1. Count(d, q)' = Count(d, q)  BY <1>2, <2>1 DEF Placed
        <3>. QED  BY <1>1, <3>1
    <2>2. CASE d = c /\ q = p
        <3>1. Count(d, q)' = Count(d, q) + 1  BY <1>2, <2>2 DEF Placed
        <3>. QED  BY <1>1, <3>1
    <2>. QED  BY <2>1, <2>2
<1>4. DOMAIN chain' \ DOMAIN chain = {a}  BY DEF Placed
<1>5. /\ a.nth = Count(a.contract, a.proxy)' /\ Count(a.contract, a.proxy)' >= 1
      /\ a = Address(a.contract, a.nth, a.proxy)
      /\ DOMAIN chain'[a] = {"governor", "kept", "label"}
    <2>1. Count(c, p)' = Count(c, p) + 1  BY <1>2 DEF Placed
    <2>2. chain'[a] = [governor |-> g, kept |-> kept, label |-> l]  BY DEF Placed
    <2>3. Count(c, p) \in Nat  BY <1>1
    <2>. QED  BY <1>2, <2>1, <2>2, <2>3
<1>6. /\ DOMAIN chain \subseteq DOMAIN chain' /\ \A x \in DOMAIN chain : chain'[x] = chain[x]
    BY DEF Placed
<1>. QED  BY <1>1, <1>3, <1>4, <1>5, <1>6 DEF ChainGrows

LEMMA ChainFrame ==
    ASSUME DeployInv, BaseInv, Moves
    PROVE  ChainGrows
<1>1. CASE UNCHANGED chain  BY <1>1, SameChainGrows
<1>2. CASE DeployStep
    <2>. DEFINE a == todo[1].at
    <2>1. a = Address(a.contract, Count(a.contract, FALSE) + 1, FALSE) /\ a.proxy = FALSE
        <3>1. a = New(a.contract)  BY <1>2, DeployIs
        <3>2. \A c : New(c).proxy = FALSE /\ New(c) = Address(c, Count(c, FALSE) + 1, FALSE)
            BY DEF New, Address
        <3>. HIDE DEF a
        <3>. QED  BY <3>1, <3>2
    <2>2. Placed(a, todo[1].governor, KeptBy(todo[1]), "")
        BY <1>2, DeployIs
    <2>3. \A g, kept, l : Placed(a, g, kept, l) => ChainGrows
        <3>. HIDE DEF ChainGrows, Placed
        <3>1. a.proxy = FALSE /\ a = todo[1].at /\ FALSE \in BOOLEAN  BY <2>1
        <3>. HIDE DEF a
        <3>. QED  BY <1>2, <2>1, <3>1, PlacedGrows
    <2>. HIDE DEF a, Placed, ChainGrows
    <2>4. \A kept : Placed(a, todo[1].governor, kept, "") => ChainGrows  BY <2>3
    <2>. QED  BY <2>2, <2>4
<1>3. CASE ProxyStep
    <2>. DEFINE a == todo[1].at
    <2>1. a = Address(a.contract, Count(a.contract, TRUE) + 1, TRUE) /\ a.proxy = TRUE
        <3>1. a = NewProxy(a.contract)  BY <1>3, ProxyIs
        <3>2. \A c : NewProxy(c).proxy = TRUE
                     /\ NewProxy(c) = Address(c, Count(c, TRUE) + 1, TRUE)
            BY DEF NewProxy, Address
        <3>. HIDE DEF a
        <3>. QED  BY <3>1, <3>2
    <2>2. Placed(a, todo[1].governor, [k \in {} |-> {}], todo[1].label)  BY <1>3, ProxyIs
    <2>3. \A g, kept, l : Placed(a, g, kept, l) => ChainGrows
        <3>. HIDE DEF ChainGrows, Placed
        <3>1. a.proxy = TRUE /\ a = todo[1].at /\ TRUE \in BOOLEAN  BY <2>1
        <3>. HIDE DEF a
        <3>. QED  BY <1>3, <2>1, <3>1, PlacedGrows
    <2>. HIDE DEF a, Placed, ChainGrows
    <2>. QED  BY <2>2, <2>3
<1>4. CASE DeployByHand
    <2>. DEFINE a == New(HandOracle)
    <2>1. a = Address(HandOracle, Count(HandOracle, FALSE) + 1, FALSE) /\ a.proxy = FALSE
        BY DEF New, Address
    <2>2. Placed(a, NoAddress, [c \in {"GyroConfig"} |-> Config], "")  BY <1>4, HandPlaces
    <2>3. \A g, kept, l : Placed(a, g, kept, l) => ChainGrows
        <3>. HIDE DEF ChainGrows, Placed
        <3>1. a.proxy = FALSE /\ a = New(HandOracle) /\ FALSE \in BOOLEAN  BY <2>1
        <3>. HIDE DEF a
        <3>. QED  BY <1>4, <2>1, <3>1, PlacedGrows
    <2>. HIDE DEF a, Placed, ChainGrows
    <2>4. \A kept : Placed(a, NoAddress, kept, "") => ChainGrows  BY <2>3
    <2>. QED  BY <2>2, <2>4
<1>5. CASE TransferStep \/ AcceptGovernance
    <2>1. \/ /\ TransferStep /\ chain' = [chain EXCEPT ![todo[1].target].governor = todo[1].to]
          \/ /\ AcceptGovernance /\ handover' = "accepted"
             /\ chain' = [chain EXCEPT ![Governance].governor = Multisig]
        BY <1>5, OtherSteps DEF AcceptGovernance
    <2>2. \A c, p : Count(c, p) \in Nat  BY CountIs DEF DeployInv, ChainOK
    <2>3. \A c, p : Count(c, p)' = Count(c, p)
        <3>1. DOMAIN chain' = DOMAIN chain  BY <2>1
        <3>. QED  BY <3>1 DEF Count
    <2>4. \A a \in DOMAIN chain : DOMAIN chain[a] = {"governor", "kept", "label"}
        BY DEF BaseInv, NumbersOK
    <2>. QED  BY <2>1, <2>2, <2>3, <2>4 DEF ChainGrows
<1>6. \/ UNCHANGED chain \/ DeployStep \/ ProxyStep \/ DeployByHand \/ TransferStep
      \/ AcceptGovernance
    <2>1. ASSUME NEW c \in DOMAIN Adoption, Adopt(c) PROVE UNCHANGED chain  BY <2>1 DEF Adopt
    <2>2. ASSUME NEW batch \in printed, GovernanceExecutes(batch) PROVE UNCHANGED chain
        BY <2>2 DEF GovernanceExecutes
    <2>3. ChangeGovernor => UNCHANGED chain  BY DEF ChangeGovernor, deployment
    <2>4. StartScript \/ Ends \/ GovernanceChanges => UNCHANGED chain
        BY StartIs, EndIs, GovernanceIs
    <2>5. UNCHANGED deployVars => UNCHANGED chain  BY DEF deployVars, deployment
    <2>6. OverwriteStep \/ SetKeyStep \/ CallStep \/ AssetStep \/ PrintStep => UNCHANGED chain
        BY OtherSteps
    <2>. QED  BY <2>1, <2>2, <2>3, <2>4, <2>5, <2>6, MovesAre DEF ByHand, StepOfScript
<1>. QED  BY <1>1, <1>2, <1>3, <1>4, <1>5, <1>6

\* The containers.
ContainerMoves(c) ==
    \/ containers'[c] = containers[c]
    \/ /\ DeployStep /\ c = todo[1].at.contract
       /\ containers'[c] = Append(containers[c], todo[1].at)
    \/ /\ OverwriteStep /\ c \in VaultKinds /\ c = todo[1].implementation.contract
       /\ containers'[c] = Append(RemoveFirst(containers[c], todo[1].implementation),
                                  todo[1].proxy)
    \/ /\ DeployByHand /\ c = HandOracle /\ containers[c] = <<>>
       /\ containers'[c] = <<New(HandOracle)>>
    \/ /\ Adopt(c) /\ c \in DOMAIN Adoption
       /\ containers'[c] = <<Address(c, Count(c, TRUE), TRUE)>>

LEMMA ContainerFrame ==
    ASSUME DeployInv, BaseInv, Moves, NEW c \in Contracts
    PROVE  ContainerMoves(c)
<1>i. DOMAIN containers = Contracts  BY DEF DeployInv, ContainersOK
<1>. HIDE DEF Contracts
<1>1. CASE UNCHANGED containers  BY <1>1 DEF ContainerMoves
<1>2. CASE DeployStep
    <2>1. containers' = [containers EXCEPT ![todo[1].at.contract] = Append(@, todo[1].at)]
        BY <1>2, DeployIs
    <2>. QED  BY <1>2, <1>i, <2>1 DEF ContainerMoves
<1>3. CASE OverwriteStep
    <2>1. /\ todo[1].implementation.contract \in VaultKinds
          /\ containers' = [containers EXCEPT ![todo[1].implementation.contract] =
                        Append(RemoveFirst(containers[todo[1].implementation.contract],
                                           todo[1].implementation), todo[1].proxy)]
        BY <1>3, OtherSteps
    <2>. QED  BY <1>3, <1>i, <2>1 DEF ContainerMoves
<1>4. CASE DeployByHand
    <2>1. /\ containers[HandOracle] = <<>>
          /\ containers' = [containers EXCEPT ![HandOracle] = <<New(HandOracle)>>]
        BY <1>4, HandPlaces
    <2>. HIDE DEF HandOracle
    <2>. QED  BY <1>4, <1>i, <2>1 DEF ContainerMoves
<1>5. ASSUME NEW d \in DOMAIN Adoption, Adopt(d) PROVE ContainerMoves(c)
    <2>1. containers' = [containers EXCEPT ![d] = <<Address(d, Count(d, TRUE), TRUE)>>]
        BY <1>5 DEF Adopt
    <2>. QED  BY <1>5, <1>i, <2>1 DEF ContainerMoves
<1>6. \/ UNCHANGED containers \/ DeployStep \/ OverwriteStep \/ DeployByHand
      \/ \E d \in DOMAIN Adoption : Adopt(d)
    <2>2. ASSUME NEW batch \in printed, GovernanceExecutes(batch) PROVE UNCHANGED containers
        BY <2>2 DEF GovernanceExecutes
    <2>3. ChangeGovernor \/ AcceptGovernance => UNCHANGED containers
        BY DEF ChangeGovernor, AcceptGovernance, deployment
    <2>4. StartScript \/ Ends \/ GovernanceChanges => UNCHANGED containers
        BY StartIs, EndIs, GovernanceIs
    <2>5. UNCHANGED deployVars => UNCHANGED containers  BY DEF deployVars, deployment
    <2>6. ProxyStep \/ SetKeyStep \/ CallStep \/ AssetStep \/ TransferStep \/ PrintStep
              => UNCHANGED containers
        BY OtherSteps, ProxyIs
    <2>. QED  BY <2>2, <2>3, <2>4, <2>5, <2>6, MovesAre DEF ByHand, StepOfScript
<1>. QED  BY <1>1, <1>2, <1>3, <1>4, <1>5, <1>6

\* The configuration: of the keys the scripts read, a script sets one at a time.
Scripted(k) == k \notin OfGovernance /\ k # "ROOT_PRICE_ORACLE"

LEMMA ConfigFrame ==
    ASSUME DeployInv, BaseInv, Moves, NEW k, Scripted(k)
    PROVE  /\ k \in DOMAIN config => k \in DOMAIN config'
           /\ \/ /\ k \in DOMAIN config' <=> k \in DOMAIN config
                 /\ k \in DOMAIN config => config'[k] = config[k]
              \/ /\ SetKeyStep /\ k = todo[1].key /\ k \in DOMAIN config'
                 /\ config'[k].value = todo[1].word /\ config'[k].type = todo[1].type
<1>1. CASE UNCHANGED config  BY <1>1
<1>2. CASE SetKeyStep
    <2>1. config' = Set(config, todo[1].key, todo[1].type, todo[1].word)
        BY <1>2, OtherSteps
    <2>2. CASE k = todo[1].key  BY <1>2, <2>1, <2>2 DEF Set, Put
    <2>3. CASE k # todo[1].key  BY <2>1, <2>3, OthersSame
    <2>. QED  BY <2>2, <2>3
<1>3. CASE GovernanceChanges  BY <1>3, GovernanceIs DEF Scripted
<1>4. ASSUME NEW batch \in printed, GovernanceExecutes(batch), ~UNCHANGED config
      PROVE  \E w : config' = Set(config, "ROOT_PRICE_ORACLE", "address", w)
    BY <1>4 DEF GovernanceExecutes
<1>5. ASSUME NEW w, config' = Set(config, "ROOT_PRICE_ORACLE", "address", w)
      PROVE  /\ k \in DOMAIN config' <=> k \in DOMAIN config
             /\ k \in DOMAIN config => config'[k] = config[k]
    BY <1>5, OthersSame DEF Scripted
<1>6. \/ UNCHANGED config \/ SetKeyStep \/ GovernanceChanges
      \/ \E batch \in printed : GovernanceExecutes(batch) /\ ~UNCHANGED config
    <2>1. ASSUME NEW c \in DOMAIN Adoption, Adopt(c) PROVE UNCHANGED config  BY <2>1 DEF Adopt
    <2>2. DeployByHand => UNCHANGED config  BY DEF DeployByHand
    <2>3. ChangeGovernor \/ AcceptGovernance => UNCHANGED config
        BY DEF ChangeGovernor, AcceptGovernance, deployment
    <2>4. StartScript \/ Ends => UNCHANGED config  BY StartIs, EndIs
    <2>5. UNCHANGED deployVars => UNCHANGED config  BY DEF deployVars, deployment
    <2>6. DeployStep \/ ProxyStep \/ OverwriteStep \/ CallStep \/ AssetStep \/ TransferStep
          \/ PrintStep => UNCHANGED config
        BY OtherSteps, ProxyIs, DeployIs
    <2>. QED  BY <2>1, <2>2, <2>3, <2>4, <2>5, <2>6, MovesAre DEF ByHand, StepOfScript
<1>. QED  BY <1>1, <1>2, <1>3, <1>4, <1>5, <1>6

LEMMA ScriptedKeys ==
    \A k : k \in DOMAIN Roles \/ k = "BALANCER_VAULT" => Scripted(k) /\ k \in AddressKeys
<1>1. /\ {PoolKey[s] : s \in Settings} = {"SWAP_FEE of pool", "GYRO_PORTION of pool"}
      /\ {TypeKey[s] : s \in Settings} = {"SWAP_FEE of type", "GYRO_PORTION of type"}
    <2>. HIDE DEF PoolKey, TypeKey, Settings
    <2>. QED  BY KeysAre
<1>2. OfGovernance = {"PROTOCOL_SWAP_FEE_PERC", "PROTOCOL_FEE_GYRO_PORTION", "BAL_TREASURY",
                      "GYRO_TREASURY", "SWAP_FEE of pool", "GYRO_PORTION of pool",
                      "SWAP_FEE of type", "GYRO_PORTION of type"}
    BY <1>1 DEF OfGovernance, Settings, Treasuries
<1>. QED  BY <1>2 DEF Scripted, AddressKeys, Roles

\* The registries,
LEMMA RegistryFrame ==
    ASSUME DeployInv, BaseInv, Moves
    PROVE  UNCHANGED registries \/ ProxyStep \/ AssetStep
<1>1. DeployStep \/ OverwriteStep \/ SetKeyStep \/ CallStep \/ TransferStep \/ PrintStep
          => UNCHANGED registries
    BY OtherSteps, DeployIs
<1>2. UNCHANGED deployVars => UNCHANGED registries  BY DEF deployVars, deployment
<1>. QED  BY <1>1, <1>2, MovesAre, StartIs, EndIs, HandIs DEF StepOfScript

\* the lists of calls
LEMMA ListFrame ==
    ASSUME DeployInv, BaseInv, Moves
    PROVE  /\ lists \subseteq lists'
           /\ \/ UNCHANGED lists
              \/ CallStep
              \/ \E batch \in printed : /\ GovernanceExecutes(batch)
                                        /\ \A m \in lists' \ lists :
                                             \E i \in DOMAIN batch : m[2] = batch[i].list
<1>1. ASSUME NEW c \in DOMAIN Adoption, Adopt(c) PROVE UNCHANGED lists  BY <1>1 DEF Adopt
<1>2. DeployByHand \/ ChangeGovernor \/ AcceptGovernance => UNCHANGED lists
    BY DEF DeployByHand, ChangeGovernor, AcceptGovernance, deployment
<1>3. StartScript \/ Ends \/ GovernanceChanges => UNCHANGED lists
    BY StartIs, EndIs, GovernanceIs
<1>4. UNCHANGED deployVars => UNCHANGED lists  BY DEF deployVars, deployment
<1>5. DeployStep \/ ProxyStep \/ OverwriteStep \/ SetKeyStep \/ AssetStep \/ TransferStep
      \/ PrintStep => UNCHANGED lists
    BY OtherSteps, ProxyIs, DeployIs
<1>6. CallStep => lists \subseteq lists'  BY OtherSteps
<1>7. ASSUME NEW batch \in printed, GovernanceExecutes(batch)
      PROVE  /\ lists \subseteq lists'
             /\ \A m \in lists' \ lists : \E i \in DOMAIN batch : m[2] = batch[i].list
    <2>1. ASSUME NEW m \in lists' \ lists PROVE \E i \in DOMAIN batch : m[2] = batch[i].list
        <3>1. \E i \in DOMAIN batch : m = <<batch[i].target, batch[i].list, batch[i].element>>
            BY <1>7, <2>1 DEF GovernanceExecutes
        <3>. QED  BY <3>1
    <2>. QED  BY <1>7, <2>1 DEF GovernanceExecutes
<1>. QED  BY <1>1, <1>2, <1>3, <1>4, <1>5, <1>6, <1>7, MovesAre DEF ByHand, StepOfScript

\* and the history.
LEMMA HistoryFrame ==
    ASSUME DeployInv, BaseInv, Moves
    PROVE  /\ done \subseteq done' /\ reverted \subseteq reverted' /\ torn \subseteq torn'
           /\ done' # done => Finish /\ done' = done \union {Name}
           /\ reverted' # reverted => Revert /\ reverted' = reverted \union {Name}
           /\ Passed \subseteq Passed'
           /\ ~running /\ running' => StartScript
           /\ running /\ running' => StepOfScript \/ (UNCHANGED deployVars)
           /\ running' => Name' = Name
<1>1. StartScript \/ StepOfScript \/ ByHand \/ UNCHANGED deployVars
          => UNCHANGED <<next, done, reverted, torn>>
    BY StartIs, StepIs, HandIs DEF deployVars, plan, history
<1>2. UNCHANGED next => Passed' = Passed  BY DEF Passed
<1>3. Ends => DeployNext  BY DEF Ends, DeployNext, Progress
<1>4. Ends => /\ ~running' /\ done \subseteq done' /\ reverted \subseteq reverted'
              /\ torn \subseteq torn' /\ Passed \subseteq Passed'
    BY <1>3, EndIs, PassedGrows
<1>5. Ends => /\ done' # done => Finish /\ done' = done \union {Name}
              /\ reverted' # reverted => Revert /\ reverted' = reverted \union {Name}
    BY EndIs
<1>6. StartScript => ~running /\ running' /\ Name' = Name  BY StartIs
<1>7. StepOfScript => running /\ running' /\ Name' = Name  BY StepIs
<1>8. ByHand => ~running /\ ~running'  BY HandIs
<1>9. UNCHANGED deployVars => (running' <=> running) /\ Name' = Name
    BY DEF deployVars, plan, running, Name
<1>. QED  BY <1>1, <1>2, <1>4, <1>5, <1>6, <1>7, <1>8, <1>9, MovesAre

-----------------------------------------------------------------------------
(* What always holds is kept.                                              *)

\* A container stays filled, and one that lists a single contract keeps it unless
\* the operator adopts its proxy.
LEMMA Filled ==
    ASSUME DeployInv, BaseInv, Moves, NEW c \in Contracts, There(c)
    PROVE  There(c)'
<1>1. ContainerMoves(c) /\ IsSequence(containers[c])
    <2>. HIDE DEF Contracts
    <2>. QED  BY ContainerFrame DEF DeployInv, ContainersOK
<1>2. \A s, x : IsSequence(s) => Append(s, x) # <<>>  BY Appended
<1>3. \A e : IsSequence(RemoveFirst(containers[c], e))  BY <1>1, FirstRemoved
<1>4. CASE OverwriteStep /\ containers'[c] = Append(RemoveFirst(containers[c], todo[1].implementation),
                                                     todo[1].proxy)
    <2>. DEFINE s == RemoveFirst(containers[c], todo[1].implementation)
    <2>1. IsSequence(s) /\ containers'[c] = Append(s, todo[1].proxy)  BY <1>3, <1>4
    <2>. HIDE DEF s
    <2>. QED  BY <1>2, <2>1 DEF There
<1>5. \A x : <<x>> # <<>>  OBVIOUS
<1>. QED  BY <1>1, <1>2, <1>4, <1>5 DEF ContainerMoves, There

LEMMA SingleStays ==
    ASSUME DeployInv, BaseInv, Moves, NEW c \in DOMAIN Makers, There(c)
    PROVE  \/ containers'[c] = containers[c]
           \/ /\ Adopt(c) /\ c \in DOMAIN Adoption
              /\ containers'[c] = <<Address(c, Count(c, TRUE), TRUE)>>
<1>1. ContainerMoves(c)
    <2>1. c \in Contracts  BY ContractsAre
    <2>. HIDE DEF Contracts
    <2>. QED  BY <2>1, ContainerFrame
<1>2. c \notin VaultKinds  BY ContractsAre DEF VaultKinds
<1>3. ASSUME DeployStep, c = todo[1].at.contract PROVE FALSE
    <2>1. todo[1].op = "deploy" /\ StepOfScript  BY <1>3, DeployIs
    <2>2. running /\ 1 \in DOMAIN todo  BY <2>1, StepIs
    <2>3. containers[c] = <<>>  BY <1>3, <2>1, <2>2 DEF BaseInv, SinglesOK
    <2>. QED  BY <2>3 DEF There
<1>. QED  BY <1>1, <1>2, <1>3 DEF ContainerMoves, There

LEMMA NumbersStep ==
    ASSUME DeployInv, BaseInv, Moves
    PROVE  NumbersOK'
<1>1. ChainGrows  BY ChainFrame
<1>2. ASSUME NEW a \in DOMAIN chain, NEW n \in Nat, n >= Count(a.contract, a.proxy)
      PROVE  a.nth \in 1..n
    <2>1. a.nth \in 1..Count(a.contract, a.proxy) /\ Count(a.contract, a.proxy) \in Nat
        BY <1>1 DEF BaseInv, NumbersOK, ChainGrows
    <2>. QED  BY <1>2, <2>1
<1>3. ASSUME NEW a \in DOMAIN chain'
      PROVE  /\ a = Address(a.contract, a.nth, a.proxy)
             /\ a.nth \in 1..Count(a.contract, a.proxy)'
             /\ DOMAIN chain'[a] = {"governor", "kept", "label"}
    <2>1. CASE a \in DOMAIN chain
        <3>1. a = Address(a.contract, a.nth, a.proxy) /\ DOMAIN chain[a] = {"governor", "kept", "label"}
            BY <2>1 DEF BaseInv, NumbersOK
        <3>2. /\ DOMAIN chain'[a] = DOMAIN chain[a] /\ Count(a.contract, a.proxy)' \in Nat
              /\ Count(a.contract, a.proxy)' >= Count(a.contract, a.proxy)
            BY <1>1, <2>1 DEF ChainGrows
        <3>. QED  BY <1>2, <2>1, <3>1, <3>2
    <2>2. CASE a \notin DOMAIN chain
        <3>1. /\ a.nth = Count(a.contract, a.proxy)' /\ Count(a.contract, a.proxy)' >= 1
              /\ Count(a.contract, a.proxy)' \in Nat
              /\ a = Address(a.contract, a.nth, a.proxy)
              /\ DOMAIN chain'[a] = {"governor", "kept", "label"}
            BY <1>1, <1>3, <2>2 DEF ChainGrows
        <3>. QED  BY <3>1
    <2>. QED  BY <2>1, <2>2
<1>. QED  BY <1>3 DEF NumbersOK

LEMMA HistoryStep ==
    ASSUME DeployInv, BaseInv, Moves
    PROVE  HistoryOK'
<1>1. done \subseteq Passed /\ Passed \subseteq Passed'  BY HistoryFrame DEF BaseInv, HistoryOK
<1>2. ASSUME Finish PROVE Name \in Passed'
    <2>1. next' = next + 1 /\ next \in Nat /\ next >= 1  BY <1>2 DEF Finish, DeployInv, PlanOK
    <2>2. Name = Plan[next] /\ next \in 1..(next' - 1)  BY <2>1 DEF Name
    <2>. QED  BY <2>2 DEF Passed
<1>. QED  BY <1>1, <1>2, HistoryFrame DEF HistoryOK

LEMMA FrozenStep ==
    ASSUME DeployInv, BaseInv, Moves
    PROVE  NothingFrozen'
<1>. SUFFICES ASSUME handover' # "accepted", NEW k \in DOMAIN config'
              PROVE  ~config'[k].frozen
    BY DEF NothingFrozen
<1>1. CASE UNCHANGED <<config, handover>>  BY <1>1 DEF BaseInv, NothingFrozen
<1>2. CASE SetKeyStep
    <2>1. config' = Set(config, todo[1].key, todo[1].type, todo[1].word)
        BY <1>2, OtherSteps
    <2>2. handover' = handover  BY <1>2 DEF SetKeyStep, TakesStep
    <2>. QED  BY <2>1, <2>2 DEF Set, Put, BaseInv, NothingFrozen
<1>3. CASE \E c \in DOMAIN Adoption : Adopt(c)  BY <1>1, <1>3 DEF Adopt
<1>4. CASE DeployByHand  BY <1>1, <1>4 DEF DeployByHand
<1>5. CASE ChangeGovernor
    <2>1. handover # "accepted" /\ UNCHANGED config  BY <1>5 DEF ChangeGovernor, deployment
    <2>. QED  BY <2>1 DEF BaseInv, NothingFrozen
<1>6. CASE GovernanceChanges  BY <1>6, GovernanceIs DEF limits
<1>7. CASE AcceptGovernance \/ \E batch \in printed : GovernanceExecutes(batch)
    BY <1>7 DEF AcceptGovernance, GovernanceExecutes
<1>8. CASE StartScript \/ Ends  BY <1>1, <1>8, StartIs, EndIs
<1>9. CASE UNCHANGED deployVars  BY <1>1, <1>9 DEF deployVars, deployment
<1>10. CASE StepOfScript /\ ~SetKeyStep
    <2>1. handover' = handover  BY <1>10, StepIs
    <2>2. DeployStep \/ ProxyStep \/ OverwriteStep \/ CallStep \/ AssetStep \/ TransferStep
          \/ PrintStep => UNCHANGED config
        BY OtherSteps, ProxyIs, DeployIs
    <2>. QED  BY <1>1, <1>10, <2>1, <2>2 DEF StepOfScript
<1>. QED  BY <1>2, <1>3, <1>4, <1>5, <1>6, <1>7, <1>8, <1>9, <1>10, MovesAre DEF ByHand

\* The script about to run deploys nothing that as_singleton would have found.
LEMMA StartIsSingle ==
    ASSUME DeployInv, StartScript, NEW i \in DOMAIN Current.steps, NEW c \in DOMAIN Makers,
           Current.steps[i].op = "deploy", Current.steps[i].at.contract = c
    PROVE  containers[c] = <<>>
<1>1. Name \in ScriptNames /\ Verdict(Current.rules) = "run"  BY StartIs
<1>2. ScriptOf(Name, Current)
    BY <1>1, AllScripts, ContractsAre DEF DeployInv, ContainersOK, Current
<1>3. Makers[c] = Name  BY <1>2 DEF ScriptOf, StepsOf, StepOf
<1>4. Guarded(Current, c, <<Name, "GyroConfig">> \in Relies)
    BY <1>3, MakersGuarded DEF Current
<1>5. <<Name, "GyroConfig">> \in Relies => containers["GyroConfig"] # <<>>
    <2>1. ASSUME NEW r, r \in Relies, r[1] = Name PROVE containers[r[2]] # <<>>
        BY <1>1, <2>1, ReliesOnRule, RunsWithRule DEF Current
    <2>2. <<Name, "GyroConfig">>[1] = Name /\ <<Name, "GyroConfig">>[2] = "GyroConfig"
        OBVIOUS
    <2>. QED  BY <2>1, <2>2
<1>6. containers[c] # <<>> => Verdict(Current.rules) = "skip"  BY <1>4, <1>5, GuardSkips
<1>. QED  BY <1>1, <1>6

LEMMA SinglesStep ==
    ASSUME DeployInv, BaseInv, Moves
    PROVE  SinglesOK'
<1>i. SinglesOK /\ ContainersOK  BY DEF BaseInv, DeployInv
<1>1. ASSUME NEW c \in DOMAIN Makers PROVE Len(containers'[c]) <= 1
    <2>1. CASE There(c)
        <3>1. \A x : Len(<<x>>) <= 1  OBVIOUS
        <3>. QED  BY <1>i, <2>1, <3>1, SingleStays DEF SinglesOK
    <2>2. CASE ~There(c)
        <3>0. c \in Contracts  BY ContractsAre
        <3>1. ContainerMoves(c) /\ containers[c] = <<>>
            <4>. HIDE DEF Contracts
            <4>. QED  BY <2>2, <3>0, ContainerFrame DEF There
        <3>2. c \notin VaultKinds  BY ContractsAre DEF VaultKinds
        <3>3. \A x : Len(Append(<<>>, x)) <= 1 /\ Len(<<x>>) <= 1  OBVIOUS
        <3>4. Len(<<>>) <= 1  OBVIOUS
        <3>. QED  BY <3>1, <3>2, <3>3, <3>4 DEF ContainerMoves
    <2>. QED  BY <2>1, <2>2
<1>2. ASSUME NEW c \in DOMAIN Makers, running', NEW i \in DOMAIN todo', todo'[i].op = "deploy",
             todo'[i].at.contract = c
      PROVE  containers'[c] = <<>>
    <2>1. CASE StartScript
        <3>1. todo' = Current.steps /\ UNCHANGED containers  BY <2>1, StartIs
        <3>. QED  BY <1>2, <2>1, <3>1, StartIsSingle
    <2>2. CASE StepOfScript
        <3>1. /\ i + 1 \in DOMAIN todo /\ todo'[i] = todo[i + 1] /\ i # 0 /\ running
              /\ 1 \in DOMAIN todo /\ i \in Nat
            BY <1>2, <2>2, StepIs
        <3>2. containers[c] = <<>>  BY <1>i, <1>2, <3>1 DEF SinglesOK
        <3>3. todo[1].op # "deploy"
            <4>1. i + 1 # 1  BY <3>1
            <4>. QED  BY <1>2, <3>1, <4>1 DEF DeployInv, TodoOK, Lonely
        <3>4. ~DeployStep  BY <3>3, DeployIs
        <3>5. ContainerMoves(c)
            <4>1. c \in Contracts  BY ContractsAre
            <4>. HIDE DEF Contracts
            <4>. QED  BY <4>1, ContainerFrame
        <3>6. c \notin VaultKinds  BY ContractsAre DEF VaultKinds
        <3>7. ~DeployByHand /\ ~Adopt(c)  BY <3>1 DEF DeployByHand, Adopt
        <3>. QED  BY <3>2, <3>4, <3>5, <3>6, <3>7 DEF ContainerMoves
    <2>3. CASE UNCHANGED deployVars
        <3>1. UNCHANGED <<todo, containers, phase>>  BY <2>3 DEF deployVars, deployment, plan
        <3>. QED  BY <1>i, <1>2, <3>1 DEF SinglesOK, running
    <2>. QED  BY <1>2, <2>1, <2>2, <2>3, HistoryFrame
<1>3. ASSUME NEW c \in Contracts, NEW i \in DOMAIN containers'[c], containers'[c][i].proxy
      PROVE  c \in DOMAIN Adoption \union VaultKinds
    <2>. SUFFICES ASSUME c \notin DOMAIN Adoption, c \notin VaultKinds PROVE FALSE
        OBVIOUS
    <2>1. ContainerMoves(c) /\ IsSequence(containers[c])
        <3>. HIDE DEF Contracts
        <3>. QED  BY <1>i, ContainerFrame DEF ContainersOK
    <2>2. \A j \in DOMAIN containers[c] : ~containers[c][j].proxy  BY <1>i DEF SinglesOK
    <2>3. \A x : New(x).proxy = FALSE  BY DEF New, Address
    <2>4. CASE DeployStep /\ containers'[c] = Append(containers[c], todo[1].at)
        <3>1. todo[1].at.proxy = FALSE
            <4>1. todo[1].at = New(todo[1].at.contract)  BY <2>4, DeployIs
            <4>. QED  BY <2>3, <4>1
        <3>. HIDE DEF New
        <3>2. containers'[c][i] = todo[1].at
              \/ \E j \in DOMAIN containers[c] : containers'[c][i] = containers[c][j]
            BY <1>3, <2>1, <2>4, Appended
        <3>. QED  BY <1>3, <2>2, <3>1, <3>2
    <2>5. CASE containers'[c] = <<New(HandOracle)>>
        <3>1. containers'[c][i] = New(HandOracle)  BY <1>3, <2>5
        <3>. QED  BY <1>3, <2>3, <3>1
    <2>. QED  BY <1>3, <2>1, <2>2, <2>4, <2>5 DEF ContainerMoves
<1>. QED  BY <1>1, <1>2, <1>3 DEF SinglesOK

LEMMA BaseStep ==
    ASSUME DeployInv, BaseInv, Moves
    PROVE  BaseInv'
BY NumbersStep, HistoryStep, FrozenStep, SinglesStep DEF BaseInv

-----------------------------------------------------------------------------
(* What holds as long as nothing is torn is kept.                          *)

Sound == ChainId = 1 /\ PlanInOrder /\ DeployInv /\ BaseInv /\ SoundInv /\ torn = {}

LEMMA NotPassed ==
    ASSUME DeployInv, running \/ Idle
    PROVE  /\ next \in DOMAIN Plan /\ Name \in ScriptNames /\ Name \notin Passed
<1>1. next \in DOMAIN Plan  BY PlanLength DEF DeployInv, PlanOK, running, Idle
<1>2. ASSUME NEW i \in 1..(next - 1), Plan[i] = Plan[next] PROVE FALSE
    <2>1. i \in DOMAIN Plan  BY <1>1, PlanLength
    <2>2. i = next  BY <1>1, <1>2, <2>1, PlanAssumption DEF IsInjective
    <2>. QED  BY <1>1, <2>2, PlanLength
<1>3. Name \in ScriptNames  BY <1>1, PlanAssumption, PlanLength DEF Name
<1>. QED  BY <1>1, <1>2, <1>3 DEF Name, Passed

LEMMA NeededRan ==
    ASSUME Sound, running \/ Idle, NEW n, NeededBy(Name, n)
    PROVE  n \in done /\ n \in Passed
<1>1. next \in DOMAIN Plan  BY NotPassed DEF Sound
<1>2. n \in ScriptNames /\ n \notin AlwaysRevert  BY NeededAre DEF Sound
<1>3. PICK i \in 1..(next - 1) : Plan[i] = n
    BY <1>1, <1>2 DEF Sound, PlanInOrder, NeededBy, Name
<1>4. n \in Passed  BY <1>3 DEF Passed
<1>. QED  BY <1>2, <1>4 DEF Sound, SoundInv, RevertsOK, DeployInv, NothingLeftOut

LEMMA AdoptionAre ==
    /\ DOMAIN Adoption = {"GovernanceProxy", "GyroConfig", "GydToken"}
    /\ Adoption["GovernanceProxy"] = "governance_proxy.proxy"
    /\ Adoption["GyroConfig"] = "config.proxy" /\ Adoption["GydToken"] = "gyd_token.proxy"
    /\ DOMAIN Adoption \subseteq DOMAIN Makers
BY DEF Adoption, Makers

\* What the operator has adopted is there to stay.
LEMMA AdoptedStays ==
    ASSUME DeployInv, BaseInv, Moves, NEW c \in DOMAIN Adoption, Adopted(c)
    PROVE  Adopted(c)' /\ containers'[c] = containers[c] /\ Bound(c)' = Bound(c)
<1>1. c \in DOMAIN Makers  BY AdoptionAre
<1>2. ~Adopt(c)  BY DEF Adopt, ToAdopt, Adopted
<1>3. containers'[c] = containers[c]  BY <1>1, <1>2, SingleStays DEF Adopted
<1>. QED  BY <1>3 DEF Adopted, There, Bound

\* A single contract of another kind is handed to every script, and while a script
\* runs all are.
LEMMA BoundStays ==
    ASSUME DeployInv, BaseInv, Moves, NEW c \in DOMAIN Makers, There(c),
           c \notin DOMAIN Adoption \/ running
    PROVE  There(c)' /\ containers'[c] = containers[c] /\ Bound(c)' = Bound(c)
<1>1. ~(Adopt(c) /\ c \in DOMAIN Adoption)  BY DEF Adopt
<1>2. containers'[c] = containers[c]  BY <1>1, SingleStays
<1>. QED  BY <1>2 DEF There, Bound

LEMMA HandsAre ==
    \A h \in Hands : h[2] \in Contracts
BY DEF Hands, Contracts

LEMMA HandedAtStart ==
    ASSUME Sound, StartScript
    PROVE  Handed(Name)
<1>1. Verdict(Current.rules) = "run"  BY StartIs DEF Sound
<1>2. ASSUME NEW h \in Hands, h[1] = Name PROVE There(h[2])
    <2>1. HasRule(Current, Deployed(h[2]))  BY <1>2, HandsRule DEF Current
    <2>. QED  BY <1>1, <2>1, RunsWithRule DEF There
<1>. QED  BY <1>2 DEF Handed

LEMMA NeedsStep ==
    ASSUME Sound, Moves
    PROVE  NeedsOK'
<1>i. DeployInv /\ BaseInv /\ NeedsOK  BY DEF Sound, SoundInv
<1>. SUFFICES ASSUME running' PROVE NeedsOK'
    BY DEF NeedsOK
<1>1. CASE StartScript
    <2>1. /\ Name' = Name /\ Idle /\ UNCHANGED <<containers, done>>
          /\ \A c \in DOMAIN Adoption : ~ToAdopt(c)
        BY <1>1, <1>i, StartIs DEF StartScript
    <2>2. Handed(Name)'  BY <1>1, <2>1, HandedAtStart DEF Handed, There
    <2>3. ASSUME NEW n, NeededBy(Name, n)
          PROVE  n \in done' /\ \A c \in DOMAIN Adoption : Adoption[c] = n => Adopted(c)'
        <3>1. n \in done /\ n \in Passed  BY <2>1, <2>3, NeededRan
        <3>2. ASSUME NEW c \in DOMAIN Adoption, Adoption[c] = n PROVE Adopted(c)'
            BY <1>i, <2>1, <3>1, <3>2
            DEF DeployInv, AdoptionOK, ToAdopt, Adopted, There, Proxied
        <3>. QED  BY <2>1, <3>1, <3>2
    <2>4. \A n : NeededBy(Name, n)' => NeededBy(Name, n)  BY <2>1 DEF NeededBy
    <2>. QED  BY <2>1, <2>2, <2>3, <2>4 DEF NeedsOK
<1>2. CASE ~StartScript
    <2>1. running /\ Name' = Name /\ done \subseteq done'
        BY <1>2, <1>i, HistoryFrame
    <2>2. Handed(Name)'
        <3>1. ASSUME NEW h \in Hands, h[1] = Name PROVE There(h[2])'
            <4>1. h[2] \in Contracts /\ There(h[2])  BY <1>i, <2>1, <3>1, HandsAre DEF NeedsOK, Handed
            <4>. HIDE DEF Contracts
            <4>. QED  BY <1>i, <4>1, Filled
        <3>. QED  BY <2>1, <3>1 DEF Handed
    <2>3. \A c \in DOMAIN Adoption : Adopted(c) => Adopted(c)'  BY <1>i, AdoptedStays
    <2>4. \A n : NeededBy(Name, n)' => NeededBy(Name, n)  BY <2>1 DEF NeededBy
    <2>. QED  BY <1>i, <2>1, <2>2, <2>3, <2>4 DEF NeedsOK
<1>. QED  BY <1>1, <1>2

LEMMA PastStep ==
    ASSUME Sound, Moves
    PROVE  PastOK'
<1>i. DeployInv /\ BaseInv /\ NeedsOK /\ PastOK  BY DEF Sound, SoundInv
<1>. SUFFICES ASSUME NEW n \in done' \union reverted', NEW c \in DOMAIN Adoption,
                     NeededBy(n, Adoption[c])
              PROVE  Adopted(c)'
    BY DEF PastOK, NeededBy
<1>1. \/ n \in done \union reverted
      \/ running /\ n = Name
    <2>1. Finish => running  BY DEF Finish
    <2>2. Revert => running  BY DEF Revert
    <2>. QED  BY <1>i, <2>1, <2>2, HistoryFrame
<1>2. Adopted(c)  BY <1>1, <1>i DEF NeedsOK, PastOK
<1>. QED  BY <1>2, <1>i, AdoptedStays


-----------------------------------------------------------------------------
(* No step is refused.                                                     *)

\* The address a script is handed.
LEMMA BoundIs ==
    ASSUME ChainId = 1, DeployInv, BaseInv, NEW c \in Contracts, There(c)
    PROVE  /\ Bound(c) \in DOMAIN chain /\ Bound(c).contract = c
           /\ 1 \in DOMAIN containers[c] /\ IsSequence(containers[c])
           /\ \E i \in DOMAIN containers[c] : Bound(c) = containers[c][i]
           /\ c \notin DOMAIN Adoption \union VaultKinds => ~Bound(c).proxy
           /\ c \in DOMAIN Makers => /\ Bound(c) = containers[c][1]
                                     /\ Len(containers[c]) = 1 /\ DOMAIN containers[c] = {1}
           /\ c \in DOMAIN Adoption /\ Adopted(c) => Bound(c).proxy
<1>. DEFINE s == containers[c]
<1>1. /\ IsSequence(s) /\ \A i \in DOMAIN s : s[i] \in DOMAIN chain /\ s[i].contract = c
      /\ s # <<>>
    BY DEF DeployInv, ContainersOK, There
<1>2. /\ Len(s) \in Nat /\ Len(s) > 0 /\ DOMAIN s = 1..Len(s)
    BY <1>1, LengthOf, TailOf
<1>3. 1 \in DOMAIN s /\ Len(s) \in DOMAIN s  BY <1>2
<1>4. Bound(c) = s[1] \/ Bound(c) = s[Len(s)]  BY <1>1 DEF Bound
<1>5. \E i \in DOMAIN s : Bound(c) = s[i]  BY <1>3, <1>4
<1>6. c \notin DOMAIN Adoption \union VaultKinds => \A i \in DOMAIN s : ~s[i].proxy
    BY DEF BaseInv, SinglesOK
<1>7. c \in DOMAIN Makers => Len(s) <= 1  BY DEF BaseInv, SinglesOK
<1>8. c \in DOMAIN Makers => Len(s) = 1 /\ DOMAIN s = {1} /\ Bound(c) = s[1]
    <2>1. Len(s) <= 1 => Len(s) = 1 /\ DOMAIN s = {1}
        <3>1. \A n \in Nat : n > 0 /\ n <= 1 => n = 1  OBVIOUS
        <3>2. 1..1 = {1}  OBVIOUS
        <3>. HIDE DEF s
        <3>. QED  BY <1>2, <3>1, <3>2
    <2>2. Len(s) = 1 => Bound(c) = s[1]  BY <1>4
    <2>. HIDE DEF s
    <2>. QED  BY <1>7, <2>1, <2>2
<1>9. c \in DOMAIN Adoption /\ Adopted(c) => Bound(c).proxy
    BY <1>8, AdoptionAre DEF Adopted
<1>. HIDE DEF Contracts
<1>. QED  BY <1>1, <1>3, <1>5, <1>6, <1>8, <1>9

\* Who the scripts and the multisig are.
LEMMA ApartAre ==
    /\ NoAddress.contract = "none" /\ Deployer # NoAddress /\ Deployer # Multisig
    /\ Multisig # NoAddress /\ Multisig.contract = "MAINNET_GOVERNANCE"
    /\ Deployer.contract = "deployer"
BY DEF NoAddress, Deployer, Multisig, Outsider, Address

\* The contracts by who governs them.
LEMMA ByName ==
    /\ {"GovernanceProxy", "GyroConfig", "GydToken"} \subseteq Contracts
    /\ DOMAIN Adoption = {"GovernanceProxy", "GyroConfig", "GydToken"}
    /\ \A c \in {"RootSafetyCheck", "ChainlinkPriceOracle", "StaticPercentageFeeHandler",
                 "ProxyAdmin", "VaultSafetyMode", "ReserveSafetyManager"} :
           c \in Contracts /\ c \notin DOMAIN Adoption \union VaultKinds
BY DEF Contracts, Adoption, VaultKinds

\* The governance proxy, once adopted, is the deployer's until it is handed over.
LEMMA GovernanceRules ==
    ASSUME Sound, Adopted("GovernanceProxy")
    PROVE  /\ Governance # NoAddress /\ Governance.contract = "GovernanceProxy"
           /\ Governance.proxy /\ Governance \in DOMAIN chain
           /\ handover # "accepted" =>
                 /\ GovernorOf(Governance) = Deployer
                 /\ \A t : GovernorOf(t) = Governance => MayCall(Governance, t)
<1>i. ChainId = 1 /\ DeployInv /\ BaseInv /\ GovernorsOK  BY DEF Sound, SoundInv
<1>1. There("GovernanceProxy")  BY DEF Adopted
<1>2. /\ Governance \in DOMAIN chain /\ Governance.contract = "GovernanceProxy"
      /\ Governance.proxy
    BY <1>i, <1>1, BoundIs, ByName DEF Governance
<1>3. Governance # NoAddress  BY <1>2, ApartAre
<1>4. handover # "accepted" => GovernorOf(Governance) = Deployer
    BY <1>i, <1>2 DEF GovernorsOK, OfDeployer, GovernorOf
<1>. QED  BY <1>2, <1>3, <1>4 DEF MayCall

LEMMA WhileRunning ==
    ASSUME DeployInv, running
    PROVE  handover = "none" /\ handover # "accepted"
BY PlanLength DEF DeployInv, PlanOK, running

\* A script that needs the governance proxy is made by an account that governs.
LEMMA GovernedCall ==
    ASSUME Sound, running, NeededBy(Name, "governance_proxy.proxy"), NEW t \in DOMAIN chain,
           Governed(t)
    PROVE  MayCall(Governance, t)
<1>1. Adopted("GovernanceProxy")  BY AdoptionAre DEF Sound, SoundInv, NeedsOK
<1>2. handover # "accepted"  BY WhileRunning DEF Sound
<1>3. GovernorOf(t) = Governance  BY DEF Sound, SoundInv, GovernorsOK, GovernorOf
<1>. QED  BY <1>1, <1>2, <1>3, GovernanceRules

\* A key that constructors read is there.
LEMMA ReadKeys ==
    ASSUME Sound, NEW k \in DOMAIN KeyScript, KeyScript[k] \in done
    PROVE  k \in DOMAIN config /\ Readable(config, k, "address")
<1>1. k \in DOMAIN config
    <2>1. CASE k = "BALANCER_VAULT"
        BY <2>1 DEF KeyScript, Sound, SoundInv, BalancerOK
    <2>2. CASE k # "BALANCER_VAULT"
        <3>1. k \in DOMAIN Roles /\ Owner[k] = KeyScript[k]
            BY <2>2 DEF KeyScript, Roles, Owner
        <3>2. Owner[k] \in Passed  BY <3>1 DEF Sound, BaseInv, HistoryOK
        <3>. QED  BY <3>1, <3>2 DEF Sound, SoundInv, LeadsOK, LeadOK, Leads
    <2>. QED  BY <2>1, <2>2
<1>2. k \in AddressKeys  BY DEF KeyScript, AddressKeys, Roles
<1>3. KeyTyped(k, config[k].type)  BY <1>1 DEF Sound, DeployInv, ConfigOK
<1>4. config[k].type = "address"  BY <1>2, <1>3 DEF KeyTyped
<1>. QED  BY <1>1, <1>4 DEF Readable, HasKey

LEMMA KeyIs ==
    ASSUME DeployInv, NEW k \in AddressKeys, k \in DOMAIN config
    PROVE  KeyAddress(k) = config[k].value
<1>1. KeyTyped(k, config[k].type)  BY DEF DeployInv, ConfigOK
<1>2. config[k].type = "address"  BY <1>1 DEF KeyTyped
<1>. QED  BY <1>2 DEF KeyAddress, Readable, HasKey

\* The registry of the configuration.
LEMMA AssetsAre ==
    ASSUME Sound, "asset_registry.proxy" \in done
    PROVE  /\ AssetsHere \in DOMAIN chain /\ AssetsHere \in DOMAIN registries
           /\ AssetsHere.contract = "AssetRegistry" /\ AssetsHere.proxy
           /\ "ASSET_REGISTRY" \in DOMAIN config
           /\ AssetsHere = config["ASSET_REGISTRY"].value
<1>. DEFINE k == "ASSET_REGISTRY"
<1>1. k \in DOMAIN Roles /\ Roles[k] = "AssetRegistry" /\ Owner[k] = "asset_registry.proxy"
    BY DEF Roles, Owner
<1>2. Leads(k)
    BY <1>1 DEF Sound, BaseInv, HistoryOK, SoundInv, LeadsOK, LeadOK
<1>3. InUse("AssetRegistry") = Address("AssetRegistry", Count("AssetRegistry", TRUE), TRUE)
    BY DEF InUse, Upgradeable
<1>4. AssetsHere = config[k].value
    BY <1>1, <1>2, KeyIs DEF Sound, Leads, AddressKeys, AssetsHere
<1>5. AssetsHere \in DOMAIN chain /\ AssetsHere.contract = "AssetRegistry" /\ AssetsHere.proxy
    BY <1>1, <1>2, <1>3, <1>4 DEF Leads, Address
<1>. QED  BY <1>2, <1>4, <1>5 DEF Sound, SoundInv, RegistriesAre, Leads

\* When a step succeeds, by what it is.
LEMMA ExecutableIs ==
    ASSUME NEW step
    PROVE  /\ step.op = "deploy" /\ (\A k \in step.keys : Readable(config, k, "address"))
                  => Executable(step)
           /\ step.op = "setKey" /\ MayCall(step.by, Bound("GyroConfig"))
              /\ Settable(config, step.key, step.type) => Executable(step)
           /\ step.op = "call" /\ MayCall(step.by, step.target)
              /\ (step.list = "checks" => <<step.target, step.list, step.element>> \notin lists)
                  => Executable(step)
           /\ step.op = "asset" /\ MayCall(step.by, step.target)
              /\ step.target \in DOMAIN registries
              /\ AssetCallSucceeds(registries[step.target], step.list, step.name)
                  => Executable(step)
           /\ step.op = "transfer" /\ GovernorOf(step.target) = Deployer => Executable(step)
           /\ step.op \in {"proxy", "overwrite", "print"} => Executable(step)
BY DEF Executable

\* A step that fits its script, and that the registry of assets and the list of checks
\* admit, is not refused.
LEMMA FitExecutes ==
    ASSUME Sound, running, NEW step, Fits(Name, step), StepOf(Name, step),
           step.op # "raise", step.op = "transfer" => todo # <<>>,
           step.op = "call" => Name \notin AlwaysRevert,
           step.op = "call" /\ step.list = "checks" =>
               <<step.target, step.list, step.element>> \notin lists,
           step.op = "asset" => AssetCallSucceeds(registries[AssetsHere], step.list, step.name)
    PROVE  Executable(step)
<1>i. /\ DeployInv /\ BaseInv /\ ContainersOK /\ ConfigOK /\ NeedsOK /\ GovernorsOK
    BY DEF Sound, SoundInv, DeployInv
<1>4. \A n : NeededBy(Name, n) =>
          n \in done /\ \A c \in DOMAIN Adoption : Adoption[c] = n => Adopted(c)
    BY <1>i DEF NeedsOK
<1>1. Name \notin Passed /\ Name \notin done
    BY <1>i, NotPassed DEF BaseInv, HistoryOK
<1>2. CASE step.op = "deploy"
    <2>1. \A k \in step.keys : k \in DOMAIN KeyScript /\ NeededBy(Name, KeyScript[k])
        BY <1>2 DEF Fits, DeployFits
    <2>2. \A k \in step.keys : Readable(config, k, "address")  BY <1>4, <2>1, ReadKeys
    <2>. QED  BY <1>2, <2>2, ExecutableIs
<1>3. CASE step.op = "setKey"
    <2>1. /\ step.by = Governance /\ NeededBy(Name, "governance_proxy.proxy")
          /\ NeededBy(Name, "config.proxy") /\ KeyTyped(step.key, step.type)
        BY <1>3 DEF Fits, KeyFits, StepOf
    <2>2. Adopted("GyroConfig") /\ There("GyroConfig")  BY <1>4, <2>1, AdoptionAre DEF Adopted
    <2>3. Bound("GyroConfig") \in DOMAIN chain /\ Governed(Bound("GyroConfig"))
        BY <1>i, <2>2, BoundIs, ByName DEF Governed, Sound
    <2>4. MayCall(step.by, Bound("GyroConfig"))  BY <2>1, <2>3, GovernedCall
    <2>5. Settable(config, step.key, step.type)
        <3>. SUFFICES ASSUME step.key \in DOMAIN config
                      PROVE  config[step.key].type = step.type /\ ~config[step.key].frozen
            BY DEF Settable, HasKey
        <3>1. ~config[step.key].frozen
            BY <1>i, WhileRunning DEF BaseInv, NothingFrozen
        <3>2. KeyTyped(step.key, config[step.key].type)  BY <1>i DEF ConfigOK
        <3>. QED  BY <2>1, <3>1, <3>2, KeyOnce
    <2>. QED  BY <1>3, <2>4, <2>5, ExecutableIs
<1>5. CASE step.op = "call"
    <2>1. /\ step.by = Governance /\ NeededBy(Name, "governance_proxy.proxy")
          /\ step.list \in DOMAIN CallScript /\ CallScript[step.list] = Name
          /\ step.target = Bound(CallTarget[step.list]) /\ There(CallTarget[step.list])
        BY <1>5 DEF Fits, CallFits
    <2>2. CallTarget[step.list] \in {"RootSafetyCheck", "ChainlinkPriceOracle",
                                     "StaticPercentageFeeHandler"}
        BY <2>1 DEF CallTarget, CallScript
    <2>3. step.target \in DOMAIN chain /\ Governed(step.target)
        BY <1>i, <2>1, <2>2, BoundIs, ByName DEF Governed, Sound
    <2>4. MayCall(step.by, step.target)  BY <2>1, <2>3, GovernedCall
    <2>. QED  BY <1>5, <2>4, ExecutableIs
<1>6. CASE step.op = "asset"
    <2>1. /\ step.by = Governance /\ NeededBy(Name, "governance_proxy.proxy")
          /\ NeededBy(Name, "asset_registry.proxy") /\ step.target = AssetsHere
        BY <1>6 DEF Fits, AssetFits, AssetsHere
    <2>2. AssetsHere \in DOMAIN chain /\ AssetsHere \in DOMAIN registries
          /\ Governed(AssetsHere)
        BY <1>4, <2>1, AssetsAre DEF Governed
    <2>3. MayCall(step.by, step.target)  BY <2>1, <2>2, GovernedCall
    <2>. QED  BY <1>6, <2>1, <2>2, <2>3, ExecutableIs
<1>7. CASE step.op = "transfer"
    <2>1. /\ Name = "governance_proxy.proxy" /\ step.target = Bound("ProxyAdmin")
          /\ There("ProxyAdmin")
        BY <1>7 DEF Fits
    <2>2. /\ step.target \in DOMAIN chain /\ OfDeployer(step.target) /\ ~step.target.proxy
        BY <1>i, <2>1, BoundIs, ByName DEF OfDeployer, Sound
    <2>3. chain[step.target].governor = Deployer
        BY <1>1, <1>7, <1>i, <2>1, <2>2 DEF GovernorsOK
    <2>. QED  BY <1>7, <2>2, <2>3, ExecutableIs DEF GovernorOf
<1>8. CASE step.op \in {"proxy", "overwrite", "print"}  BY <1>8, ExecutableIs
<1>. QED  BY <1>2, <1>3, <1>5, <1>6, <1>7, <1>8 DEF StepOf

LEMMA StepsExecutable ==
    ASSUME Sound, running, todo # <<>>
    PROVE  \/ Executable(todo[1])
           \/ /\ Name \in AlwaysRevert /\ Fits(Name, todo[1])
              /\ \/ todo[1].op = "raise" /\ Name = "vault_price_oracle.generic"
                 \/ todo[1].op = "call"
<1>. DEFINE step == todo[1]
<1>i. /\ ChainId = 1 /\ DeployInv /\ TodoOK /\ FitsOK /\ NeedsOK
    BY DEF Sound, SoundInv, DeployInv
<1>1. 1 \in DOMAIN todo  BY <1>i, TailOf DEF TodoOK
<1>2. Fits(Name, step) /\ StepOf(Name, step)  BY <1>1, <1>i DEF FitsOK, TodoOK
<1>3. ASSUME step.op = "call", Name \notin AlwaysRevert, step.list = "checks"
      PROVE  <<step.target, step.list, step.element>> \notin lists
    <2>1. /\ step.list \in DOMAIN CallScript /\ CallScript[step.list] = Name
          /\ step.target = Bound(CallTarget[step.list])
        BY <1>2, <1>3 DEF Fits, CallFits
    <2>2. CallTarget[step.list] = "RootSafetyCheck" /\ Name = Register
        BY <1>3, <2>1 DEF CallTarget, CallScript, Register
    <2>. QED  BY <1>1, <1>3, <2>1, <2>2 DEF Sound, SoundInv, ChecksOK, Root
<1>4. ASSUME step.op = "asset"
      PROVE  AssetCallSucceeds(registries[AssetsHere], step.list, step.name)
    <2>1. /\ Name = IF step.list = "ranges" THEN SetRanges ELSE Initialize
          /\ step.list \in {"assets", "stable", "ranges"}
        BY <1>2, <1>4 DEF Fits, AssetFits, StepOf, SetRanges, Initialize
    <2>. DEFINE reg == registries[AssetsHere]
    <2>2. CASE step.list = "assets"
        <3>1. step.name \notin DOMAIN reg.assets
            BY <1>1, <2>1, <2>2 DEF Sound, SoundInv, InitializeOK
        <3>. QED  BY <2>2, <3>1 DEF AssetCallSucceeds, CanSetAssetAddress
    <2>3. CASE step.list = "stable"
        <3>1. Name = Initialize  BY <2>1, <2>3
        <3>2. step.name \in Stables /\ \A j \in DOMAIN todo : todo[j].list = "assets" => j < 1
            BY <1>1, <2>3, <3>1 DEF Sound, SoundInv, InitializeOK
        <3>3. DOMAIN todo = 1..Len(todo) /\ Len(todo) \in Nat  BY <1>i, LengthOf DEF TodoOK
        <3>4. \A j \in DOMAIN todo : todo[j].list # "assets"  BY <3>2, <3>3
        <3>5. Names("assets") = {}  BY <3>4 DEF Names
        <3>6. step.name \in Ranged  BY <3>2 DEF Stables, Ranged
        <3>7. \A n \in Ranged : n \in reg.addresses \/ n \in Names("assets")
            BY <3>1 DEF Sound, SoundInv, InitializeOK
        <3>. HIDE DEF Names, step, reg, Ranged
        <3>8. step.name \in reg.addresses  BY <3>5, <3>6, <3>7
        <3>. QED  BY <2>3, <3>8 DEF AssetCallSucceeds, IsAssetAddressRegistered, reg
    <2>4. CASE step.list = "ranges"
        <3>1. Name = SetRanges  BY <2>1, <2>4
        <3>2. step.name \in Ranged  BY <1>1, <3>1 DEF Sound, SoundInv, RangesOK
        <3>3. Initialize \in done
            <4>1. NeededBy(SetRanges, Initialize)  BY NeedsAre DEF Initialize, SetRanges
            <4>. QED  BY <1>i, <3>1, <4>1 DEF NeedsOK
        <3>4. step.name \in reg.addresses  BY <3>2, <3>3 DEF Sound, SoundInv, InitializeOK
        <3>. QED  BY <2>4, <3>4 DEF AssetCallSucceeds, IsAssetAddressRegistered
    <2>. QED  BY <2>1, <2>2, <2>3, <2>4
<1>5. CASE step.op = "raise" \/ (step.op = "call" /\ Name \in AlwaysRevert)
    BY <1>2, <1>5 DEF Fits, AlwaysRevert
<1>6. CASE step.op # "raise" /\ (step.op = "call" => Name \notin AlwaysRevert)
    <2>. HIDE DEF step
    <2>1. Executable(step)  BY <1>2, <1>3, <1>4, <1>6, FitExecutes
    <2>. QED  BY <2>1 DEF step
<1>. QED  BY <1>5, <1>6

LEMMA RevertsStep ==
    ASSUME Sound, Moves
    PROVE  RevertsOK'
<1>i. DeployInv /\ BaseInv /\ RevertsOK  BY DEF Sound, SoundInv
<1>1. ASSUME Revert PROVE Name \in AlwaysRevert
    <2>1. running /\ todo # <<>> /\ ~Executable(Head(todo))  BY <1>1 DEF Revert
    <2>2. Head(todo) = todo[1]  BY <1>i, <2>1, TailOf DEF DeployInv, TodoOK
    <2>. QED  BY <2>1, <2>2, StepsExecutable
<1>2. ASSUME Revert PROVE RevertsOK'
    <2>1. reverted' = reverted \union {Name}  BY <1>2 DEF Revert
    <2>2. AlwaysRevert' = AlwaysRevert  BY DEF AlwaysRevert
    <2>. QED  BY <1>1, <1>2, <1>i, <2>1 DEF RevertsOK
<1>3. ASSUME ~Revert PROVE RevertsOK'
    <2>1. reverted' = reverted  BY <1>i, <1>3, HistoryFrame
    <2>. QED  BY <1>i, <2>1 DEF RevertsOK
<1>. QED  BY <1>2, <1>3

-----------------------------------------------------------------------------
(* Governors.                                                              *)

LEMMA HandoverStays ==
    ASSUME DeployInv, Moves, handover = "accepted"
    PROVE  handover' = "accepted"
<1>1. ASSUME NEW c \in DOMAIN Adoption, Adopt(c) PROVE UNCHANGED handover  BY <1>1 DEF Adopt
<1>2. ASSUME NEW batch \in printed, GovernanceExecutes(batch) PROVE UNCHANGED handover
    BY <1>2 DEF GovernanceExecutes
<1>3. ~ChangeGovernor  BY DEF ChangeGovernor
<1>4. AcceptGovernance => handover' = "accepted"  BY DEF AcceptGovernance
<1>5. GovernanceChanges \/ StartScript \/ Ends \/ StepOfScript => UNCHANGED handover
    BY GovernanceIs, StartIs, EndIs, StepIs
<1>6. DeployByHand => UNCHANGED handover  BY DEF DeployByHand
<1>7. UNCHANGED deployVars => UNCHANGED handover  BY DEF deployVars
<1>. QED  BY <1>1, <1>2, <1>3, <1>4, <1>5, <1>6, <1>7, MovesAre DEF ByHand

\* What a step puts on the chain is governed as it must be.
LEMMA PlacedGoverned ==
    ASSUME Sound, Moves, NEW a \in DOMAIN chain' \ DOMAIN chain
    PROVE  /\ Governed(a) => Adopted("GovernanceProxy") /\ chain'[a].governor = Governance
           /\ OfMultisig(a) => chain'[a].governor = Multisig
           /\ OfDeployer(a) => chain'[a].governor = Deployer
<1>i. DeployInv /\ BaseInv /\ FitsOK /\ NeedsOK  BY DEF Sound, SoundInv
<1>1. \/ DeployStep /\ a = todo[1].at
      \/ ProxyStep /\ a = todo[1].at
      \/ DeployByHand /\ a = New(HandOracle)
    <2>1. ChainGrows  BY <1>i, ChainFrame
    <2>. QED  BY <2>1 DEF ChainGrows
<1>2. ASSUME StepOfScript, MadeFits(Name, todo[1]), a = todo[1].at,
             chain'[a].governor = todo[1].governor
      PROVE  /\ Governed(a) => Adopted("GovernanceProxy") /\ chain'[a].governor = Governance
             /\ OfMultisig(a) => chain'[a].governor = Multisig
             /\ OfDeployer(a) => chain'[a].governor = Deployer
    <2>1. running  BY <1>i, <1>2, StepIs
    <2>2. NeededBy(Name, "governance_proxy.proxy") => Adopted("GovernanceProxy")
        BY <1>i, <2>1, AdoptionAre DEF NeedsOK
    <2>. QED  BY <1>2, <2>2 DEF MadeFits
<1>3. CASE DeployStep /\ a = todo[1].at
    <2>1. /\ StepOfScript /\ todo[1].op = "deploy"
          /\ \E kept, label : Placed(todo[1].at, todo[1].governor, kept, label)
        <3>. HIDE DEF Placed
        <3>. QED  BY <1>i, <1>3, DeployIs
    <2>2. chain'[a].governor = todo[1].governor  BY <1>3, <2>1 DEF Placed
    <2>3. running /\ 1 \in DOMAIN todo  BY <1>i, <2>1, StepIs
    <2>4. Fits(Name, todo[1])  BY <1>i, <2>3 DEF FitsOK
    <2>5. MadeFits(Name, todo[1])  BY <2>1, <2>4 DEF Fits, DeployFits
    <2>. QED  BY <1>2, <1>3, <2>1, <2>2, <2>5
<1>4. CASE ProxyStep /\ a = todo[1].at
    <2>1. /\ StepOfScript /\ todo[1].op = "proxy"
          /\ Placed(todo[1].at, todo[1].governor, [k \in {} |-> {}], todo[1].label)
        BY <1>i, <1>4, ProxyIs
    <2>2. chain'[a].governor = todo[1].governor  BY <1>4, <2>1 DEF Placed
    <2>3. running /\ 1 \in DOMAIN todo  BY <1>i, <2>1, StepIs
    <2>4. Fits(Name, todo[1])  BY <1>i, <2>3 DEF FitsOK
    <2>5. MadeFits(Name, todo[1])  BY <2>1, <2>4 DEF Fits, ProxyFits
    <2>. QED  BY <1>2, <1>4, <2>1, <2>2, <2>5
<1>5. CASE DeployByHand /\ a = New(HandOracle)
    <2>1. a.contract = "GenericVaultPriceOracle"  BY <1>5 DEF New, Address, HandOracle
    <2>. QED  BY <2>1 DEF Governed, OfMultisig, OfDeployer
<1>. QED  BY <1>1, <1>3, <1>4, <1>5

\* Nothing but a transfer follows the last step of governance_proxy.proxy.
LEMMA TransferIsLast ==
    ASSUME Sound, TransferStep
    PROVE  /\ running' /\ Name' = "governance_proxy.proxy" /\ todo' = <<>>
           /\ todo[1].target = Bound("ProxyAdmin") /\ todo[1].target.contract = "ProxyAdmin"
           /\ ~todo[1].target.proxy
<1>i. ChainId = 1 /\ DeployInv /\ BaseInv /\ FitsOK  BY DEF Sound, SoundInv
<1>1. StepOfScript /\ todo[1].op = "transfer"  BY <1>i, OtherSteps DEF StepOfScript
<1>2. /\ 1 \in DOMAIN todo /\ running /\ running' /\ Name' = Name /\ IsSequence(todo)
      /\ todo # <<>> /\ TakesStep
    BY <1>i, <1>1, StepIs
<1>3. Fits(Name, todo[1]) /\ Final(todo[1]) /\ 1 = Len(todo)
    <2>1. Final(todo[1])  BY <1>1 DEF Final
    <2>. QED  BY <1>i, <1>2, <2>1 DEF FitsOK
<1>4. todo' = <<>>
    <2>1. todo' = Tail(todo) /\ Len(todo) = 1  BY <1>2, <1>3 DEF TakesStep
    <2>2. IsSequence(todo') /\ Len(todo') = 0  BY <1>2, <2>1, TailOf, LengthOf
    <2>. QED  BY <2>2, LengthOf, TailOf
<1>5. /\ Name = "governance_proxy.proxy" /\ todo[1].target = Bound("ProxyAdmin")
      /\ There("ProxyAdmin")
    BY <1>1, <1>3 DEF Fits
<1>. QED  BY <1>i, <1>2, <1>4, <1>5, BoundIs, ByName

\* The script that hands the proxy admin over cannot be repeated once it did.
LEMMA HandedOver ==
    ASSUME Name = "governance_proxy.proxy", Bound("ProxyAdmin") \in DOMAIN chain,
           chain[Bound("ProxyAdmin")].governor # Deployer
    PROVE  Stuck
<1>. DEFINE p(l) == DeployProxy(Governance, Deployer, l)
            x == TransferOwnership(Bound("ProxyAdmin"), NewProxy("GovernanceProxy"))
            s == Current.steps
<1>1. x.op = "transfer" /\ x.target = Bound("ProxyAdmin")  BY DEF TransferOwnership
<1>2. ~Executable(x)
    <2>. HIDE DEF x
    <2>1. GovernorOf(x.target) # Deployer  BY <1>1 DEF GovernorOf
    <2>. QED  BY <1>1, <2>1 DEF Executable
<1>3. s = deploy_proxy(Governance, Deployer, "", "", FALSE) \o <<x>>
    <2>1. governance_proxy_proxy.steps = deploy_proxy(Governance, Deployer, "", "", FALSE) \o <<x>>
        BY DEF governance_proxy_proxy, Steps
    <2>2. s = governance_proxy_proxy.steps  BY ScriptIs DEF Current
    <2>. QED  BY <2>1, <2>2
<1>. HIDE DEF x, s
<1>4. s = <<p("")>> \o <<x>>
    <2>1. \A l : deploy_proxy(Governance, Deployer, "", l, FALSE) = <<p(l)>>  BY ProxyScript
    <2>. HIDE DEF p
    <2>. QED  BY <1>3, <2>1
<1>. DEFINE a == p("")
<1>6. s = <<a>> \o <<x>>  BY <1>4
<1>. HIDE DEF a, p
<1>7. s = <<a, x>>  BY <1>6, Singles
<1>5. 2 \in DOMAIN s /\ s[2] = x  BY <1>7
<1>. QED  BY <1>1, <1>2, <1>5 DEF Stuck, s

LEMMA GovernorsStep ==
    ASSUME Sound, Moves, torn' = {}
    PROVE  GovernorsOK'
<1>i. DeployInv /\ BaseInv /\ GovernorsOK  BY DEF Sound, SoundInv
<1>c. ChainGrows  BY <1>i, ChainFrame
<1>a. Adopted("GovernanceProxy") => Adopted("GovernanceProxy")' /\ Governance' = Governance
    BY <1>i, AdoptedStays, AdoptionAre DEF Governance
<1>. SUFFICES ASSUME NEW a \in DOMAIN chain'
              PROVE  /\ Governed(a) =>
                           Adopted("GovernanceProxy")' /\ chain'[a].governor = Governance'
                     /\ OfMultisig(a) => chain'[a].governor = Multisig
                     /\ OfDeployer(a) =>
                           \/ chain'[a].governor = Deployer
                           \/ a.proxy /\ handover' = "accepted"
                           \/ ~a.proxy /\ "governance_proxy.proxy" \in done'
                           \/ /\ ~a.proxy /\ running' /\ Name' = "governance_proxy.proxy"
                              /\ todo' = <<>> /\ a = Bound("ProxyAdmin")'
    BY DEF GovernorsOK, Governed, OfMultisig, OfDeployer, Multisig, Deployer, Outsider, Address
<1>1. CASE a \notin DOMAIN chain  BY <1>1, <1>a, PlacedGoverned
<1>2. CASE a \in DOMAIN chain
    <2>1. \/ chain'[a].governor = chain[a].governor
          \/ TransferStep /\ a = todo[1].target
          \/ AcceptGovernance /\ a = Governance /\ handover' = "accepted"
        BY <1>2, <1>c DEF ChainGrows
    <2>2. CASE chain'[a].governor = chain[a].governor
        <3>1. ASSUME ~a.proxy, running, Name = "governance_proxy.proxy", todo = <<>>,
                     a = Bound("ProxyAdmin"), chain[a].governor # Deployer
              PROVE  \/ "governance_proxy.proxy" \in done'
                     \/ /\ running' /\ Name' = "governance_proxy.proxy" /\ todo' = <<>>
                        /\ a = Bound("ProxyAdmin")'
            <4>1. ~StepOfScript  BY <1>i, <3>1, StepIs
            <4>2. CASE running'
                <5>1. UNCHANGED deployVars  BY <1>i, <3>1, <4>1, <4>2, HistoryFrame
                <5>2. Bound("ProxyAdmin")' = Bound("ProxyAdmin")
                    BY <5>1 DEF deployVars, deployment, Bound
                <5>. QED  BY <3>1, <4>2, <5>1, <5>2 DEF deployVars, plan, Name
            <4>3. CASE ~running'
                <5>1. ~UNCHANGED deployVars  BY <3>1, <4>3 DEF deployVars, plan, running
                <5>2. Ends  BY <1>i, <3>1, <4>1, <5>1, MovesAre, HandIs, StartIs
                <5>3. Finish
                    <6>1. ~Revert /\ ~Cut
                        <7>1. Stuck  BY <1>2, <3>1, HandedOver
                        <7>2. Cut => torn' # {}  BY <7>1 DEF Cut
                        <7>. QED  BY <3>1, <7>2 DEF Revert
                    <6>2. ~SkipScript /\ ~GoOn  BY <3>1 DEF SkipScript, GoOn, Idle, running
                    <6>. QED  BY <5>2, <6>1, <6>2 DEF Ends
                <5>. QED  BY <3>1, <5>3 DEF Finish
            <4>. QED  BY <4>2, <4>3
        <3>2. handover = "accepted" => handover' = "accepted"  BY <1>i, HandoverStays
        <3>3. done \subseteq done'  BY <1>i, HistoryFrame
        <3>. QED  BY <1>2, <1>i, <1>a, <2>2, <3>1, <3>2, <3>3 DEF GovernorsOK
    <2>3. CASE TransferStep /\ a = todo[1].target
        <3>1. /\ a.contract = "ProxyAdmin" /\ ~a.proxy /\ running' /\ todo' = <<>>
              /\ Name' = "governance_proxy.proxy"
            BY <2>3, TransferIsLast
        <3>2. a = Bound("ProxyAdmin")'
            <4>1. UNCHANGED containers  BY <1>i, <2>3, OtherSteps
            <4>2. a = Bound("ProxyAdmin")  BY <2>3, TransferIsLast
            <4>. QED  BY <4>1, <4>2 DEF Bound
        <3>. QED  BY <3>1, <3>2 DEF Governed, OfMultisig
    <2>4. CASE AcceptGovernance /\ a = Governance /\ handover' = "accepted"
        <3>1. a.contract \in {"GovernanceProxy", "none"}
            <4>1. ~There("GovernanceProxy") => Bound("GovernanceProxy") = NoAddress
                BY DEF There, Bound
            <4>2. There("GovernanceProxy") => Bound("GovernanceProxy").contract = "GovernanceProxy"
                BY <1>i, BoundIs, ByName DEF Sound
            <4>. QED  BY <2>4, <4>1, <4>2, ApartAre DEF Governance
        <3>. QED  BY <2>4, <3>1 DEF Governed, OfMultisig, OfDeployer
    <2>. QED  BY <2>1, <2>2, <2>3, <2>4
<1>. QED  BY <1>1, <1>2

-----------------------------------------------------------------------------
(* What a script was handed stays what it was while it runs.               *)

LEMMA VaultsAt ==
    ASSUME DeployInv, NEW c \in VaultKinds
    PROVE  /\ c \in Contracts /\ IsSequence(containers[c])
           /\ \A i \in DOMAIN containers[c] :
                 containers[c][i] \in DOMAIN chain /\ containers[c][i].contract = c
<1>1. c \in Contracts  BY ContractsAre DEF VaultKinds
<1>. HIDE DEF Contracts
<1>. QED  BY <1>1 DEF DeployInv, ContainersOK

LEMMA FeesReadyAtStart ==
    ASSUME Sound, ~running
    PROVE  \A e \in AllVaults : HasConfig(e)
<1>i. DeployInv /\ VaultsOK  BY DEF Sound, SoundInv
<1>. SUFFICES ASSUME NEW e \in AllVaults PROVE chain[e].label \in vaults
    BY DEF HasConfig
<1>1. PICK c \in VaultKinds : \E i \in DOMAIN containers[c] : e = containers[c][i]
    BY DEF AllVaults
<1>2. PICK i \in DOMAIN containers[c] : e = containers[c][i]  BY <1>1
<1>3. e.proxy  BY <1>2, <1>i DEF VaultsOK
<1>4. e \in DOMAIN chain /\ e.contract \in VaultKinds  BY <1>2, <1>i, VaultsAt
<1>. QED  BY <1>3, <1>4, <1>i DEF VaultsOK

LEMMA StartIsGood ==
    ASSUME Sound, StartScript
    PROVE  Good(Name, Current.steps) /\ ~running
<1>i. ChainId = 1 /\ ContainersOK  BY DEF Sound, DeployInv
<1>1. Name \in ScriptNames /\ ~running  BY StartIs DEF Sound
<1>2. Handed(Name) /\ FeesReady(Name)  BY <1>1, HandedAtStart, FeesReadyAtStart DEF FeesReady
<1>. QED  BY <1>i, <1>1, <1>2, AllGood DEF Current

\* Nothing but the script that deploys the handler of fees adds to its container.
LEMMA HandlerStays ==
    ASSUME Sound, Moves, "fee_handler.main" \in done
    PROVE  LET c == "StaticPercentageFeeHandler" IN
           containers'[c] = containers[c] /\ Bound(c)' = Bound(c)
<1>. DEFINE c == "StaticPercentageFeeHandler"
<1>i. DeployInv /\ BaseInv /\ FitsOK  BY DEF Sound, SoundInv
<1>1. ContainerMoves(c)
    <2>1. c \in Contracts  BY ByName
    <2>. HIDE DEF Contracts, c
    <2>. QED  BY <1>i, <2>1, ContainerFrame
<1>2. ASSUME DeployStep, c = todo[1].at.contract PROVE FALSE
    <2>1. StepOfScript /\ todo[1].op = "deploy"  BY <1>i, <1>2, DeployIs
    <2>2. running /\ 1 \in DOMAIN todo  BY <1>i, <2>1, StepIs
    <2>3. MadeFits(Name, todo[1])  BY <1>i, <2>1, <2>2 DEF FitsOK, Fits, DeployFits
    <2>4. Makes(todo[1], c) /\ "FEE_HANDLER" \in DOMAIN Roles /\ Roles["FEE_HANDLER"] = c
          /\ Owner["FEE_HANDLER"] = "fee_handler.main"
        BY <1>2, <2>1 DEF Makes, Upgradeable, Roles, Owner
    <2>5. Name = "fee_handler.main"  BY <2>3, <2>4 DEF MadeFits
    <2>. QED  BY <1>i, <2>2, <2>5, NotPassed DEF BaseInv, HistoryOK
<1>3. c \notin VaultKinds /\ c # HandOracle /\ c \notin DOMAIN Adoption
    BY DEF VaultKinds, HandOracle, Adoption
<1>4. containers'[c] = containers[c]  BY <1>1, <1>2, <1>3 DEF ContainerMoves
<1>. QED  BY <1>4 DEF Bound

\* The key of a role is only set by the script that owns it.
LEMMA KeyStays ==
    ASSUME Sound, Moves, NEW k \in DOMAIN Roles, ~(running /\ Name = Owner[k])
    PROVE  /\ k \in DOMAIN config' <=> k \in DOMAIN config
           /\ k \in DOMAIN config => config'[k] = config[k]
<1>i. DeployInv /\ BaseInv /\ FitsOK  BY DEF Sound, SoundInv
<1>1. ASSUME SetKeyStep, k = todo[1].key PROVE FALSE
    <2>1. StepOfScript /\ todo[1].op = "setKey"  BY <1>i, <1>1, OtherSteps DEF StepOfScript
    <2>2. running /\ 1 \in DOMAIN todo  BY <1>i, <2>1, StepIs
    <2>3. KeyFits(Name, todo[1])  BY <1>i, <2>1, <2>2 DEF FitsOK, Fits
    <2>. QED  BY <1>1, <2>2, <2>3 DEF KeyFits
<1>2. Scripted(k)  BY ScriptedKeys
<1>. QED  BY <1>1, <1>2, <1>i, ConfigFrame

LEMMA KeyAddressStays ==
    ASSUME Sound, Moves, NEW k \in DOMAIN Roles, ~(running /\ Name = Owner[k])
    PROVE  KeyAddress(k)' = KeyAddress(k)
BY KeyStays DEF KeyAddress, Readable, HasKey

LEMMA KeptAre ==
    /\ Kept \subseteq DOMAIN Makers /\ Kept \cap DOMAIN Adoption = {}
    /\ {"RootSafetyCheck", "ChainlinkPriceOracle", "ProxyAdmin", "VaultSafetyMode",
        "ReserveSafetyManager"} \subseteq DOMAIN Makers
    /\ DOMAIN CallTarget = {"checks", "feeds", "fees"} /\ DOMAIN CallScript = DOMAIN CallTarget
    /\ CallTarget["checks"] = "RootSafetyCheck" /\ CallScript["checks"] = "safety.register"
    /\ CallTarget["feeds"] = "ChainlinkPriceOracle"
    /\ CallScript["feeds"] = "chainlink.set_feeds"
    /\ CallTarget["fees"] = "StaticPercentageFeeHandler" /\ CallScript["fees"] = "vaults.set_fees"
BY DEF Kept, Makers, Adoption, CallTarget, CallScript


LEMMA MadeFitWhen ==
    ASSUME Name' = Name, NeededBy(Name, "governance_proxy.proxy") => Governance' = Governance,
           NEW step, MadeFits(Name, step)
    PROVE  MadeFits(Name, step)'
<1>3. /\ Governed(step.at)' = Governed(step.at) /\ OfMultisig(step.at)' = OfMultisig(step.at)
      /\ OfDeployer(step.at)' = OfDeployer(step.at) /\ Multisig' = Multisig /\ Deployer' = Deployer
    BY DEF Governed, OfMultisig, OfDeployer, Multisig, Deployer, Outsider, Address
<1>4. vaults' = vaults /\ VaultKinds' = VaultKinds /\ Roles' = Roles /\ Owner' = Owner
    BY DEF vaults, GenericSymbols, BalancerSymbols, VaultKinds, Roles, Owner
<1>5. \A c : Makes(step, c)' = Makes(step, c)  BY DEF Makes, Upgradeable
<1>6. \A n : NeededBy(Name, n)' = NeededBy(Name, n)  BY DEF NeededBy
<1>. QED  BY <1>3, <1>4, <1>5, <1>6 DEF MadeFits

\* A step goes on to fit its script if the addresses that count for it stay the same.
LEMMA FitWhen ==
    ASSUME Name' = Name, NeededBy(Name, "governance_proxy.proxy") => Governance' = Governance,
           NEW step, Fits(Name, step),
           step.op = "deploy" => \A c \in DOMAIN step.kept :
               Bound(c)' = Bound(c) /\ (There(c) => There(c)'),
           step.op = "call" => \A l \in DOMAIN CallScript :
               CallScript[l] = Name /\ There(CallTarget[l]) =>
                   There(CallTarget[l])' /\ Bound(CallTarget[l])' = Bound(CallTarget[l]),
           step.op = "asset" => KeyAddress("ASSET_REGISTRY")' = KeyAddress("ASSET_REGISTRY"),
           step.op = "transfer" => There("ProxyAdmin")' /\ Bound("ProxyAdmin")' = Bound("ProxyAdmin")
    PROVE  Fits(Name, step)'
<1>3. \A n : NeededBy(Name, n)' = NeededBy(Name, n)  BY DEF NeededBy
<1>4. vaults' = vaults /\ AlwaysRevert' = AlwaysRevert /\ Roles' = Roles /\ Owner' = Owner
      /\ CallScript' = CallScript /\ CallTarget' = CallTarget
      /\ Outsider("BALANCER_VAULT")' = Outsider("BALANCER_VAULT")
      /\ KeyScript' = KeyScript /\ Kept' = Kept
    BY DEF vaults, GenericSymbols, BalancerSymbols, AlwaysRevert, Roles, Owner, CallScript,
           CallTarget, Outsider, Address, KeyScript, Kept
<1>5. step.op = "deploy" => DeployFits(Name, step)'
    BY <1>3, <1>4, MadeFitWhen DEF Fits, DeployFits
<1>6. step.op = "proxy" => ProxyFits(Name, step)'  BY <1>4, MadeFitWhen DEF Fits, ProxyFits
<1>7. step.op = "setKey" => KeyFits(Name, step)'  BY <1>3, <1>4 DEF Fits, KeyFits
<1>8. step.op = "call" => CallFits(Name, step)'  BY <1>3, <1>4 DEF Fits, CallFits
<1>9. step.op = "asset" => AssetFits(Name, step)'  BY <1>3 DEF Fits, AssetFits
<1>10. step.op = "print" => PrintFits(step)'  BY DEF Fits, PrintFits
<1>. QED  BY <1>4, <1>5, <1>6, <1>7, <1>8, <1>9, <1>10 DEF Fits

LEMMA FitStays ==
    ASSUME Sound, Moves, running, running', NEW step, Fits(Name, step)
    PROVE  Fits(Name, step)'
<1>i. DeployInv /\ BaseInv /\ NeedsOK  BY DEF Sound, SoundInv
<1>1. Name' = Name  BY <1>i, HistoryFrame
<1>2. NeededBy(Name, "governance_proxy.proxy") => Governance' = Governance
    BY <1>i, AdoptionAre, AdoptedStays DEF NeedsOK, Governance
<1>3. ASSUME step.op = "deploy", NEW c \in DOMAIN step.kept
      PROVE  Bound(c)' = Bound(c) /\ (There(c) => There(c)')
    <2>1. CASE c = "GyroConfig" /\ NeededBy(Name, "config.proxy")
        <3>1. Adopted(c) /\ c \in DOMAIN Adoption  BY <1>i, <2>1, AdoptionAre DEF NeedsOK
        <3>. QED  BY <1>i, <3>1, AdoptedStays DEF Adopted
    <2>2. CASE c \in Kept /\ There(c)
        <3>1. c \in DOMAIN Makers  BY <2>2, KeptAre
        <3>. QED  BY <1>i, <2>2, <3>1, BoundStays
    <2>3. \/ c = "GyroConfig" /\ NeededBy(Name, "config.proxy")
          \/ c \in Kept /\ There(c)
        BY <1>3 DEF Fits, DeployFits
    <2>. QED  BY <2>1, <2>2, <2>3
<1>4. \A l \in DOMAIN CallScript : CallScript[l] = Name /\ There(CallTarget[l]) =>
          There(CallTarget[l])' /\ Bound(CallTarget[l])' = Bound(CallTarget[l])
    <2>1. \A c \in {"RootSafetyCheck", "ChainlinkPriceOracle"} :
              There(c) => There(c)' /\ Bound(c)' = Bound(c)
        BY <1>i, KeptAre, BoundStays
    <2>2. Name = "vaults.set_fees" /\ There("StaticPercentageFeeHandler") =>
              /\ There("StaticPercentageFeeHandler")'
              /\ Bound("StaticPercentageFeeHandler")' = Bound("StaticPercentageFeeHandler")
        <3>1. Name = "vaults.set_fees" => "fee_handler.main" \in done
            BY <1>i, NeedsAre DEF NeedsOK
        <3>. QED  BY <3>1, HandlerStays DEF There
    <2>. QED  BY <2>1, <2>2, KeptAre
<1>5. ASSUME step.op = "asset" PROVE KeyAddress("ASSET_REGISTRY")' = KeyAddress("ASSET_REGISTRY")
    <2>1. Name # "asset_registry.proxy"  BY <1>5 DEF Fits, AssetFits
    <2>2. "ASSET_REGISTRY" \in DOMAIN Roles /\ Owner["ASSET_REGISTRY"] = "asset_registry.proxy"
        BY DEF Roles, Owner
    <2>. QED  BY <2>1, <2>2, KeyAddressStays
<1>6. step.op = "transfer" => There("ProxyAdmin")' /\ Bound("ProxyAdmin")' = Bound("ProxyAdmin")
    BY <1>i, KeptAre, BoundStays DEF Fits
<1>. QED  BY <1>1, <1>2, <1>3, <1>4, <1>5, <1>6, FitWhen

\* What is left of a script ends as the script does.
LEMMA LeftEnds ==
    ASSUME DeployInv, StepOfScript, todo' # <<>>, NEW n, EndsMade(n, todo)
    PROVE  EndsMade(n, todo')
<1>1. IsSequence(todo) /\ todo # <<>> /\ todo' = Tail(todo)  BY StepIs DEF TakesStep
<1>2. /\ Len(todo) \in Nat /\ DOMAIN todo = 1..Len(todo)
      /\ Len(todo') \in Nat /\ Len(todo') = Len(todo) - 1 /\ DOMAIN todo' = 1..Len(todo')
      /\ \A j \in DOMAIN todo' : todo'[j] = todo[j + 1]
    BY <1>1, TailOf, LengthOf
<1>3. Len(todo') # 0  BY <1>1, TailOf, LengthOf, StepIs
<1>4. Len(todo') \in DOMAIN todo' /\ Len(todo') + 1 = Len(todo) /\ Len(todo) # 1
    BY <1>2, <1>3
<1>5. todo'[Len(todo')] = todo[Len(todo)]  BY <1>2, <1>4
<1>. QED  BY <1>4, <1>5 DEF EndsMade

\* Every step of the running script fits it.
LEMMA FitsStep ==
    ASSUME Sound, Moves
    PROVE  FitsOK'
<1>i. DeployInv /\ BaseInv /\ FitsOK  BY DEF Sound, SoundInv
<1>. SUFFICES ASSUME running' PROVE FitsOK'
    BY DEF FitsOK
<1>o. Once' = Once /\ \A s : Final(s)' = Final(s) /\ \A n, t : EndsMade(n, t)' = EndsMade(n, t)
    BY DEF Once, Final, EndsMade, Makers, NotRepeatable, vaults, GenericSymbols, BalancerSymbols
<1>1. CASE StartScript
    <2>1. Good(Name, Current.steps) /\ todo' = Current.steps /\ Name' = Name
          /\ UNCHANGED <<chain, containers, config>>
        BY <1>i, <1>1, StartIsGood, StartIs
    <2>2. UNCHANGED <<Governance, Bound("ProxyAdmin"), KeyAddress("ASSET_REGISTRY")>>
          /\ \A c : Bound(c)' = Bound(c) /\ There(c)' = There(c)
        BY <2>1 DEF Bound, There, Governance, KeyAddress, Readable, HasKey
    <2>3. ASSUME NEW s, Fits(Name, s) PROVE Fits(Name, s)'
        <3>1. /\ Governance' = Governance /\ Name' = Name
              /\ KeyAddress("ASSET_REGISTRY")' = KeyAddress("ASSET_REGISTRY")
              /\ \A c \in DOMAIN s.kept : Bound(c)' = Bound(c) /\ (There(c) => There(c)')
              /\ \A l \in DOMAIN CallScript :
                     /\ There(CallTarget[l]) => There(CallTarget[l])'
                     /\ Bound(CallTarget[l])' = Bound(CallTarget[l])
            BY <2>1, <2>2
        <3>2. s.op = "transfer" => There("ProxyAdmin")' /\ Bound("ProxyAdmin")' = Bound("ProxyAdmin")
            BY <2>1, <2>2, <2>3 DEF Fits
        <3>. QED  BY <2>3, <3>1, <3>2, FitWhen
    <2>. QED  BY <1>o, <2>1, <2>3 DEF Good, FitsOK
<1>2. CASE ~StartScript
    <2>1. running /\ Name' = Name /\ (StepOfScript \/ UNCHANGED deployVars)
        BY <1>i, <1>2, HistoryFrame
    <2>2. \A s : Fits(Name, s) => Fits(Name, s)'  BY <2>1, FitStays
    <2>3. CASE UNCHANGED deployVars
        <3>1. todo' = todo  BY <2>3 DEF deployVars, plan
        <3>. QED  BY <1>i, <1>o, <2>1, <2>2, <3>1 DEF FitsOK
    <2>4. CASE StepOfScript
        <3>1. ASSUME NEW i \in DOMAIN todo'
              PROVE  \E j \in DOMAIN todo : /\ todo'[i] = todo[j] /\ Fits(Name, todo[j])
                                            /\ Final(todo[j]) => i = Len(todo')
            <4>1. i \in Nat /\ i + 1 \in DOMAIN todo /\ todo'[i] = todo[i + 1]
                BY <1>i, <2>4, <3>1, StepIs
            <4>2. Fits(Name, todo[i + 1]) /\ (Final(todo[i + 1]) => i + 1 = Len(todo))
                BY <1>i, <2>1, <4>1 DEF FitsOK
            <4>3. i + 1 # 1  BY <1>i, <2>4, <3>1, StepIs
            <4>4. Len(todo') = Len(todo) - 1  BY <1>i, <2>4, <4>1, <4>3, LeftOf
            <4>5. Len(todo) = i + 1 => Len(todo') = i  BY <4>1, <4>4
            <4>. QED  BY <4>1, <4>2, <4>5
        <3>2. Name \in Once /\ todo' # <<>> => EndsMade(Name, todo')
            <4>1. todo # <<>>  BY <1>i, <2>4, StepIs
            <4>. QED  BY <1>i, <2>1, <2>4, <4>1, LeftEnds DEF FitsOK
        <3>3. \A i \in DOMAIN todo' : \E s : s = todo'[i] /\ Fits(Name, s)
                                             /\ (Final(s) => i = Len(todo'))
            BY <3>1
        <3>. QED  BY <1>o, <2>1, <2>2, <3>2, <3>3 DEF FitsOK
    <2>. QED  BY <2>1, <2>3, <2>4
<1>. QED  BY <1>1, <1>2

-----------------------------------------------------------------------------
(* What is printed, and the vault of Balancer.                             *)

\* The first step that is left tells which action takes it.
LEMMA StepKind ==
    ASSUME DeployInv, BaseInv, StepOfScript
    PROVE  /\ todo[1].op = "deploy" => DeployStep
           /\ todo[1].op = "proxy" => ProxyStep
           /\ todo[1].op = "overwrite" => OverwriteStep
           /\ todo[1].op = "setKey" => SetKeyStep
           /\ todo[1].op = "call" => CallStep
           /\ todo[1].op = "asset" => AssetStep
           /\ todo[1].op = "transfer" => TransferStep
           /\ todo[1].op = "print" => PrintStep
BY DeployIs, ProxyIs, OtherSteps DEF StepOfScript

LEMMA PrintedStep ==
    ASSUME Sound, Moves
    PROVE  PrintedOK'
<1>i. DeployInv /\ BaseInv /\ FitsOK /\ PrintedOK  BY DEF Sound, SoundInv
<1>1. printed' \subseteq printed \/ (PrintStep /\ StepOfScript)
    <2>1. ASSUME NEW c \in DOMAIN Adoption, Adopt(c) PROVE printed' = printed  BY <2>1 DEF Adopt
    <2>2. ASSUME NEW batch \in printed, GovernanceExecutes(batch) PROVE printed' \subseteq printed
        BY <2>2 DEF GovernanceExecutes
    <2>3. DeployByHand \/ ChangeGovernor \/ AcceptGovernance => printed' = printed
        BY DEF DeployByHand, ChangeGovernor, AcceptGovernance
    <2>4. StartScript \/ Ends \/ GovernanceChanges => printed' = printed
        BY <1>i, StartIs, EndIs, GovernanceIs
    <2>5. UNCHANGED deployVars => printed' = printed  BY DEF deployVars
    <2>6. StepOfScript /\ ~PrintStep => printed' = printed  BY <1>i, StepIs
    <2>. QED  BY <2>1, <2>2, <2>3, <2>4, <2>5, <2>6, MovesAre DEF ByHand
<1>2. CASE PrintStep /\ StepOfScript
    <2>1. running /\ 1 \in DOMAIN todo /\ printed' = printed \union {todo[1].batch}
        BY <1>i, <1>2, StepIs
    <2>2. todo[1].op = "print"  BY <1>i, <1>2, OtherSteps
    <2>3. PrintFits(todo[1])  BY <1>i, <2>1, <2>2 DEF FitsOK, Fits
    <2>. QED  BY <1>i, <2>1, <2>3 DEF PrintedOK, PrintFits
<1>. QED  BY <1>1, <1>2, <1>i DEF PrintedOK

LEMMA BalancerStep ==
    ASSUME Sound, Moves
    PROVE  BalancerOK'
<1>. DEFINE k == "BALANCER_VAULT"
            script == "config.set_initial_config"
<1>i. DeployInv /\ BaseInv /\ FitsOK /\ BalancerOK  BY DEF Sound, SoundInv
<1>k. Scripted(k)  BY ScriptedKeys
<1>o. Outsider(k)' = Outsider(k)  BY DEF Outsider, Address
<1>1. k \in DOMAIN config' => config'[k].value = Outsider(k)
    <2>1. ASSUME SetKeyStep, k = todo[1].key PROVE todo[1].word = Outsider(k)
        <3>1. StepOfScript /\ todo[1].op = "setKey"  BY <1>i, <2>1, OtherSteps DEF StepOfScript
        <3>2. running /\ 1 \in DOMAIN todo  BY <1>i, <3>1, StepIs
        <3>3. KeyFits(Name, todo[1])  BY <1>i, <3>1, <3>2 DEF FitsOK, Fits
        <3>. QED  BY <2>1, <3>3 DEF KeyFits
    <2>2. /\ k \in DOMAIN config => k \in DOMAIN config'
          /\ \/ /\ k \in DOMAIN config' <=> k \in DOMAIN config
                /\ k \in DOMAIN config => config'[k] = config[k]
             \/ /\ SetKeyStep /\ k = todo[1].key /\ k \in DOMAIN config'
                /\ config'[k].value = todo[1].word /\ config'[k].type = todo[1].type
        BY <1>i, <1>k, ConfigFrame
    <2>. QED  BY <1>i, <2>1, <2>2 DEF BalancerOK
<1>2. k \in DOMAIN config => k \in DOMAIN config'  BY <1>i, <1>k, ConfigFrame
<1>3. script \in done' => k \in DOMAIN config'
    <2>1. CASE script \in done  BY <1>i, <1>2, <2>1 DEF BalancerOK
    <2>2. CASE script \notin done /\ script \in done'
        <3>1. Finish /\ Name = script  BY <1>i, <2>2, HistoryFrame
        <3>2. running /\ todo = <<>>  BY <3>1 DEF Finish
        <3>3. \A i : i \notin DOMAIN todo
            <4>1. DOMAIN todo = {}  BY <3>2, EmptyDomain
            <4>. QED  BY <4>1
        <3>. QED  BY <1>i, <1>2, <3>1, <3>2, <3>3 DEF BalancerOK
    <2>. QED  BY <2>1, <2>2
<1>4. ASSUME running', Name' = script
      PROVE  k \in DOMAIN config' \/ \E i \in DOMAIN todo' : todo'[i].op = "setKey" /\ todo'[i].key = k
    <2>1. CASE StartScript
        <3>1. todo' = Current.steps /\ Name = script  BY <1>i, <1>4, <2>1, StartIs
        <3>2. Current.steps = <<SetAddress(k, Outsider(k))>>
            BY <3>1, ScriptIs DEF Current, set_initial_config, Steps
        <3>3. 1 \in DOMAIN todo' /\ todo'[1] = SetAddress(k, Outsider(k))
            <4>. HIDE DEF k
            <4>. QED  BY <3>1, <3>2, Singles
        <3>. QED  BY <3>3 DEF SetAddress, SetKeyOf
    <2>2. CASE running /\ StepOfScript
        <3>1. k \in DOMAIN config \/ \E i \in DOMAIN todo : todo[i].op = "setKey" /\ todo[i].key = k
            BY <1>i, <1>4, <2>2, StepIs DEF BalancerOK
        <3>2. ASSUME NEW i \in DOMAIN todo, todo[i].op = "setKey", todo[i].key = k
              PROVE  \/ k \in DOMAIN config'
                     \/ \E j \in DOMAIN todo' : todo'[j].op = "setKey" /\ todo'[j].key = k
            <4>1. CASE i = 1
                <5>1. SetKeyStep  BY <1>i, <2>2, <3>2, <4>1, StepKind
                <5>2. config' = Set(config, k, todo[1].type, todo[1].word)
                    BY <1>i, <3>2, <4>1, <5>1, OtherSteps
                <5>. QED  BY <5>2 DEF Set, Put
            <4>2. CASE i # 1
                <5>1. i - 1 \in DOMAIN todo' /\ todo'[i - 1] = todo[i]
                    BY <1>i, <2>2, <4>2, LeftOf
                <5>. QED  BY <3>2, <5>1
            <4>. QED  BY <4>1, <4>2
        <3>. QED  BY <1>2, <3>1, <3>2
    <2>3. CASE UNCHANGED deployVars
        BY <1>i, <1>4, <2>3 DEF BalancerOK, deployVars, deployment, plan, running, Name
    <2>. QED  BY <1>i, <1>4, <2>1, <2>2, <2>3, HistoryFrame
<1>. QED  BY <1>o, <1>1, <1>3, <1>4 DEF BalancerOK

-----------------------------------------------------------------------------
(* The keys lead to the contracts in use.                                  *)

\* How a script came to be passed, or to have reverted.
LEMMA PassedIs ==
    ASSUME Sound, Moves, NEW n,
           n \in Passed' \/ (phase' = "reverted" /\ Name' = n)
    PROVE  \/ n \in Passed \/ (phase = "reverted" /\ Name = n)
           \/ Name = n /\ Finish
           \/ Name = n /\ Revert
           \/ Name = n /\ Name = "vault_price_oracle.generic"
<1>i. DeployInv /\ BaseInv /\ RevertsOK /\ torn = {}  BY DEF Sound, SoundInv
<1>n. next \in Nat  BY <1>i DEF DeployInv, PlanOK
<1>1. ASSUME UNCHANGED <<next, phase>>
      PROVE  n \in Passed \/ (phase = "reverted" /\ Name = n)
    BY <1>1 DEF Passed, Name
<1>2. ASSUME next' = next + 1, phase' = "ready" PROVE n \in Passed \/ Name = n
    <2>1. PICK i \in 1..(next' - 1) : Plan[i] = n  BY <1>2 DEF Passed
    <2>2. i \in 1..(next - 1) \/ i = next  BY <1>2, <1>n, <2>1
    <2>. QED  BY <2>1, <2>2 DEF Passed, Name
<1>3. CASE StartScript
    <2>1. next' = next /\ phase' = "running"  BY <1>3, StartIs, <1>i DEF running
    <2>. QED  BY <2>1 DEF Passed
<1>4. CASE StepOfScript \/ ByHand \/ UNCHANGED deployVars
    <2>1. UNCHANGED <<next, phase>>  BY <1>4, <1>i, StepIs, HandIs DEF deployVars, plan
    <2>. QED  BY <1>1, <2>1
<1>5. CASE Finish  BY <1>2, <1>5 DEF Finish
<1>6. CASE Revert
    <2>1. next' = next  BY <1>6 DEF Revert
    <2>. QED  BY <1>6, <2>1 DEF Passed, Name
<1>7. CASE Cut
    <2>1. next' = next /\ phase' = "ready"  BY <1>7 DEF Cut
    <2>. QED  BY <2>1 DEF Passed
<1>8. CASE GoOn
    <2>1. next' = next + 1 /\ phase' = "ready" /\ phase = "reverted"  BY <1>8 DEF GoOn
    <2>. QED  BY <1>2, <2>1
<1>9. CASE SkipScript
    <2>1. next' = next + 1 /\ phase' = "ready" /\ Idle /\ Verdict(Current.rules) = "skip"
        BY <1>9 DEF SkipScript
    <2>2. Name \in ScriptNames /\ Name \notin Passed  BY <1>i, <2>1, NotPassed
    <2>3. ScriptOf(Name, Current)
        BY <1>i, <2>2, AllScripts, ContractsAre DEF DeployInv, ContainersOK, Current
    <2>4. PICK c \in DOMAIN Makers : Makers[c] = Name /\ containers[c] # <<>>
        BY <2>1, <2>3, SkipsMade
    <2>5. Name \in reverted
        <3>1. ~running  BY <2>1 DEF Idle
        <3>. QED  BY <1>i, <2>2, <2>4, <3>1 DEF DeployInv, MadeOK, BaseInv, HistoryOK
    <2>6. \A d \in DOMAIN Makers : Makers[d] \notin {"motherboard.proxy", "vaults.set_vaults"}
        BY DEF Makers
    <2>7. Name = "vault_price_oracle.generic"
        BY <1>i, <2>4, <2>5, <2>6 DEF RevertsOK, AlwaysRevert
    <2>. QED  BY <1>2, <2>1, <2>7
<1>. QED  BY <1>3, <1>4, <1>5, <1>6, <1>7, <1>8, <1>9, MovesAre DEF Ends

LEMMA RolesKinds ==
    \A k \in DOMAIN Roles :
        /\ Roles[k] \in Contracts /\ Roles[k] \notin VaultKinds /\ Roles[k] # HandOracle
        /\ Roles[k] \notin Upgradeable =>
              Roles[k] \notin DOMAIN Adoption /\ Roles[k] \notin {"GyroConfig", "AssetRegistry"}
        /\ Owner[k] # "vault_price_oracle.generic"
        /\ Owner[k] \in AlwaysRevert => Owner[k] = "motherboard.proxy"
        /\ k \in AddressKeys
BY DEF Roles, Contracts, VaultKinds, HandOracle, Upgradeable, Adoption, Owner, AlwaysRevert,
       AddressKeys

LEMMA AppendedLast ==
    ASSUME NEW s, IsSequence(s), NEW x
    PROVE  Append(s, x) # <<>> /\ Append(s, x)[Len(Append(s, x))] = x
<1>. DEFINE A == {s[i] : i \in DOMAIN s} \union {x}
<1>1. s \in Seq(A)
    <2>1. s \in Seq({s[i] : i \in DOMAIN s})  BY DEF IsSequence
    <2>. QED  BY <2>1, SeqMonotonic
<1>2. x \in A  OBVIOUS
<1>. HIDE DEF A
<1>3. /\ Len(Append(s, x)) = Len(s) + 1 /\ Len(s) \in Nat
      /\ Append(s, x)[Len(s) + 1] = x
    BY <1>1, <1>2, AppendProperties
<1>. QED  BY <1>3, Appended

LEMMA PlacedCounts ==
    ASSUME NEW c, NEW p, NEW n, NEW a, a = Address(c, n, p), NEW g, NEW kept, NEW l,
           Placed(a, g, kept, l)
    PROVE  Count(c, p)' = Count(c, p) + 1 /\ a \in DOMAIN chain'
<1>1. a.contract = c /\ a.proxy = p  BY DEF Address
<1>. QED  BY <1>1 DEF Placed

\* The contract in use is the one that was deployed last.
LEMMA InUseIs ==
    ASSUME DeployInv, BaseInv, Moves, NEW k \in DOMAIN Roles
    PROVE  /\ StepOfScript /\ Makes(todo[1], Roles[k]) =>
                  InUse(Roles[k])' = todo[1].at /\ todo[1].at \in DOMAIN chain'
           /\ ~(StepOfScript /\ Makes(todo[1], Roles[k])) => InUse(Roles[k])' = InUse(Roles[k])
<1>. DEFINE c == Roles[k]
<1>k. /\ c \in Contracts /\ c \notin VaultKinds /\ c # HandOracle
      /\ c \notin Upgradeable => c \notin DOMAIN Adoption /\ c \notin {"GyroConfig", "AssetRegistry"}
    <2>. HIDE DEF Contracts
    <2>. QED  BY RolesKinds
<1>. HIDE DEF c
<1>p. Roles' = Roles /\ Upgradeable' = Upgradeable  BY DEF Roles, Upgradeable
<1>1. CASE c \in Upgradeable
    <2>1. /\ InUse(c) = Address(c, Count(c, TRUE), TRUE)
          /\ InUse(c)' = Address(c, Count(c, TRUE)', TRUE)
        BY <1>1, <1>p DEF InUse, Address
    <2>2. ASSUME StepOfScript, Makes(todo[1], c)
          PROVE  InUse(c)' = todo[1].at /\ todo[1].at \in DOMAIN chain'
        <3>1. ProxyStep /\ todo[1].at.contract = c  BY <1>1, <2>2, StepKind DEF Makes
        <3>2. /\ todo[1].at = Address(c, Count(c, TRUE) + 1, TRUE)
              /\ Placed(todo[1].at, todo[1].governor, [x \in {} |-> {}], todo[1].label)
            BY <3>1, ProxyIs DEF NewProxy
        <3>3. Count(c, TRUE)' = Count(c, TRUE) + 1 /\ todo[1].at \in DOMAIN chain'
            <4>. HIDE DEF Placed
            <4>. QED  BY <3>2, PlacedCounts
        <3>. QED  BY <2>1, <3>2, <3>3
    <2>3. ASSUME ~(StepOfScript /\ Makes(todo[1], c))
          PROVE  Count(c, TRUE)' = Count(c, TRUE)
        <3>1. CASE DOMAIN chain' = DOMAIN chain  BY <3>1 DEF Count
        <3>2. CASE DOMAIN chain' # DOMAIN chain
            <4>1. ChainGrows  BY ChainFrame
            <4>2. PICK a \in DOMAIN chain' \ DOMAIN chain : TRUE  BY <3>2, <4>1 DEF ChainGrows
            <4>3. DeployStep \/ ProxyStep \/ DeployByHand  BY <4>1, <4>2 DEF ChainGrows
            <4>4. CASE ProxyStep
                <5>1. /\ StepOfScript /\ todo[1].op = "proxy"
                      /\ Placed(todo[1].at, todo[1].governor, [x \in {} |-> {}], todo[1].label)
                    BY <4>4, ProxyIs
                <5>2. todo[1].at.contract # c  BY <1>1, <2>3, <5>1 DEF Makes
                <5>. QED  BY <5>1, <5>2 DEF Placed
            <4>5. CASE DeployStep
                <5>1. /\ todo[1].at = New(todo[1].at.contract)
                      /\ \E g, kept, l : Placed(todo[1].at, g, kept, l)
                    <6>. HIDE DEF Placed
                    <6>. QED  BY <4>5, DeployIs
                <5>2. ~todo[1].at.proxy
                    <6>1. \A x : New(x).proxy = FALSE  BY DEF New, Address
                    <6>. HIDE DEF New
                    <6>. QED  BY <5>1, <6>1
                <5>. QED  BY <5>1, <5>2 DEF Placed
            <4>6. CASE DeployByHand
                <5>1. /\ \E g, kept, l : Placed(New(HandOracle), g, kept, l)
                      /\ New(HandOracle).proxy = FALSE
                    <6>. HIDE DEF Placed, New, HandOracle
                    <6>. QED  BY <4>6, HandPlaces
                <5>. QED  BY <5>1 DEF Placed
            <4>. QED  BY <4>3, <4>4, <4>5, <4>6
        <3>. QED  BY <3>1, <3>2
    <2>. QED  BY <2>1, <2>2, <2>3, <1>p DEF c
<1>2. CASE c \notin Upgradeable
    <2>1. InUse(c) = Bound(c) /\ InUse(c)' = Bound(c)'  BY <1>2, <1>p DEF InUse
    <2>2. ContainerMoves(c) /\ IsSequence(containers[c])
        <3>. HIDE DEF Contracts
        <3>. QED  BY <1>k, ContainerFrame DEF DeployInv, ContainersOK
    <2>3. ASSUME StepOfScript, Makes(todo[1], c)
          PROVE  InUse(c)' = todo[1].at /\ todo[1].at \in DOMAIN chain'
        <3>1. DeployStep /\ todo[1].at.contract = c  BY <1>2, <2>3, StepKind DEF Makes
        <3>2. /\ containers' = [containers EXCEPT ![c] = Append(@, todo[1].at)]
              /\ \E g, kept, l : Placed(todo[1].at, g, kept, l)
            <4>. HIDE DEF Placed
            <4>. QED  BY <3>1, DeployIs
        <3>3. containers'[c] = Append(containers[c], todo[1].at)
            BY <1>k, <3>2 DEF DeployInv, ContainersOK
        <3>4. \A s, x : IsSequence(s) => Append(s, x) # <<>> /\ Append(s, x)[Len(Append(s, x))] = x
            BY AppendedLast
        <3>. QED  BY <1>k, <1>2, <2>1, <2>2, <3>2, <3>3, <3>4 DEF Bound, Placed
    <2>4. ASSUME ~(StepOfScript /\ Makes(todo[1], c)) PROVE containers'[c] = containers[c]
        <3>1. ASSUME DeployStep, c = todo[1].at.contract PROVE FALSE
            <4>1. StepOfScript /\ todo[1].op = "deploy"  BY <3>1, DeployIs
            <4>. QED  BY <1>2, <2>4, <3>1, <4>1 DEF Makes
        <3>. QED  BY <1>k, <1>2, <2>2, <3>1 DEF ContainerMoves
    <2>. QED  BY <2>1, <2>3, <2>4, <1>p DEF c, Bound
<1>. QED  BY <1>1, <1>2

\* A key that leads somewhere goes on to lead there while its script does not run.
LEMMA LeadStays ==
    ASSUME Sound, Moves, NEW k \in DOMAIN Roles, Leads(k), ~(running /\ Name = Owner[k])
    PROVE  Leads(k)'
<1>i. DeployInv /\ BaseInv /\ FitsOK  BY DEF Sound, SoundInv
<1>1. ~(StepOfScript /\ Makes(todo[1], Roles[k]))
    <2>1. ASSUME StepOfScript, Makes(todo[1], Roles[k]) PROVE FALSE
        <3>1. running /\ 1 \in DOMAIN todo  BY <1>i, <2>1, StepIs
        <3>2. Fits(Name, todo[1]) /\ todo[1].op \in {"deploy", "proxy"}
            BY <1>i, <2>1, <3>1 DEF FitsOK, Makes
        <3>3. MadeFits(Name, todo[1])  BY <3>2 DEF Fits, DeployFits, ProxyFits
        <3>. QED  BY <2>1, <3>1, <3>3 DEF MadeFits
    <2>. QED  BY <2>1
<1>2. InUse(Roles[k])' = InUse(Roles[k])  BY <1>i, <1>1, InUseIs
<1>3. k \in DOMAIN config' /\ config'[k] = config[k]  BY KeyStays DEF Leads
<1>4. DOMAIN chain \subseteq DOMAIN chain'
    <2>1. ChainGrows  BY <1>i, ChainFrame
    <2>. QED  BY <2>1 DEF ChainGrows
<1>. QED  BY <1>2, <1>3, <1>4 DEF Leads

\* The script of a key makes the contract before it sets the key.
LEMMA PointsAtStart ==
    ASSUME Sound, StartScript, NEW k \in DOMAIN Roles, Name = Owner[k]
    PROVE  Points(Current.steps, k)
<1>1. Handed(Name)  BY HandedAtStart
<1>2. ChainId = 1 /\ ContainersOK  BY DEF Sound, DeployInv
<1>3. Current.steps = Script(Owner[k]).steps  BY DEF Current
<1>. HIDE DEF Points, Handed
<1>. QED  BY <1>1, <1>2, <1>3, RolesAre, ScriptIs, GoodPairs, GoodProxies

\* A key of a script that runs, after one step of it.
LEMMA LeadOfStep ==
    ASSUME Sound, StepOfScript, NEW k \in DOMAIN Roles, Name = Owner[k]
    PROVE  /\ SetsOf(k)' = {} => MakesOf(k)' = {} /\ Leads(k)'
           /\ \A i \in SetsOf(k)' :
                 /\ \A j \in MakesOf(k)' : j < i /\ todo'[i].word = todo'[j].at
                 /\ MakesOf(k)' = {} => /\ todo'[i].word = InUse(Roles[k])'
                                        /\ InUse(Roles[k])' \in DOMAIN chain'
<1>i. DeployInv /\ BaseInv /\ LeadOK(k)  BY DEF Sound, SoundInv, LeadsOK
<1>m. Moves  BY DEF Moves, DeployNext, Progress
<1>r. running /\ 1 \in DOMAIN todo  BY <1>i, StepIs
<1>d. \A i \in DOMAIN todo : i \in Nat /\ i >= 1
    <2>1. DOMAIN todo = 1..Len(todo) /\ Len(todo) \in Nat  BY <1>i, <1>r, LengthOf, StepIs
    <2>. QED  BY <2>1
<1>p. Roles' = Roles  BY DEF Roles
<1>1. \A i : i \in SetsOf(k)' => i \in Nat /\ i + 1 \in SetsOf(k) /\ todo'[i] = todo[i + 1]
    BY <1>i, StepIs DEF SetsOf
<1>3. \A j : j \in MakesOf(k)' => j \in Nat /\ j + 1 \in MakesOf(k) /\ todo'[j] = todo[j + 1]
    <2>. SUFFICES ASSUME NEW j \in MakesOf(k)'
                  PROVE  j \in Nat /\ j + 1 \in MakesOf(k) /\ todo'[j] = todo[j + 1]
        OBVIOUS
    <2>1. j \in DOMAIN todo' /\ Makes(todo'[j], Roles[k])  BY <1>p DEF MakesOf, Makes, Upgradeable
    <2>2. j \in Nat /\ j + 1 \in DOMAIN todo /\ todo'[j] = todo[j + 1]  BY <1>i, <2>1, StepIs
    <2>. QED  BY <2>1, <2>2 DEF MakesOf
<1>4. \A i \in SetsOf(k) : i # 1 => i - 1 \in SetsOf(k)'
    <2>. SUFFICES ASSUME NEW i \in SetsOf(k), i # 1 PROVE i - 1 \in SetsOf(k)'
        OBVIOUS
    <2>1. i \in DOMAIN todo /\ todo[i].op = "setKey" /\ todo[i].key = k  BY DEF SetsOf
    <2>2. i - 1 \in DOMAIN todo' /\ todo'[i - 1] = todo[i]  BY <1>i, <2>1, LeftOf
    <2>. QED  BY <2>1, <2>2 DEF SetsOf
<1>5. \A j \in MakesOf(k) : j # 1 => j - 1 \in MakesOf(k)'
    <2>. SUFFICES ASSUME NEW j \in MakesOf(k), j # 1 PROVE j - 1 \in MakesOf(k)'
        OBVIOUS
    <2>1. j \in DOMAIN todo /\ Makes(todo[j], Roles[k])  BY DEF MakesOf
    <2>2. j - 1 \in DOMAIN todo' /\ todo'[j - 1] = todo[j]  BY <1>i, <2>1, LeftOf
    <2>. QED  BY <1>p, <2>1, <2>2 DEF MakesOf, Makes, Upgradeable
<1>6. 1 \notin MakesOf(k) => InUse(Roles[k])' = InUse(Roles[k])
    <2>1. 1 \notin MakesOf(k) => ~Makes(todo[1], Roles[k])  BY <1>r DEF MakesOf
    <2>. QED  BY <1>i, <1>m, <2>1, InUseIs
<1>7. 1 \in MakesOf(k) => InUse(Roles[k])' = todo[1].at /\ InUse(Roles[k])' \in DOMAIN chain'
    <2>1. 1 \in MakesOf(k) => Makes(todo[1], Roles[k])  BY DEF MakesOf
    <2>. QED  BY <1>i, <1>m, <2>1, InUseIs
<1>8. DOMAIN chain \subseteq DOMAIN chain'
    <2>1. ChainGrows  BY <1>i, <1>m, ChainFrame
    <2>. QED  BY <2>1 DEF ChainGrows
<1>9. /\ SetsOf(k) = {} => MakesOf(k) = {} /\ Leads(k)
      /\ \A i \in SetsOf(k) :
           /\ \A j \in MakesOf(k) : j < i /\ todo[i].word = todo[j].at
           /\ MakesOf(k) = {} => /\ todo[i].word = InUse(Roles[k])
                                 /\ InUse(Roles[k]) \in DOMAIN chain
    BY <1>i, <1>r DEF LeadOK
<1>10. ASSUME SetsOf(k)' = {} PROVE MakesOf(k)' = {} /\ Leads(k)'
    <2>1. CASE SetsOf(k) = {}
        <3>1. MakesOf(k) = {} /\ Leads(k)  BY <1>9, <2>1
        <3>2. MakesOf(k)' = {}  BY <1>3, <3>1
        <3>3. ~(SetKeyStep /\ k = todo[1].key)
            <4>1. ASSUME SetKeyStep, k = todo[1].key PROVE 1 \in SetsOf(k)
                BY <1>i, <1>r, <4>1, OtherSteps DEF SetsOf
            <4>. QED  BY <2>1, <4>1
        <3>4. k \in DOMAIN config' /\ config'[k] = config[k]
            <4>1. Scripted(k)  BY ScriptedKeys
            <4>. QED  BY <1>i, <1>m, <3>1, <3>3, <4>1, ConfigFrame DEF Leads
        <3>5. InUse(Roles[k])' = InUse(Roles[k])  BY <1>6, <3>1
        <3>. QED  BY <1>8, <3>1, <3>2, <3>4, <3>5 DEF Leads
    <2>2. CASE SetsOf(k) # {}
        <3>1. 1 \in SetsOf(k)  BY <1>4, <1>10, <2>2
        <3>2. MakesOf(k) = {}
            <4>1. \A j \in MakesOf(k) : j \in DOMAIN todo  BY DEF MakesOf
            <4>. QED  BY <1>9, <1>d, <3>1, <4>1
        <3>3. todo[1].word = InUse(Roles[k]) /\ InUse(Roles[k]) \in DOMAIN chain
            BY <1>9, <3>1, <3>2
        <3>4. todo[1].op = "setKey" /\ todo[1].key = k  BY <3>1 DEF SetsOf
        <3>5. SetKeyStep  BY <1>i, <3>4, StepKind
        <3>6. config' = Set(config, k, todo[1].type, todo[1].word)  BY <1>i, <3>4, <3>5, OtherSteps
        <3>7. k \in DOMAIN config' /\ config'[k].value = todo[1].word  BY <3>6 DEF Set, Put
        <3>8. InUse(Roles[k])' = InUse(Roles[k])  BY <1>6, <3>2
        <3>9. MakesOf(k)' = {}  BY <1>3, <3>2
        <3>. QED  BY <1>8, <3>3, <3>7, <3>8, <3>9 DEF Leads
    <2>. QED  BY <2>1, <2>2
<1>11. ASSUME NEW i \in SetsOf(k)'
       PROVE  /\ \A j \in MakesOf(k)' : j < i /\ todo'[i].word = todo'[j].at
              /\ MakesOf(k)' = {} => /\ todo'[i].word = InUse(Roles[k])'
                                     /\ InUse(Roles[k])' \in DOMAIN chain'
    <2>1. i \in Nat /\ i + 1 \in SetsOf(k) /\ todo'[i] = todo[i + 1]  BY <1>1
    <2>2. ASSUME NEW j \in MakesOf(k)' PROVE j < i /\ todo'[i].word = todo'[j].at
        <3>1. j \in Nat /\ j + 1 \in MakesOf(k) /\ todo'[j] = todo[j + 1]  BY <1>3
        <3>2. j + 1 < i + 1 /\ todo[i + 1].word = todo[j + 1].at  BY <1>9, <2>1, <3>1
        <3>. QED  BY <2>1, <3>1, <3>2
    <2>3. ASSUME MakesOf(k)' = {}
          PROVE  todo'[i].word = InUse(Roles[k])' /\ InUse(Roles[k])' \in DOMAIN chain'
        <3>1. CASE MakesOf(k) = {}
            BY <1>6, <1>8, <1>9, <2>1, <3>1
        <3>2. CASE MakesOf(k) # {}
            <4>1. 1 \in MakesOf(k)  BY <1>5, <2>3, <3>2
            <4>. QED  BY <1>7, <1>9, <2>1, <4>1
        <3>. QED  BY <3>1, <3>2
    <2>. QED  BY <2>2, <2>3
<1>. QED  BY <1>10, <1>11

LEMMA LeadsStep ==
    ASSUME Sound, Moves
    PROVE  LeadsOK'
<1>i. DeployInv /\ BaseInv /\ LeadsOK /\ FitsOK  BY DEF Sound, SoundInv
<1>p. Roles' = Roles /\ Owner' = Owner  BY DEF Roles, Owner
<1>. SUFFICES ASSUME NEW k \in DOMAIN Roles PROVE LeadOK(k)'
    BY <1>p DEF LeadsOK
<1>k. LeadOK(k)  BY <1>i DEF LeadsOK
<1>1. ASSUME Owner[k] \in Passed' \/ (phase' = "reverted" /\ Name' = Owner[k])
      PROVE  Leads(k)'
    <2>1. CASE Owner[k] \in Passed \/ (phase = "reverted" /\ Name = Owner[k])
        <3>1. Leads(k)  BY <1>k, <2>1 DEF LeadOK
        <3>2. ~(running /\ Name = Owner[k])  BY <1>i, <2>1, NotPassed DEF running
        <3>. QED  BY <3>1, <3>2, LeadStays
    <2>2. CASE Name = Owner[k] /\ Finish
        <3>1. running /\ todo = <<>> /\ UNCHANGED <<chain, containers, config>>
            BY <2>2 DEF Finish, deployment
        <3>2. SetsOf(k) = {}
            <4>1. DOMAIN todo = {}  BY <3>1, EmptyDomain
            <4>. QED  BY <4>1 DEF SetsOf
        <3>3. Leads(k)  BY <1>k, <2>2, <3>1, <3>2 DEF LeadOK
        <3>. QED  BY <1>p, <3>1, <3>3 DEF Leads, InUse, Bound, Count, Upgradeable, Address
    <2>3. CASE Name = Owner[k] /\ Revert
        <3>1. /\ running /\ todo # <<>> /\ ~Executable(Head(todo))
              /\ UNCHANGED <<chain, containers, config>>
            BY <2>3 DEF Revert, deployment
        <3>2. Head(todo) = todo[1] /\ 1 \in DOMAIN todo /\ IsSequence(todo)
            BY <1>i, <3>1, TailOf DEF DeployInv, TodoOK
        <3>3. /\ Name \in AlwaysRevert /\ Fits(Name, todo[1])
              /\ todo[1].op = "call"
            <4>1. Name # "vault_price_oracle.generic"  BY <2>3, RolesKinds
            <4>. QED  BY <3>1, <3>2, <4>1, StepsExecutable
        <3>4. Name = "motherboard.proxy"  BY <2>3, <3>3, RolesKinds
        <3>5. todo[1].list \in {"managers", "vaults"}
            <4>1. \A l \in DOMAIN CallScript : CallScript[l] # "motherboard.proxy"
                BY DEF CallScript
            <4>. QED  BY <3>3, <3>4, <4>1 DEF Fits, CallFits
        <3>6. 1 = Len(todo)  BY <1>i, <3>1, <3>2, <3>3, <3>5 DEF FitsOK, Final
        <3>7. SetsOf(k) = {}
            <4>1. DOMAIN todo = 1..1 /\ 1..1 = {1}  BY <3>2, <3>6, LengthOf
            <4>. QED  BY <3>3, <4>1 DEF SetsOf
        <3>8. Leads(k)  BY <1>k, <2>3, <3>1, <3>7 DEF LeadOK
        <3>. QED  BY <1>p, <3>1, <3>8 DEF Leads, InUse, Bound, Count, Upgradeable, Address
    <2>4. Owner[k] # "vault_price_oracle.generic"  BY RolesKinds
    <2>. QED  BY <1>1, <2>1, <2>2, <2>3, <2>4, PassedIs
<1>2. ASSUME running', Name' = Owner[k]
      PROVE  /\ SetsOf(k)' = {} => MakesOf(k)' = {} /\ Leads(k)'
             /\ \A i \in SetsOf(k)' :
                   /\ \A j \in MakesOf(k)' : j < i /\ todo'[i].word = todo'[j].at
                   /\ MakesOf(k)' = {} => /\ todo'[i].word = InUse(Roles[k])'
                                          /\ InUse(Roles[k])' \in DOMAIN chain'
    <2>0. Name = Owner[k]  BY <1>i, <1>2, HistoryFrame
    <2>1. CASE StartScript
        <3>1. Points(todo', k)  BY <1>i, <2>0, <2>1, PointsAtStart, StartIs
        <3>2. \A i : /\ i \in SetsOf(k)' <=> i \in DOMAIN todo' /\ todo'[i].op = "setKey" /\ todo'[i].key = k
                     /\ i \in MakesOf(k)' <=> i \in DOMAIN todo' /\ Makes(todo'[i], Roles[k])
            BY <1>p DEF SetsOf, MakesOf, Makes, Upgradeable
        <3>. QED  BY <3>1, <3>2 DEF Points
    <2>2. CASE running /\ StepOfScript  BY <2>0, <2>2, LeadOfStep
    <2>3. CASE running /\ UNCHANGED deployVars
        <3>1. UNCHANGED <<chain, containers, config, todo>>
            BY <2>3 DEF deployVars, deployment, plan
        <3>2. SetsOf(k)' = SetsOf(k) /\ MakesOf(k)' = MakesOf(k)
            BY <1>p, <3>1 DEF SetsOf, MakesOf, Makes, Upgradeable
        <3>3. InUse(Roles[k])' = InUse(Roles[k])
            BY <1>p, <3>1 DEF InUse, Bound, Count, Upgradeable, Address
        <3>. QED  BY <1>k, <2>0, <2>3, <3>1, <3>2, <3>3 DEF LeadOK, Leads
    <2>. QED  BY <1>i, <1>2, <2>1, <2>2, <2>3, HistoryFrame
<1>. QED  BY <1>1, <1>2, <1>p DEF LeadOK

-----------------------------------------------------------------------------
(* The registries of assets.                                               *)

\* What a passed script needs is passed too.
LEMMA NeededPassed ==
    ASSUME Sound, NEW n \in Passed, NEW m, NeededBy(n, m)
    PROVE  m \in Passed /\ ~(running /\ Name = m)
<1>i. DeployInv /\ PlanInOrder  BY DEF Sound
<1>1. PICK j \in 1..(next - 1) : Plan[j] = n  BY DEF Passed
<1>2. next \in 1..(Len(Plan) + 1) /\ Len(Plan) \in Nat  BY <1>i, PlanLength DEF DeployInv, PlanOK
<1>3. j \in DOMAIN Plan /\ j \in Nat  BY <1>1, <1>2, PlanLength
<1>4. m \in ScriptNames  BY NeededAre DEF Sound
<1>5. PICK i \in 1..(j - 1) : Plan[i] = m
    BY <1>i, <1>1, <1>3, <1>4 DEF PlanInOrder, NeededBy
<1>6. i \in 1..(next - 1)  BY <1>1, <1>2, <1>3, <1>5
<1>7. m \in Passed  BY <1>5, <1>6 DEF Passed
<1>. QED  BY <1>i, <1>7, NotPassed

LEMMA AssetsStay ==
    ASSUME Sound, Moves, ~(running /\ Name = "asset_registry.proxy")
    PROVE  AssetsHere' = AssetsHere
<1>1. "ASSET_REGISTRY" \in DOMAIN Roles /\ Owner["ASSET_REGISTRY"] = "asset_registry.proxy"
    BY DEF Roles, Owner
<1>. QED  BY <1>1, KeyAddressStays DEF AssetsHere

\* A call to the registry of the configuration.
LEMMA AssetStepIs ==
    ASSUME Sound, AssetStep
    PROVE  /\ StepOfScript /\ running /\ running' /\ Name' = Name /\ 1 \in DOMAIN todo
           /\ AssetsHere' = AssetsHere /\ AssetsHere \in DOMAIN registries
           /\ todo[1].op = "asset" /\ todo[1].list \in {"assets", "stable", "ranges"}
           /\ Name = IF todo[1].list = "ranges" THEN SetRanges ELSE Initialize
           /\ DOMAIN registries' = DOMAIN registries
           /\ \A r \in DOMAIN registries : r # AssetsHere => registries'[r] = registries[r]
           /\ LET old == registries[AssetsHere]
                  reg == registries'[AssetsHere]
              IN  /\ todo[1].list = "assets" => reg = SetAssetAddress(old, todo[1].name, Asset(todo[1].name))
                  /\ todo[1].list = "stable" => reg = AddStableAsset(old, todo[1].name)
                  /\ todo[1].list = "ranges" => reg = SetAssetRange(old, todo[1].name)
<1>i. DeployInv /\ BaseInv /\ FitsOK /\ NeedsOK  BY DEF Sound, SoundInv
<1>1. StepOfScript  BY DEF StepOfScript
<1>2. /\ running /\ running' /\ Name' = Name /\ 1 \in DOMAIN todo /\ DoAssetCall(todo[1])
      /\ StepOf(Name, todo[1])
    BY <1>i, <1>1, StepIs
<1>3. todo[1].op = "asset"  BY <1>i, OtherSteps
<1>4. AssetFits(Name, todo[1])  BY <1>i, <1>2, <1>3 DEF FitsOK, Fits
<1>5. /\ todo[1].target = AssetsHere
      /\ Name = IF todo[1].list = "ranges" THEN SetRanges ELSE Initialize
      /\ NeededBy(Name, "asset_registry.proxy")
    BY <1>4 DEF AssetFits, AssetsHere, SetRanges, Initialize
<1>6. AssetsHere \in DOMAIN registries  BY <1>i, <1>2, <1>5, AssetsAre DEF NeedsOK
<1>7. AssetsHere' = AssetsHere
    <2>1. Moves  BY <1>1 DEF Moves, DeployNext, Progress
    <2>2. Name # "asset_registry.proxy"  BY <1>5 DEF SetRanges, Initialize
    <2>. QED  BY <2>1, <2>2, AssetsStay
<1>8. todo[1].list \in {"assets", "stable", "ranges"}  BY <1>2, <1>3 DEF StepOf
<1>. DEFINE old == registries[AssetsHere]
            new == CASE todo[1].list = "assets" -> SetAssetAddress(old, todo[1].name, Asset(todo[1].name))
                     [] todo[1].list = "stable" -> AddStableAsset(old, todo[1].name)
                     [] todo[1].list = "ranges" -> SetAssetRange(old, todo[1].name)
<1>9. registries' = [registries EXCEPT ![AssetsHere] = new]  BY <1>2, <1>5 DEF DoAssetCall
<1>10. /\ todo[1].list = "assets" => new = SetAssetAddress(old, todo[1].name, Asset(todo[1].name))
       /\ todo[1].list = "stable" => new = AddStableAsset(old, todo[1].name)
       /\ todo[1].list = "ranges" => new = SetAssetRange(old, todo[1].name)
    OBVIOUS
<1>. HIDE DEF new
<1>11. registries'[AssetsHere] = new  BY <1>6, <1>9
<1>. QED  BY <1>1, <1>2, <1>3, <1>5, <1>6, <1>7, <1>8, <1>9, <1>10, <1>11

\* What such a call does to a registry.
LEMMA RegistryCalls ==
    ASSUME NEW reg, DOMAIN reg = {"assets", "addresses", "stable", "ranges"}, NEW n, NEW a
    PROVE  /\ LET new == SetAssetAddress(reg, n, a) IN
              /\ DOMAIN new.assets = DOMAIN reg.assets \union {n} /\ new.assets[n] = a
              /\ \A m \in DOMAIN reg.assets : m # n => new.assets[m] = reg.assets[m]
              /\ new.addresses = reg.addresses \union {a}
              /\ new.stable = reg.stable /\ new.ranges = reg.ranges
           /\ LET new == AddStableAsset(reg, n) IN
              /\ new.assets = reg.assets /\ new.addresses = reg.addresses
              /\ new.stable = reg.stable \union {n} /\ new.ranges = reg.ranges
           /\ LET new == SetAssetRange(reg, n) IN
              /\ new.assets = reg.assets /\ new.addresses = reg.addresses
              /\ new.stable = reg.stable /\ new.ranges = reg.ranges \union {n}
<1>. DEFINE m == WithAsset(reg.assets, n, a)
            added == reg.addresses \union {a}
            new == SetAssetAddress(reg, n, a)
<1>1. /\ DOMAIN m = DOMAIN reg.assets \union {n} /\ m[n] = a
      /\ \A x \in DOMAIN reg.assets : x # n => m[x] = reg.assets[x]
    BY DEF WithAsset
<1>2. new = [[reg EXCEPT !.assets = m] EXCEPT !.addresses = added]
    BY DEF SetAssetAddress
<1>. HIDE DEF m, added, new
<1>3. new.assets = m /\ new.addresses = added /\ new.stable = reg.stable /\ new.ranges = reg.ranges
    BY <1>2
<1>4. /\ DOMAIN new.assets = DOMAIN reg.assets \union {n} /\ new.assets[n] = a
      /\ \A x \in DOMAIN reg.assets : x # n => new.assets[x] = reg.assets[x]
      /\ new.addresses = reg.addresses \union {a}
      /\ new.stable = reg.stable /\ new.ranges = reg.ranges
    BY <1>1, <1>3 DEF added
<1>. QED  BY <1>4 DEF new, AddStableAsset, SetAssetRange

\* A registry only grows.
LEMMA RegistryGrows ==
    ASSUME Sound, Moves, NEW r \in DOMAIN registries
    PROVE  /\ r \in DOMAIN registries'
           /\ registries[r].addresses \subseteq registries'[r].addresses
           /\ registries[r].ranges \subseteq registries'[r].ranges
           /\ ~AssetStep => registries'[r] = registries[r]
<1>i. DeployInv /\ BaseInv /\ RegistriesAre  BY DEF Sound, SoundInv
<1>1. CASE UNCHANGED registries  BY <1>1
<1>2. CASE ProxyStep
    <2>1. /\ registries' = IF todo[1].at.contract = "AssetRegistry"
                           THEN Put(registries, todo[1].at, EmptyRegistry) ELSE registries
          /\ todo[1].at \notin DOMAIN chain
        BY <1>i, <1>2, ProxyIs DEF Placed
    <2>2. r # todo[1].at  BY <1>i, <2>1 DEF RegistriesAre
    <2>. QED  BY <2>1, <2>2 DEF Put
<1>3. CASE AssetStep
    <2>1. CASE r # AssetsHere  BY <1>3, <2>1, AssetStepIs
    <2>2. CASE r = AssetsHere
        <3>1. DOMAIN registries[r] = {"assets", "addresses", "stable", "ranges"}
            BY <1>i DEF DeployInv, RegistriesOK
        <3>2. /\ todo[1].list \in {"assets", "stable", "ranges"} /\ DOMAIN registries' = DOMAIN registries
              /\ \/ registries'[r] = SetAssetAddress(registries[r], todo[1].name, Asset(todo[1].name))
                 \/ registries'[r] = AddStableAsset(registries[r], todo[1].name)
                 \/ registries'[r] = SetAssetRange(registries[r], todo[1].name)
            BY <1>3, <2>2, AssetStepIs
        <3>. QED  BY <1>3, <3>1, <3>2, RegistryCalls
    <2>. QED  BY <2>1, <2>2
<1>. QED  BY <1>i, <1>1, <1>2, <1>3, RegistryFrame


-----------------------------------------------------------------------------
(* The registries of assets are kept in order.                             *)

\* A script that can be run again, or that nothing cuts, takes a step or ends.
LEMMA HowItEnds ==
    ASSUME Sound, Moves, running, Name \notin AlwaysRevert, torn' = {}
    PROVE  StepOfScript \/ Finish \/ (Cut /\ ~Stuck) \/ UNCHANGED deployVars
<1>i. DeployInv /\ BaseInv /\ torn = {}  BY DEF Sound
<1>1. ~StartScript  BY <1>i, StartIs
<1>2. ~ByHand  BY <1>i, HandIs
<1>3. ~SkipScript /\ ~GoOn  BY DEF SkipScript, GoOn, Idle, running
<1>4. ~Revert
    <2>1. SUFFICES ASSUME Revert PROVE FALSE  OBVIOUS
    <2>2. reverted' = reverted \union {Name}  BY <2>1 DEF Revert
    <2>3. RevertsOK'  BY RevertsStep
    <2>4. reverted' \subseteq AlwaysRevert
        <3>1. AlwaysRevert' = AlwaysRevert  BY DEF AlwaysRevert
        <3>. QED  BY <2>3, <3>1 DEF RevertsOK
    <2>. QED  BY <2>2, <2>4
<1>5. Cut /\ Stuck => torn' # {}  BY DEF Cut
<1>. QED  BY <1>1, <1>2, <1>3, <1>4, <1>5, MovesAre DEF Ends

\* The first call of a script that registers assets or checks, when it succeeds.
LEMMA FirstCall ==
    ASSUME NEW step, Executable(step)
    PROVE  /\ step.op = "asset" => AssetCallSucceeds(registries[step.target], step.list, step.name)
           /\ step.op = "call" /\ step.list = "checks" =>
                  <<step.target, step.list, step.element>> \notin lists
BY DEF Executable

LEMMA SameRange ==
    ASSUME NEW m \in Nat, NEW n \in Nat, 1..m = 1..n
    PROVE  m = n
<1>1. CASE m < n
    <2>1. n \in 1..n /\ n \notin 1..m  BY <1>1
    <2>. QED  BY <2>1
<1>2. CASE n < m
    <2>1. m \in 1..m /\ m \notin 1..n  BY <1>2
    <2>. QED  BY <2>1
<1>. QED  BY <1>1, <1>2

\* The steps of the script that registers the assets.
InitializeSteps(s) ==
    /\ IsSequence(s) /\ Len(s) = 13 /\ DOMAIN s = 1..13
    /\ \A i \in 1..10 : s[i] = CallAsset("assets", AssetNames[i])
    /\ \A i \in 11..13 : s[i] = CallAsset("stable", StableNames[i - 10])

LEMMA InitializeIs == InitializeSteps(Script(Initialize).steps)
<1>. DEFINE s == OnAssets("assets", AssetNames)
            t == OnAssets("stable", StableNames)
            u == Script(Initialize).steps
<1>1. /\ IsSequence(s) /\ DOMAIN s = 1..10 /\ IsSequence(t) /\ DOMAIN t = 1..3
      /\ \A i \in 1..10 : s[i] = CallAsset("assets", AssetNames[i])
      /\ \A i \in 1..3 : t[i] = CallAsset("stable", StableNames[i])
    <2>. HIDE DEF AssetNames, StableNames
    <2>. QED  BY NamesAre, OnAssetsAre
<1>2. u = s \o t
    BY ScriptIs DEF Initialize, asset_registry_initialize, Steps, AssetNames, StableNames
<1>. HIDE DEF s, t, u, AssetNames, StableNames
<1>3. Len(s) = 10 /\ Len(t) = 3
    <2>1. Len(s) \in Nat /\ 1..Len(s) = 1..10 /\ Len(t) \in Nat /\ 1..Len(t) = 1..3
        BY <1>1, LengthOf
    <2>2. 10 \in Nat /\ 3 \in Nat  OBVIOUS
    <2>. QED  BY <2>1, <2>2, SameRange
<1>4. /\ IsSequence(u) /\ DOMAIN u = 1..13
      /\ \A i \in 1..13 : u[i] = IF i <= 10 THEN s[i] ELSE t[i - 10]
    <2>1. Len(s) + Len(t) = 13  BY <1>3
    <2>2. /\ IsSequence(s \o t) /\ DOMAIN (s \o t) = 1..(Len(s) + Len(t))
          /\ \A i \in 1..(Len(s) + Len(t)) :
                 (s \o t)[i] = IF i <= Len(s) THEN s[i] ELSE t[i - Len(s)]
        BY <1>1, JoinedAt
    <2>. QED  BY <1>2, <1>3, <2>1, <2>2
<1>5. Len(u) = 13
    <2>1. Len(u) \in Nat /\ 1..Len(u) = 1..13  BY <1>4, LengthOf
    <2>2. 13 \in Nat  OBVIOUS
    <2>. QED  BY <2>1, <2>2, SameRange
<1>6. \A i \in 11..13 : u[i] = CallAsset("stable", StableNames[i - 10])
    <2>1. SUFFICES ASSUME NEW i \in 11..13 PROVE u[i] = CallAsset("stable", StableNames[i - 10])
        OBVIOUS
    <2>2. i - 10 \in 1..3 /\ i \in 1..13 /\ ~(i <= 10)  OBVIOUS
    <2>. QED  BY <1>1, <1>4, <2>2
<1>7. \A i \in 1..10 : u[i] = CallAsset("assets", AssetNames[i])
    <2>1. SUFFICES ASSUME NEW i \in 1..10 PROVE u[i] = CallAsset("assets", AssetNames[i])
        OBVIOUS
    <2>2. i \in 1..13 /\ i <= 10  OBVIOUS
    <2>. QED  BY <1>1, <1>4, <2>2
<1>. QED  BY <1>4, <1>5, <1>6, <1>7 DEF InitializeSteps, u

\* It is cut for good once the first asset is registered.
LEMMA CutBeforeAssets ==
    ASSUME Sound, running, Name = Initialize, Cut, ~Stuck
    PROVE  DOMAIN registries[AssetsHere].assets = {}
<1>i. DeployInv /\ InitializeOK  BY DEF Sound, SoundInv
<1>2. Current.steps # <<>> /\ Head(Current.steps) = CallAsset("assets", "ETH")
    <2>1. InitializeSteps(Current.steps)  BY InitializeIs DEF Current
    <2>2. 1 \in 1..10 /\ AssetNames[1] = "ETH"  BY DEF AssetNames
    <2>3. IsSequence(Current.steps) /\ Current.steps[1] = CallAsset("assets", "ETH")
          /\ Len(Current.steps) = 13
        BY <2>1, <2>2 DEF InitializeSteps
    <2>4. Current.steps # <<>> /\ Head(Current.steps) = Current.steps[1]
        <3>. DEFINE s == Current.steps
        <3>1. IsSequence(s) /\ Len(s) = 13  BY <2>3
        <3>. HIDE DEF s
        <3>2. s # <<>>
            <4>1. Len(<<>>) = 0 /\ 13 # 0  OBVIOUS
            <4>. QED  BY <3>1, <4>1
        <3>3. Head(s) = s[1]  BY <3>1, <3>2, TailOf
        <3>. QED  BY <3>2, <3>3 DEF s
    <2>. QED  BY <2>3, <2>4
<1>1. Executable(Head(Current.steps))  BY <1>2 DEF Stuck
<1>3. AssetCallSucceeds(registries[AssetsHere], "assets", "ETH")
    <2>. DEFINE call == CallAsset("assets", "ETH")
    <2>1. /\ call.op = "asset" /\ call.target = AssetsHere
          /\ call.list = "assets" /\ call.name = "ETH"
        BY DEF CallAsset, AssetsHere
    <2>2. Executable(call)  BY <1>1, <1>2
    <2>. HIDE DEF call
    <2>. QED  BY <2>1, <2>2, FirstCall
<1>. DEFINE reg == registries[AssetsHere]
<1>4. "ETH" \in DOMAIN reg.assets => reg.assets["ETH"] # "WETH"
    BY <1>3 DEF AssetCallSucceeds, CanSetAssetAddress, Asset
<1>. QED  BY <1>i, <1>4 DEF InitializeOK

LEMMA RegistryMarks ==
    ASSUME NEW reg, DOMAIN reg = {"assets", "addresses", "stable", "ranges"}, NEW n
    PROVE  /\ LET new == AddStableAsset(reg, n) IN
              /\ new.assets = reg.assets /\ new.addresses = reg.addresses
              /\ new.stable = reg.stable \union {n} /\ new.ranges = reg.ranges
           /\ LET new == SetAssetRange(reg, n) IN
              /\ new.assets = reg.assets /\ new.addresses = reg.addresses
              /\ new.stable = reg.stable /\ new.ranges = reg.ranges \union {n}
BY DEF AddStableAsset, SetAssetRange

LEMMA RegistriesStep ==
    ASSUME Sound, Moves, torn' = {}
    PROVE  RegistriesAre'
<1>i. DeployInv /\ BaseInv /\ RegistriesAre /\ InitializeOK /\ RegistriesOK
    BY DEF Sound, SoundInv, DeployInv
<1>c. Stables' = Stables /\ Tokens' = Tokens /\ Initialize' = Initialize
    BY DEF Stables, Tokens, Ranged, Initialize
<1>1. DOMAIN registries' = {a \in DOMAIN chain' : a.contract = "AssetRegistry" /\ a.proxy}
    <2>1. DOMAIN chain \subseteq DOMAIN chain'  BY <1>i, ChainFrame DEF ChainGrows
    <2>2. CASE ProxyStep
        <3>1. /\ todo[1].at = NewProxy(todo[1].at.contract)
              /\ registries' = IF todo[1].at.contract = "AssetRegistry"
                               THEN Put(registries, todo[1].at, EmptyRegistry) ELSE registries
              /\ DOMAIN chain' = DOMAIN chain \union {todo[1].at}
            BY <1>i, <2>2, ProxyIs DEF Placed
        <3>2. todo[1].at.proxy  BY <3>1 DEF NewProxy, Address
        <3>3. DOMAIN Put(registries, todo[1].at, EmptyRegistry) = DOMAIN registries \union {todo[1].at}
            BY DEF Put
        <3>. QED  BY <1>i, <3>1, <3>2, <3>3 DEF RegistriesAre
    <2>3. CASE ~ProxyStep
        <3>1. \A a \in DOMAIN chain' \ DOMAIN chain : ~a.proxy
            BY <1>i, <2>3, ChainFrame DEF ChainGrows
        <3>2. DOMAIN registries' = DOMAIN registries
            BY <1>i, <2>3, RegistryFrame, AssetStepIs
        <3>. QED  BY <1>i, <2>1, <3>1, <3>2 DEF RegistriesAre
    <2>. QED  BY <2>2, <2>3
<1>2. ASSUME NEW r \in DOMAIN registries'
      PROVE  /\ registries'[r].stable \subseteq Stables /\ registries'[r].addresses \subseteq Tokens
             /\ DOMAIN registries'[r].assets # {} =>
                   \/ Initialize \in done'
                   \/ running' /\ Name' = Initialize /\ r = AssetsHere'
    <2>1. CASE r \notin DOMAIN registries
        <3>1. ProxyStep /\ ~AssetStep
            <4>1. AssetStep => DOMAIN registries' = DOMAIN registries  BY AssetStepIs
            <4>. QED  BY <1>i, <1>2, <2>1, <4>1, RegistryFrame
        <3>2. registries' = IF todo[1].at.contract = "AssetRegistry"
                            THEN Put(registries, todo[1].at, EmptyRegistry) ELSE registries
            BY <1>i, <3>1, ProxyIs
        <3>3. registries'[r] = EmptyRegistry  BY <1>2, <2>1, <3>2 DEF Put
        <3>4. EmptyRegistry.stable = {} /\ EmptyRegistry.addresses = {} /\ DOMAIN EmptyRegistry.assets = {}
            BY DEF EmptyRegistry
        <3>. QED  BY <3>3, <3>4
    <2>2. CASE r \in DOMAIN registries /\ ~AssetStep
        <3>1. registries'[r] = registries[r]  BY <2>2, RegistryGrows
        <3>2. CASE Initialize \in done  BY <1>i, <2>2, <3>1, <3>2, HistoryFrame DEF RegistriesAre
        <3>3. CASE DOMAIN registries[r].assets = {}  BY <1>i, <2>2, <3>1, <3>3 DEF RegistriesAre
        <3>4. CASE Initialize \notin done /\ DOMAIN registries[r].assets # {}
            <4>1. running /\ Name = Initialize /\ r = AssetsHere
                BY <1>i, <2>2, <3>4 DEF RegistriesAre
            <4>2. Name \notin AlwaysRevert  BY <4>1 DEF AlwaysRevert, Initialize
            <4>3. CASE StepOfScript
                <5>1. 1 \in DOMAIN todo  BY <1>i, <4>3, StepIs
                <5>2. todo[1].op = "asset"  BY <1>i, <4>1, <5>1 DEF InitializeOK
                <5>. QED  BY <1>i, <2>2, <4>3, <5>2, StepKind
            <4>4. CASE Finish  BY <1>i, <2>2, <3>1, <4>1, <4>4 DEF Finish, RegistriesAre
            <4>5. CASE Cut /\ ~Stuck  BY <3>4, <4>1, <4>5, CutBeforeAssets
            <4>6. CASE UNCHANGED deployVars
                <5>1. running' /\ Name' = Name
                    BY <4>1, <4>6 DEF deployVars, plan, running, Name
                <5>2. AssetsHere' = AssetsHere
                    <6>1. Name # "asset_registry.proxy"  BY <4>1 DEF Initialize
                    <6>. QED  BY <6>1, AssetsStay
                <5>. QED  BY <1>i, <2>2, <3>1, <4>1, <5>1, <5>2 DEF RegistriesAre
            <4>. QED  BY <4>1, <4>2, <4>3, <4>4, <4>5, <4>6, HowItEnds
        <3>. QED  BY <3>2, <3>3, <3>4
    <2>3. CASE r \in DOMAIN registries /\ AssetStep /\ r # AssetsHere
        <3>1. registries'[r] = registries[r]  BY <2>3, AssetStepIs
        <3>. QED  BY <1>i, <2>3, <3>1, HistoryFrame DEF RegistriesAre
    <2>4. CASE r \in DOMAIN registries /\ AssetStep /\ r = AssetsHere
        <3>. DEFINE old == registries[AssetsHere]
                    reg == registries'[AssetsHere]
        <3>1. /\ running /\ running' /\ Name' = Name /\ 1 \in DOMAIN todo
              /\ todo[1].list \in {"assets", "stable", "ranges"} /\ AssetsHere' = AssetsHere
              /\ Name = IF todo[1].list = "ranges" THEN SetRanges ELSE Initialize
              /\ todo[1].list = "assets" => reg = SetAssetAddress(old, todo[1].name, Asset(todo[1].name))
              /\ todo[1].list = "stable" => reg = AddStableAsset(old, todo[1].name)
              /\ todo[1].list = "ranges" => reg = SetAssetRange(old, todo[1].name)
            BY <2>4, AssetStepIs
        <3>2. DOMAIN old = {"assets", "addresses", "stable", "ranges"}
            BY <1>i, <2>4 DEF RegistriesOK
        <3>. HIDE DEF old, reg
        <3>3. CASE todo[1].list = "assets"
            <4>1. Asset(todo[1].name) \in Tokens  BY <1>i, <3>1, <3>3 DEF InitializeOK
            <4>2. reg.addresses = old.addresses \union {Asset(todo[1].name)} /\ reg.stable = old.stable
                BY <3>1, <3>2, <3>3, RegistryCalls
            <4>3. old.addresses \subseteq Tokens /\ old.stable \subseteq Stables
                BY <1>i, <2>4 DEF RegistriesAre, old
            <4>. QED  BY <2>4, <3>1, <3>3, <4>1, <4>2, <4>3 DEF reg
        <3>4. CASE todo[1].list = "stable"
            <4>0. running /\ Name = Initialize  BY <3>1, <3>4
            <4>1. todo[1].name \in Stables
                <5>1. \A i \in DOMAIN todo : todo[i].list = "stable" => todo[i].name \in Stables
                    BY <1>i, <4>0 DEF InitializeOK
                <5>. QED  BY <3>1, <3>4, <5>1
            <4>2. reg.stable = old.stable \union {todo[1].name} /\ reg.addresses = old.addresses
                BY <3>1, <3>2, <3>4, RegistryMarks
            <4>3. old.addresses \subseteq Tokens /\ old.stable \subseteq Stables
                BY <1>i, <2>4 DEF RegistriesAre, old
            <4>. QED  BY <2>4, <3>1, <3>4, <4>1, <4>2, <4>3 DEF reg
        <3>5. CASE todo[1].list = "ranges"
            <4>1. /\ reg.stable = old.stable /\ reg.addresses = old.addresses
                  /\ reg.assets = old.assets
                BY <3>1, <3>2, <3>5, RegistryMarks
            <4>2. Name # Initialize  BY <3>1, <3>5 DEF SetRanges, Initialize
            <4>. QED  BY <1>i, <2>4, <4>1, <4>2, HistoryFrame DEF RegistriesAre, old, reg
        <3>. QED  BY <3>1, <3>3, <3>4, <3>5
    <2>. QED  BY <2>1, <2>2, <2>3, <2>4
<1>. QED  BY <1>c, <1>1, <1>2 DEF RegistriesAre

\* What holds of the registry and the steps that are left, while the assets are being
\* registered.
Registering(reg, s) ==
    /\ \/ DOMAIN reg.assets = {}
       \/ "ETH" \in DOMAIN reg.assets /\ reg.assets["ETH"] = "WETH"
    /\ DOMAIN reg.assets = {} => s # <<>> /\ s[1].list = "assets" /\ s[1].name = "ETH"
    /\ \A i \in DOMAIN s : s[i].op = "asset"
    /\ \A i \in DOMAIN s : s[i].list = "assets" =>
          /\ Asset(s[i].name) \in Tokens /\ s[i].name \notin DOMAIN reg.assets
          /\ \A j \in DOMAIN s : s[j].list = "assets" /\ s[j].name = s[i].name => i = j
    /\ \A i \in DOMAIN s : s[i].list = "stable" =>
          /\ s[i].name \in Stables
          /\ \A j \in DOMAIN s : s[j].list = "assets" => j < i
    /\ \A n \in Ranged : n \in reg.addresses \/ \E j \in DOMAIN s : s[j].list = "assets" /\ s[j].name = n

LEMMA NamesApart ==
    /\ \A i, j \in 1..10 : AssetNames[i] = AssetNames[j] => i = j
    /\ \A i \in 1..10 : Asset(AssetNames[i]) \in Tokens
    /\ \A n \in Ranged : Asset(n) = n /\ \E i \in 1..10 : AssetNames[i] = n
    /\ \A i \in 1..3 : StableNames[i] \in Stables
    /\ \A i \in 1..7 : RangeNames[i] \in Ranged
    /\ \A n \in Stables : \E i \in 1..7 : RangeNames[i] = n
    /\ AssetNames[1] = "ETH"
<1>1. /\ 1..10 = {1, 2, 3, 4, 5, 6, 7, 8, 9, 10} /\ 1..3 = {1, 2, 3}
      /\ 1..7 = {1, 2, 3, 4, 5, 6, 7}
    OBVIOUS
<1>2. /\ AssetNames[1] = "ETH" /\ AssetNames[2] = "WETH" /\ AssetNames[3] = "DAI"
      /\ AssetNames[4] = "WBTC" /\ AssetNames[5] = "USDC" /\ AssetNames[6] = "USDT"
      /\ AssetNames[7] = "USDP" /\ AssetNames[8] = "GUSD" /\ AssetNames[9] = "LUSD"
      /\ AssetNames[10] = "crvUSD"
    BY DEF AssetNames
<1>3. StableNames[1] = "USDT" /\ StableNames[2] = "USDC" /\ StableNames[3] = "DAI"
    BY DEF StableNames
<1>4. /\ RangeNames[1] = "USDC" /\ RangeNames[2] = "USDP" /\ RangeNames[3] = "GUSD"
      /\ RangeNames[4] = "USDT" /\ RangeNames[5] = "DAI" /\ RangeNames[6] = "LUSD"
      /\ RangeNames[7] = "crvUSD"
    BY DEF RangeNames
<1>5. \A i, j \in 1..10 : AssetNames[i] = AssetNames[j] => i = j  BY <1>1, <1>2
<1>6. \A i \in 1..10 : Asset(AssetNames[i]) \in Tokens  BY <1>1, <1>2 DEF Asset, Tokens, Ranged
<1>7. \A n \in Ranged : Asset(n) = n /\ \E i \in 1..10 : AssetNames[i] = n
    BY <1>1, <1>2 DEF Asset, Ranged
<1>8. \A i \in 1..3 : StableNames[i] \in Stables  BY <1>1, <1>3 DEF Stables
<1>9. \A i \in 1..7 : RangeNames[i] \in Ranged  BY <1>1, <1>4 DEF Ranged
<1>10. \A n \in Stables : \E i \in 1..7 : RangeNames[i] = n  BY <1>1, <1>4 DEF Stables
<1>. QED  BY <1>2, <1>5, <1>6, <1>7, <1>8, <1>9, <1>10

LEMMA RegisteringStarts ==
    ASSUME NEW reg, DOMAIN reg.assets = {}, NEW s, InitializeSteps(s)
    PROVE  Registering(reg, s)
<1>1. /\ DOMAIN s = 1..13 /\ Len(s) = 13
      /\ \A i \in 1..10 : s[i].op = "asset" /\ s[i].list = "assets" /\ s[i].name = AssetNames[i]
      /\ \A i \in 11..13 : /\ s[i].op = "asset" /\ s[i].list = "stable"
                           /\ s[i].name = StableNames[i - 10]
    BY DEF InitializeSteps, CallAsset
<1>2. \A i \in DOMAIN s : i \in 1..10 \/ (i \in 11..13 /\ i - 10 \in 1..3)
    <2>1. \A i \in 1..13 : i \in 1..10 \/ (i \in 11..13 /\ i - 10 \in 1..3)  OBVIOUS
    <2>2. DOMAIN s = 1..13  BY <1>1
    <2>. QED  BY <2>1, <2>2
<1>3. 1 \in 1..10 /\ s # <<>>
    <2>1. Len(s) = 13  BY <1>1
    <2>2. Len(<<>>) = 0  OBVIOUS
    <2>. QED  BY <2>1, <2>2
<1>4. \A i \in DOMAIN s : s[i].list = "assets" => i \in 1..10  BY <1>1, <1>2
<1>5. \A i \in DOMAIN s : s[i].list = "stable" => i \in 11..13 /\ i - 10 \in 1..3  BY <1>1, <1>2
<1>6. \A i \in DOMAIN s : s[i].op = "asset"  BY <1>1, <1>2
<1>7. \A i \in DOMAIN s : s[i].list = "assets" =>
          /\ Asset(s[i].name) \in Tokens /\ s[i].name \notin DOMAIN reg.assets
          /\ \A j \in DOMAIN s : s[j].list = "assets" /\ s[j].name = s[i].name => i = j
    BY <1>1, <1>4, NamesApart
<1>8. \A i \in DOMAIN s : s[i].list = "stable" =>
          /\ s[i].name \in Stables
          /\ \A j \in DOMAIN s : s[j].list = "assets" => j < i
    <2>1. \A i \in 11..13 : \A j \in 1..10 : j < i  OBVIOUS
    <2>. QED  BY <1>1, <1>4, <1>5, <2>1, NamesApart
<1>9. \A n \in Ranged : \E j \in DOMAIN s : s[j].list = "assets" /\ s[j].name = n
    <2>1. \A i \in 1..10 : i \in DOMAIN s  BY <1>1
    <2>. QED  BY <1>1, <2>1, NamesApart
<1>. QED  BY <1>1, <1>3, <1>6, <1>7, <1>8, <1>9, NamesApart DEF Registering

\* The steps after the first.
Rest(s, t) ==
    /\ DOMAIN s \subseteq Nat /\ 1 \in DOMAIN s
    /\ \A i \in DOMAIN t : i \in Nat /\ i > 0 /\ i + 1 \in DOMAIN s /\ t[i] = s[i + 1]
    /\ \A i \in DOMAIN s : i # 1 => i - 1 \in DOMAIN t /\ t[i - 1] = s[i]

LEMMA StepLeaves ==
    ASSUME DeployInv, StepOfScript
    PROVE  Rest(todo, todo')
<1>1. /\ 1 \in DOMAIN todo /\ IsSequence(todo)
      /\ \A i \in DOMAIN todo' : /\ i \in Nat /\ i > 0
                                 /\ i + 1 \in DOMAIN todo /\ todo'[i] = todo[i + 1]
    BY StepIs
<1>2. DOMAIN todo \subseteq Nat  BY <1>1, LengthOf
<1>. QED  BY <1>1, <1>2, LeftOf DEF Rest

LEMMA RegisteringStep ==
    ASSUME NEW reg, DOMAIN reg = {"assets", "addresses", "stable", "ranges"}, NEW s,
           Registering(reg, s), NEW t, Rest(s, t), NEW new,
           \/ s[1].list = "assets" /\ new = SetAssetAddress(reg, s[1].name, Asset(s[1].name))
           \/ s[1].list = "stable" /\ new = AddStableAsset(reg, s[1].name)
    PROVE  Registering(new, t)
<1>r. /\ 1 \in DOMAIN s
      /\ \A i \in DOMAIN t : i \in Nat /\ i > 0 /\ i + 1 \in DOMAIN s /\ i + 1 # 1 /\ t[i] = s[i + 1]
      /\ \A i \in DOMAIN s : i # 1 => i - 1 \in DOMAIN t /\ t[i - 1] = s[i]
    BY DEF Rest
<1>1. \A i \in DOMAIN t : t[i].op = "asset"  BY <1>r DEF Registering
<1>2. \A i \in DOMAIN t : t[i].list = "stable" =>
          t[i].name \in Stables /\ \A j \in DOMAIN t : t[j].list = "assets" => j < i
    <2>1. ASSUME NEW i \in DOMAIN t, t[i].list = "stable"
          PROVE  t[i].name \in Stables /\ \A j \in DOMAIN t : t[j].list = "assets" => j < i
        <3>1. /\ s[i + 1].name \in Stables
              /\ \A j \in DOMAIN s : s[j].list = "assets" => j < i + 1
            BY <1>r, <2>1 DEF Registering
        <3>2. \A j \in DOMAIN t : t[j].list = "assets" => j + 1 < i + 1  BY <1>r, <3>1
        <3>. QED  BY <1>r, <2>1, <3>1, <3>2
    <2>. QED  BY <2>1
<1>3. \A i, j \in DOMAIN t :
          t[i].list = "assets" /\ t[j].list = "assets" /\ t[j].name = t[i].name => i = j
    <2>1. ASSUME NEW i \in DOMAIN s, s[i].list = "assets"
          PROVE  \A j \in DOMAIN s : s[j].list = "assets" /\ s[j].name = s[i].name => i = j
        BY <2>1 DEF Registering
    <2>2. ASSUME NEW i \in DOMAIN t, NEW j \in DOMAIN t, t[i].list = "assets",
                 t[j].list = "assets", t[j].name = t[i].name
          PROVE  i = j
        <3>1. /\ i + 1 \in DOMAIN s /\ t[i] = s[i + 1]
              /\ j + 1 \in DOMAIN s /\ t[j] = s[j + 1]
            BY <1>r
        <3>2. i + 1 = j + 1  BY <2>1, <2>2, <3>1
        <3>3. i \in Nat /\ j \in Nat  BY <1>r
        <3>. QED  BY <3>2, <3>3
    <2>. QED  BY <2>2
<1>4. \A i \in DOMAIN t : t[i].list = "assets" =>
          Asset(t[i].name) \in Tokens /\ t[i].name \notin DOMAIN reg.assets
    BY <1>r DEF Registering
<1>5. \A n \in Ranged : \/ n \in reg.addresses
                        \/ s[1].list = "assets" /\ s[1].name = n
                        \/ \E j \in DOMAIN t : t[j].list = "assets" /\ t[j].name = n
    <2>1. ASSUME NEW n \in Ranged, NEW j \in DOMAIN s, s[j].list = "assets", s[j].name = n, j # 1
          PROVE  \E i \in DOMAIN t : t[i].list = "assets" /\ t[i].name = n
        <3>1. j - 1 \in DOMAIN t /\ t[j - 1] = s[j]  BY <1>r, <2>1
        <3>. QED  BY <2>1, <3>1
    <2>. QED  BY <2>1 DEF Registering
<1>6. CASE s[1].list = "assets"
    <2>1. /\ DOMAIN new.assets = DOMAIN reg.assets \union {s[1].name}
          /\ new.assets[s[1].name] = Asset(s[1].name)
          /\ \A m \in DOMAIN reg.assets : m # s[1].name => new.assets[m] = reg.assets[m]
          /\ new.addresses = reg.addresses \union {Asset(s[1].name)}
        BY <1>6, RegistryCalls
    <2>2. "ETH" \in DOMAIN new.assets /\ new.assets["ETH"] = "WETH"
        <3>1. CASE DOMAIN reg.assets = {}
            <4>1. s[1].name = "ETH"  BY <3>1 DEF Registering
            <4>. QED  BY <2>1, <4>1 DEF Asset
        <3>2. CASE DOMAIN reg.assets # {}
            <4>1. "ETH" \in DOMAIN reg.assets /\ reg.assets["ETH"] = "WETH"
                BY <3>2 DEF Registering
            <4>2. s[1].name \notin DOMAIN reg.assets  BY <1>r, <1>6 DEF Registering
            <4>. QED  BY <2>1, <4>1, <4>2
        <3>. QED  BY <3>1, <3>2
    <2>3. ASSUME NEW i \in DOMAIN t, t[i].list = "assets" PROVE t[i].name # s[1].name
        BY <1>r, <1>6, <2>3 DEF Registering
    <2>4. \A n \in Ranged : \/ n \in new.addresses
                            \/ \E j \in DOMAIN t : t[j].list = "assets" /\ t[j].name = n
        BY <1>5, <2>1, NamesApart
    <2>5. \A i \in DOMAIN t : t[i].list = "assets" => t[i].name \notin DOMAIN new.assets
        BY <1>4, <2>1, <2>3
    <2>. QED  BY <1>1, <1>2, <1>3, <1>4, <2>2, <2>4, <2>5 DEF Registering
<1>7. CASE s[1].list = "stable"
    <2>1. new.assets = reg.assets /\ new.addresses = reg.addresses  BY <1>7, RegistryMarks
    <2>2. DOMAIN reg.assets # {}  BY <1>7 DEF Registering
    <2>3. "ETH" \in DOMAIN new.assets /\ new.assets["ETH"] = "WETH"
        BY <2>1, <2>2 DEF Registering
    <2>. QED  BY <1>1, <1>2, <1>3, <1>4, <1>5, <1>7, <2>1, <2>3 DEF Registering
<1>. QED  BY <1>6, <1>7

\* What a script that ran needed ran too.
LEMMA DoneNeeds ==
    ASSUME Sound, NEW n \in done, NEW m, NeededBy(n, m)
    PROVE  m \in done /\ ~(running /\ Name = m)
<1>i. /\ ChainId = 1 /\ torn = {} /\ HistoryOK /\ RevertsOK /\ NothingLeftOut
    BY DEF Sound, SoundInv, BaseInv, DeployInv
<1>1. n \in Passed  BY <1>i DEF HistoryOK
<1>2. m \in Passed /\ ~(running /\ Name = m)  BY <1>1, NeededPassed
<1>3. m \notin AlwaysRevert  BY <1>i, NeededAre
<1>. QED  BY <1>i, <1>2, <1>3 DEF NothingLeftOut, RevertsOK

\* A script that is done has not started again.
LEMMA DoneIsOver ==
    ASSUME Sound, running \/ Idle
    PROVE  Name \notin done
BY NotPassed DEF Sound, BaseInv, HistoryOK

LEMMA InitializeIsRegistering ==
    /\ InitializeOK <=>
          LET reg == registries[AssetsHere] IN
          /\ Initialize \in done => Ranged \subseteq reg.addresses
          /\ running /\ Name = Initialize => Registering(reg, todo)
    /\ InitializeOK' <=>
          LET reg == registries'[AssetsHere'] IN
          /\ Initialize \in done' => Ranged \subseteq reg.addresses
          /\ running' /\ Name' = Initialize => Registering(reg, todo')
<1>1. \A reg, n, s :
          (n \in reg.addresses \/ n \in {s[i].name : i \in {j \in DOMAIN s : s[j].list = "assets"}})
          <=> (n \in reg.addresses \/ \E j \in DOMAIN s : s[j].list = "assets" /\ s[j].name = n)
    OBVIOUS
<1>2. Initialize' = Initialize /\ Ranged' = Ranged /\ Stables' = Stables /\ Tokens' = Tokens
      /\ \A n : Asset(n)' = Asset(n)
    BY DEF Initialize, Ranged, Stables, Tokens, Asset
<1>3. Names("assets") = {todo[i].name : i \in {j \in DOMAIN todo : todo[j].list = "assets"}}
      /\ Names("assets")' = {todo'[i].name : i \in {j \in DOMAIN todo' : todo'[j].list = "assets"}}
    BY DEF Names
<1>4. /\ \A n : n \in Names("assets") <=> \E j \in DOMAIN todo : todo[j].list = "assets" /\ todo[j].name = n
      /\ \A n : n \in Names("assets")' <=> \E j \in DOMAIN todo' : todo'[j].list = "assets" /\ todo'[j].name = n
    BY <1>3
<1>5. InitializeOK <=>
          LET reg == registries[AssetsHere] IN
          /\ Initialize \in done => Ranged \subseteq reg.addresses
          /\ running /\ Name = Initialize => Registering(reg, todo)
    BY <1>4 DEF InitializeOK, Registering
<1>6. InitializeOK' <=>
          LET reg == registries'[AssetsHere'] IN
          /\ Initialize \in done' => Ranged \subseteq reg.addresses
          /\ running' /\ Name' = Initialize => Registering(reg, todo')
    BY <1>2, <1>4 DEF InitializeOK, Registering
<1>. QED  BY <1>5, <1>6

\* The registry that the assets are in stays while it is needed.
LEMMA AssetsStand ==
    ASSUME Sound, Moves, NEW n, NeededBy(n, "asset_registry.proxy"),
           n \in done \/ (n = Name /\ (running \/ Idle))
    PROVE  /\ AssetsHere' = AssetsHere /\ AssetsHere \in DOMAIN registries
           /\ registries[AssetsHere].addresses \subseteq registries'[AssetsHere].addresses
           /\ registries[AssetsHere].ranges \subseteq registries'[AssetsHere].ranges
           /\ ~AssetStep => registries'[AssetsHere] = registries[AssetsHere]
<1>1. "asset_registry.proxy" \in done /\ ~(running /\ Name = "asset_registry.proxy")
    <2>1. CASE n \in done  BY <2>1, DoneNeeds
    <2>2. CASE n = Name /\ (running \/ Idle)
        <3>1. "asset_registry.proxy" \in done  BY <2>2, NeededRan
        <3>. QED  BY <2>2, <3>1, DoneIsOver
    <2>. QED  BY <2>1, <2>2
<1>2. AssetsHere' = AssetsHere  BY <1>1, AssetsStay
<1>3. AssetsHere \in DOMAIN registries  BY <1>1, AssetsAre
<1>. QED  BY <1>2, <1>3, RegistryGrows

LEMMA InitializeStep ==
    ASSUME Sound, Moves, torn' = {}
    PROVE  InitializeOK'
<1>i. DeployInv /\ BaseInv /\ RegistriesAre /\ InitializeOK /\ RegistriesOK
    BY DEF Sound, SoundInv, DeployInv
<1>n. NeededBy(Initialize, "asset_registry.proxy")  BY NeedsAre DEF Initialize
<1>. DEFINE reg == registries[AssetsHere]
<1>1. ASSUME Initialize \in done' PROVE Ranged \subseteq registries'[AssetsHere'].addresses
    <2>1. CASE Initialize \in done
        BY <1>i, <1>n, <2>1, AssetsStand, InitializeIsRegistering
    <2>2. CASE Initialize \notin done
        <3>1. Finish /\ Name = Initialize  BY <1>i, <1>1, <2>2, HistoryFrame
        <3>2. running /\ todo = <<>> /\ registries' = registries
            BY <3>1 DEF Finish, deployment
        <3>3. DOMAIN todo = {}  BY <3>2, EmptyDomain
        <3>4. Ranged \subseteq reg.addresses
            BY <1>i, <3>1, <3>2, <3>3, InitializeIsRegistering DEF Registering
        <3>5. AssetsHere' = AssetsHere  BY <1>n, <3>1, <3>2, AssetsStand
        <3>. QED  BY <3>2, <3>4, <3>5
    <2>. QED  BY <2>1, <2>2
<1>2. ASSUME running', Name' = Initialize PROVE Registering(registries'[AssetsHere'], todo')
    <2>1. CASE StartScript
        <3>1. /\ Name = Initialize /\ ~running /\ todo' = Current.steps /\ registries' = registries
              /\ Idle
            BY <1>i, <1>2, <2>1, StartIs DEF StartScript
        <3>2. AssetsHere' = AssetsHere /\ AssetsHere \in DOMAIN registries
            BY <1>n, <3>1, AssetsStand
        <3>3. Initialize \notin done  BY <3>1, DoneIsOver
        <3>4. DOMAIN reg.assets = {}  BY <1>i, <3>1, <3>2, <3>3 DEF RegistriesAre
        <3>5. InitializeSteps(Current.steps)  BY <3>1, InitializeIs DEF Current
        <3>6. Registering(reg, Current.steps)  BY <3>4, <3>5, RegisteringStarts
        <3>. QED  BY <3>1, <3>2, <3>6
    <2>2. CASE running /\ StepOfScript
        <3>1. Name = Initialize /\ 1 \in DOMAIN todo  BY <1>i, <1>2, <2>2, StepIs
        <3>2. Registering(reg, todo)  BY <1>i, <2>2, <3>1, InitializeIsRegistering
        <3>3. AssetStep
            <4>1. todo[1].op = "asset"  BY <3>1, <3>2 DEF Registering
            <4>. QED  BY <1>i, <2>2, <4>1, StepKind
        <3>4. Rest(todo, todo')  BY <1>i, <2>2, StepLeaves
        <3>5. DOMAIN reg = {"assets", "addresses", "stable", "ranges"}
            BY <1>i, <3>3, AssetStepIs DEF RegistriesOK
        <3>6. /\ AssetsHere' = AssetsHere
              /\ \/ /\ todo[1].list = "assets"
                    /\ registries'[AssetsHere] = SetAssetAddress(reg, todo[1].name, Asset(todo[1].name))
                 \/ /\ todo[1].list = "stable"
                    /\ registries'[AssetsHere] = AddStableAsset(reg, todo[1].name)
            <4>1. todo[1].list # "ranges"
                <5>1. Initialize # SetRanges  BY DEF Initialize, SetRanges
                <5>. QED  BY <3>1, <3>3, <5>1, AssetStepIs
            <4>. QED  BY <3>3, <4>1, AssetStepIs
        <3>. HIDE DEF reg
        <3>7. Registering(registries'[AssetsHere], todo')
            BY <3>2, <3>4, <3>5, <3>6, RegisteringStep
        <3>. QED  BY <3>6, <3>7
    <2>3. CASE UNCHANGED deployVars
        <3>1. running /\ Name = Initialize /\ todo' = todo /\ registries' = registries
            BY <1>2, <2>3 DEF deployVars, deployment, plan, running, Name
        <3>2. AssetsHere' = AssetsHere  BY <1>n, <3>1, AssetsStand
        <3>. QED  BY <1>i, <3>1, <3>2, InitializeIsRegistering
    <2>. QED  BY <1>i, <1>2, <2>1, <2>2, <2>3, HistoryFrame
<1>. QED  BY <1>1, <1>2, InitializeIsRegistering

\* What holds of the steps that are left while the ranges are being set.
Ranging(reg, s) ==
    /\ \A i \in DOMAIN s : s[i].op = "asset" /\ s[i].list = "ranges" /\ s[i].name \in Ranged
    /\ \A n \in Stables : n \in reg.ranges \/ \E i \in DOMAIN s : s[i].list = "ranges" /\ s[i].name = n

LEMMA RangesIsRanging ==
    /\ RangesOK <=>
          LET reg == registries[AssetsHere] IN
          /\ SetRanges \in done => Stables \subseteq reg.ranges
          /\ running /\ Name = SetRanges => Ranging(reg, todo)
    /\ RangesOK' <=>
          LET reg == registries'[AssetsHere'] IN
          /\ SetRanges \in done' => Stables \subseteq reg.ranges
          /\ running' /\ Name' = SetRanges => Ranging(reg, todo')
<1>1. SetRanges' = SetRanges /\ Ranged' = Ranged /\ Stables' = Stables
    BY DEF SetRanges, Ranged, Stables
<1>2. Names("ranges") = {todo[i].name : i \in {j \in DOMAIN todo : todo[j].list = "ranges"}}
      /\ Names("ranges")' = {todo'[i].name : i \in {j \in DOMAIN todo' : todo'[j].list = "ranges"}}
    BY DEF Names
<1>3. /\ \A n : n \in Names("ranges") <=> \E j \in DOMAIN todo : todo[j].list = "ranges" /\ todo[j].name = n
      /\ \A n : n \in Names("ranges")' <=> \E j \in DOMAIN todo' : todo'[j].list = "ranges" /\ todo'[j].name = n
    BY <1>2
<1>4. RangesOK <=>
          LET reg == registries[AssetsHere] IN
          /\ SetRanges \in done => Stables \subseteq reg.ranges
          /\ running /\ Name = SetRanges => Ranging(reg, todo)
    BY <1>3 DEF RangesOK, Ranging
<1>5. RangesOK' <=>
          LET reg == registries'[AssetsHere'] IN
          /\ SetRanges \in done' => Stables \subseteq reg.ranges
          /\ running' /\ Name' = SetRanges => Ranging(reg, todo')
    BY <1>1, <1>3 DEF RangesOK, Ranging
<1>. QED  BY <1>4, <1>5

LEMMA RangesStep ==
    ASSUME Sound, Moves
    PROVE  RangesOK'
<1>i. DeployInv /\ BaseInv /\ RangesOK /\ RegistriesOK  BY DEF Sound, SoundInv, DeployInv
<1>n. NeededBy(SetRanges, "asset_registry.proxy")  BY NeedsAre DEF SetRanges
<1>. DEFINE reg == registries[AssetsHere]
<1>1. ASSUME SetRanges \in done' PROVE Stables \subseteq registries'[AssetsHere'].ranges
    <2>1. CASE SetRanges \in done
        BY <1>i, <1>n, <2>1, AssetsStand, RangesIsRanging
    <2>2. CASE SetRanges \notin done
        <3>1. Finish /\ Name = SetRanges  BY <1>i, <1>1, <2>2, HistoryFrame
        <3>2. running /\ todo = <<>> /\ registries' = registries
            BY <3>1 DEF Finish, deployment
        <3>3. DOMAIN todo = {}  BY <3>2, EmptyDomain
        <3>4. Stables \subseteq reg.ranges
            BY <1>i, <3>1, <3>2, <3>3, RangesIsRanging DEF Ranging
        <3>5. AssetsHere' = AssetsHere  BY <1>n, <3>1, <3>2, AssetsStand
        <3>. QED  BY <3>2, <3>4, <3>5
    <2>. QED  BY <2>1, <2>2
<1>2. ASSUME running', Name' = SetRanges PROVE Ranging(registries'[AssetsHere'], todo')
    <2>1. CASE StartScript
        <3>1. Name = SetRanges /\ todo' = Current.steps
            BY <1>i, <1>2, <2>1, StartIs
        <3>2. Current.steps = OnAssets("ranges", RangeNames)
            BY <3>1, ScriptIs DEF Current, SetRanges, set_asset_ranges, Steps, RangeNames
        <3>. HIDE DEF RangeNames
        <3>3. DOMAIN todo' = 1..7 /\ \A i \in 1..7 : /\ todo'[i].op = "asset" /\ todo'[i].list = "ranges"
                                                    /\ todo'[i].name = RangeNames[i]
            BY <3>1, <3>2, NamesAre, OnAssetsAre
        <3>. QED  BY <3>3, NamesApart DEF Ranging
    <2>2. CASE running /\ StepOfScript
        <3>1. Name = SetRanges /\ 1 \in DOMAIN todo  BY <1>i, <1>2, <2>2, StepIs
        <3>2. Ranging(reg, todo)  BY <1>i, <2>2, <3>1, RangesIsRanging
        <3>3. AssetStep /\ todo[1].list = "ranges"
            <4>1. todo[1].op = "asset" /\ todo[1].list = "ranges"  BY <3>1, <3>2 DEF Ranging
            <4>. QED  BY <1>i, <2>2, <4>1, StepKind
        <3>4. Rest(todo, todo')  BY <1>i, <2>2, StepLeaves
        <3>5. DOMAIN reg = {"assets", "addresses", "stable", "ranges"}
            BY <1>i, <3>3, AssetStepIs DEF RegistriesOK
        <3>6. AssetsHere' = AssetsHere /\ registries'[AssetsHere] = SetAssetRange(reg, todo[1].name)
            BY <3>3, AssetStepIs
        <3>. HIDE DEF reg
        <3>7. registries'[AssetsHere].ranges = reg.ranges \union {todo[1].name}
            BY <3>5, <3>6, RegistryMarks
        <3>8. \A i \in DOMAIN todo' : /\ todo'[i].op = "asset" /\ todo'[i].list = "ranges"
                                      /\ todo'[i].name \in Ranged
            BY <3>2, <3>4 DEF Ranging, Rest
        <3>9. ASSUME NEW n \in Stables
              PROVE  \/ n \in registries'[AssetsHere].ranges
                     \/ \E i \in DOMAIN todo' : todo'[i].list = "ranges" /\ todo'[i].name = n
            <4>1. CASE n \in reg.ranges  BY <3>7, <4>1
            <4>2. CASE n \notin reg.ranges
                <5>1. PICK i \in DOMAIN todo : todo[i].list = "ranges" /\ todo[i].name = n
                    BY <3>2, <4>2 DEF Ranging
                <5>2. CASE i = 1  BY <3>7, <5>1, <5>2
                <5>3. CASE i # 1
                    <6>1. i - 1 \in DOMAIN todo' /\ todo'[i - 1] = todo[i]
                        BY <3>4, <5>3 DEF Rest
                    <6>. QED  BY <5>1, <6>1
                <5>. QED  BY <5>2, <5>3
            <4>. QED  BY <4>1, <4>2
        <3>. QED  BY <3>6, <3>8, <3>9 DEF Ranging
    <2>3. CASE UNCHANGED deployVars
        <3>1. running /\ Name = SetRanges /\ todo' = todo /\ registries' = registries
            BY <1>2, <2>3 DEF deployVars, deployment, plan, running, Name
        <3>2. AssetsHere' = AssetsHere  BY <1>n, <3>1, AssetsStand
        <3>. QED  BY <1>i, <3>1, <3>2, RangesIsRanging
    <2>. QED  BY <1>i, <1>2, <2>1, <2>2, <2>3, HistoryFrame
<1>. QED  BY <1>1, <1>2, RangesIsRanging

-----------------------------------------------------------------------------
(* The calls that fill lists.                                              *)

\* What holds of the list and the steps that are left while the checks are registered.
Hanging(root, first, checks, ls, s) ==
    /\ \/ \A e \in checks : <<root, "checks", e>> \notin ls
       \/ <<root, "checks", first>> \in ls
    /\ <<root, "checks", first>> \notin ls => s # <<>> /\ s[1].element = first
    /\ \A i \in DOMAIN s : /\ s[i].op = "call" /\ s[i].list = "checks" /\ s[i].element \in checks
                           /\ <<root, "checks", s[i].element>> \notin ls
    /\ \A i, j \in DOMAIN s : s[i].element = s[j].element => i = j
    /\ \A e \in checks : <<root, "checks", e>> \in ls \/ \E i \in DOMAIN s : s[i].element = e

LEMMA HangingStarts ==
    ASSUME NEW root, NEW first, NEW second, first # second, NEW ls, NEW by,
           \A e : <<root, "checks", e>> \notin ls
    PROVE  Hanging(root, first, {first, second}, ls,
                   <<Call(by, root, "checks", first), Call(by, root, "checks", second)>>)
<1>. DEFINE a == Call(by, root, "checks", first)
            b == Call(by, root, "checks", second)
            s == <<a, b>>
<1>1. /\ a.op = "call" /\ a.list = "checks" /\ a.element = first
      /\ b.op = "call" /\ b.list = "checks" /\ b.element = second
    BY DEF Call
<1>. HIDE DEF a, b
<1>2. DOMAIN s = {1, 2} /\ s[1] = a /\ s[2] = b /\ s # <<>>
    <2>1. 1..2 = {1, 2}  OBVIOUS
    <2>. QED  BY <2>1
<1>. HIDE DEF s
<1>3. Hanging(root, first, {first, second}, ls, s)  BY <1>1, <1>2 DEF Hanging
<1>. QED  BY <1>3 DEF s, a, b

LEMMA HangingStep ==
    ASSUME NEW root, NEW first, NEW checks, NEW ls, NEW s, Hanging(root, first, checks, ls, s),
           NEW t, Rest(s, t)
    PROVE  Hanging(root, first, checks, ls \union {<<root, "checks", s[1].element>>}, t)
<1>. DEFINE new == ls \union {<<root, "checks", s[1].element>>}
<1>r. /\ 1 \in DOMAIN s
      /\ \A i \in DOMAIN t : i \in Nat /\ i > 0 /\ i + 1 \in DOMAIN s /\ i + 1 # 1 /\ t[i] = s[i + 1]
      /\ \A i \in DOMAIN s : i # 1 => i - 1 \in DOMAIN t /\ t[i - 1] = s[i]
    BY DEF Rest
<1>1. \A e : <<root, "checks", e>> \in new <=> <<root, "checks", e>> \in ls \/ e = s[1].element
    OBVIOUS
<1>. HIDE DEF new
<1>2. <<root, "checks", first>> \in new  BY <1>1 DEF Hanging
<1>3. \A i \in DOMAIN t : /\ t[i].op = "call" /\ t[i].list = "checks" /\ t[i].element \in checks
                          /\ <<root, "checks", t[i].element>> \notin ls
                          /\ t[i].element # s[1].element
    BY <1>r DEF Hanging
<1>4. \A i, j \in DOMAIN t : t[i].element = t[j].element => i = j
    <2>1. ASSUME NEW i \in DOMAIN t, NEW j \in DOMAIN t, t[i].element = t[j].element PROVE i = j
        <3>1. i + 1 \in DOMAIN s /\ t[i] = s[i + 1] /\ j + 1 \in DOMAIN s /\ t[j] = s[j + 1]
            BY <1>r
        <3>2. i + 1 = j + 1  BY <2>1, <3>1 DEF Hanging
        <3>3. i \in Nat /\ j \in Nat  BY <1>r
        <3>. QED  BY <3>2, <3>3
    <2>. QED  BY <2>1
<1>5. ASSUME NEW e \in checks
      PROVE  <<root, "checks", e>> \in new \/ \E i \in DOMAIN t : t[i].element = e
    <2>1. CASE <<root, "checks", e>> \in ls \/ e = s[1].element  BY <1>1, <2>1
    <2>2. CASE ~(<<root, "checks", e>> \in ls \/ e = s[1].element)
        <3>1. PICK i \in DOMAIN s : s[i].element = e  BY <2>2 DEF Hanging
        <3>2. i - 1 \in DOMAIN t /\ t[i - 1] = s[i]  BY <1>r, <2>2, <3>1
        <3>. QED  BY <3>1, <3>2
    <2>. QED  BY <2>1, <2>2
<1>6. Hanging(root, first, checks, new, t)  BY <1>1, <1>2, <1>3, <1>4, <1>5 DEF Hanging
<1>. QED  BY <1>6 DEF new

Registered == Register \in done \/ (running /\ Name = Register)

LEMMA ChecksIsHanging ==
    /\ ChecksOK <=>
          /\ \A m \in lists : m[2] = "checks" =>
                /\ Registered /\ There("RootSafetyCheck")
                /\ m[3] \in Checks /\ m = <<Root, "checks", m[3]>>
          /\ Register \in done => \A e \in Checks : <<Root, "checks", e>> \in lists
          /\ Registered => There("VaultSafetyMode") /\ There("ReserveSafetyManager")
                           /\ There("RootSafetyCheck")
          /\ running /\ Name = Register =>
                Hanging(Root, Bound("VaultSafetyMode"), Checks, lists, todo)
    /\ ChecksOK' <=>
          /\ \A m \in lists' : m[2] = "checks" =>
                /\ Registered' /\ There("RootSafetyCheck")'
                /\ m[3] \in Checks' /\ m = <<Root', "checks", m[3]>>
          /\ Register \in done' => \A e \in Checks' : <<Root', "checks", e>> \in lists'
          /\ Registered' => There("VaultSafetyMode")' /\ There("ReserveSafetyManager")'
                            /\ There("RootSafetyCheck")'
          /\ running' /\ Name' = Register =>
                Hanging(Root', Bound("VaultSafetyMode")', Checks', lists', todo')
<1>1. Register' = Register  BY DEF Register
<1>2. /\ \A e : e \in Elements <=> \E i \in DOMAIN todo : todo[i].element = e
      /\ \A e : e \in Elements' <=> \E i \in DOMAIN todo' : todo'[i].element = e
    BY DEF Elements
<1>. QED  BY <1>1, <1>2 DEF ChecksOK, Registered, Hanging

\* A contract that is made once keeps its address.
LEMMA RootStays ==
    ASSUME Sound, Moves, There("VaultSafetyMode"), There("ReserveSafetyManager"),
           There("RootSafetyCheck")
    PROVE  /\ There("VaultSafetyMode")' /\ There("ReserveSafetyManager")'
           /\ There("RootSafetyCheck")' /\ Root' = Root /\ Checks' = Checks
           /\ Bound("VaultSafetyMode")' = Bound("VaultSafetyMode")
<1>1. DeployInv /\ BaseInv  BY DEF Sound
<1>2. \A c \in {"VaultSafetyMode", "ReserveSafetyManager", "RootSafetyCheck"} :
          c \in DOMAIN Makers /\ c \notin DOMAIN Adoption
    BY KeptAre, AdoptionAre
<1>3. \A c \in {"VaultSafetyMode", "ReserveSafetyManager", "RootSafetyCheck"} :
          There(c)' /\ Bound(c)' = Bound(c)
    BY <1>1, <1>2, BoundStays
<1>. QED  BY <1>3 DEF Root, Checks

\* A list grows by a call of its own script, or by one that governance executes.
LEMMA ListedBy ==
    ASSUME Sound, Moves, NEW m \in lists' \ lists
    PROVE  \/ /\ CallStep /\ StepOfScript /\ running /\ running' /\ Name' = Name
              /\ 1 \in DOMAIN todo /\ todo[1].op = "call" /\ Fits(Name, todo[1])
              /\ m = <<todo[1].target, todo[1].list, todo[1].element>>
              /\ m[1] = todo[1].target /\ m[2] = todo[1].list /\ m[3] = todo[1].element
              /\ lists' = lists \union {m}
           \/ m[2] \notin {"checks", "fees"}
<1>i. DeployInv /\ BaseInv /\ FitsOK /\ PrintedOK  BY DEF Sound, SoundInv
<1>1. CASE CallStep
    <2>1. StepOfScript  BY <1>1 DEF StepOfScript
    <2>2. running /\ running' /\ Name' = Name /\ 1 \in DOMAIN todo  BY <1>i, <2>1, StepIs
    <2>3. /\ todo[1].op = "call"
          /\ lists' = lists \union {<<todo[1].target, todo[1].list, todo[1].element>>}
        BY <1>i, <1>1, OtherSteps
    <2>4. Fits(Name, todo[1])  BY <1>i, <2>2 DEF FitsOK
    <2>. QED  BY <1>1, <2>1, <2>2, <2>3, <2>4
<1>2. ASSUME NEW batch \in printed,
             \A x \in lists' \ lists : \E i \in DOMAIN batch : x[2] = batch[i].list
      PROVE  m[2] \notin {"checks", "fees"}
    BY <1>i, <1>2 DEF PrintedOK
<1>. QED  BY <1>i, <1>1, <1>2, ListFrame

LEMMA ChecksStep ==
    ASSUME Sound, Moves, torn' = {}
    PROVE  ChecksOK'
<1>i. DeployInv /\ BaseInv /\ ChecksOK /\ FitsOK /\ ChainId = 1 /\ NeedsOK'
    BY NeedsStep DEF Sound, SoundInv
<1>c. Register \notin AlwaysRevert  BY DEF Register, AlwaysRevert
<1>. DEFINE first == Bound("VaultSafetyMode")
            second == Bound("ReserveSafetyManager")
<1>1. Registered => Root' = Root /\ Checks' = Checks /\ first' = first
    BY <1>i, ChecksIsHanging, RootStays
<1>2. Registered' => There("VaultSafetyMode")' /\ There("ReserveSafetyManager")'
                     /\ There("RootSafetyCheck")'
    <2>1. CASE Registered  BY <1>i, <2>1, ChecksIsHanging, RootStays
    <2>2. CASE ~Registered /\ Registered'
        <3>1. running' /\ Name' = Register
            <4>1. SUFFICES ASSUME Register \in done' PROVE FALSE
                BY <2>2 DEF Registered, Register
            <4>2. Finish /\ Name = Register  BY <1>i, <2>2, <4>1, HistoryFrame DEF Registered
            <4>. QED  BY <2>2, <4>2 DEF Finish, Registered
        <3>2. Handed(Name)'  BY <1>i, <3>1 DEF NeedsOK
        <3>3. \A h \in Hands : h[1] = Register => There(h[2])'
            <4>1. Hands' = Hands  BY DEF Hands
            <4>. QED  BY <3>1, <3>2, <4>1 DEF Handed
        <3>4. /\ <<Register, "RootSafetyCheck">> \in Hands /\ <<Register, "VaultSafetyMode">> \in Hands
              /\ <<Register, "ReserveSafetyManager">> \in Hands
            BY DEF Hands, Register
        <3>. QED  BY <3>3, <3>4
    <2>. QED  BY <2>1, <2>2
<1>3. ASSUME NEW m \in lists', m[2] = "checks"
      PROVE  /\ Registered' /\ There("RootSafetyCheck")'
             /\ m[3] \in Checks' /\ m = <<Root', "checks", m[3]>>
    <2>1. CASE m \in lists
        <3>1. Registered /\ m[3] \in Checks /\ m = <<Root, "checks", m[3]>>
            BY <1>i, <1>3, <2>1, ChecksIsHanging
        <3>2. Registered'
            <4>1. CASE Register \in done  BY <1>i, <4>1, HistoryFrame DEF Registered, Register
            <4>2. CASE running /\ Name = Register
                <5>1. ~(Cut /\ ~Stuck)
                    <6>1. SUFFICES ASSUME Cut, ~Stuck PROVE FALSE  OBVIOUS
                    <6>. DEFINE call == Call(Governance, Root, "checks", first)
                    <6>3. Current.steps # <<>> /\ Head(Current.steps) = call
                        <7>1. Current.steps = <<call, Call(Governance, Root, "checks", second)>>
                            BY <4>2, ScriptIs DEF Current, Register, safety_register, Steps, Root
                        <7>. HIDE DEF call
                        <7>. QED  BY <7>1
                    <6>2. Executable(Head(Current.steps))  BY <6>1, <6>3 DEF Stuck
                    <6>4. /\ call.op = "call" /\ call.target = Root /\ call.list = "checks"
                          /\ call.element = first
                        BY DEF Call
                    <6>5. Executable(call)  BY <6>2, <6>3
                    <6>. HIDE DEF call
                    <6>6. <<Root, "checks", first>> \notin lists  BY <6>4, <6>5, FirstCall
                    <6>7. \A e \in Checks : <<Root, "checks", e>> \notin lists
                        BY <1>i, <4>2, <6>6, ChecksIsHanging DEF Hanging
                    <6>. QED  BY <2>1, <3>1, <6>7
                <5>2. StepOfScript => running' /\ Name' = Name  BY <1>i, StepIs
                <5>3. UNCHANGED deployVars => running' /\ Name' = Name
                    BY <4>2 DEF deployVars, plan, running, Name
                <5>4. Finish => Register \in done'  BY <4>2 DEF Finish
                <5>. QED
                    BY <1>c, <4>2, <5>1, <5>2, <5>3, <5>4, HowItEnds DEF Registered, Register
            <4>. QED  BY <3>1, <4>1, <4>2 DEF Registered
        <3>. QED  BY <1>1, <1>2, <3>1, <3>2
    <2>2. CASE m \notin lists
        <3>1. /\ running /\ running' /\ Name' = Name /\ 1 \in DOMAIN todo /\ Fits(Name, todo[1])
              /\ todo[1].op = "call" /\ todo[1].list = "checks"
              /\ m = <<todo[1].target, "checks", todo[1].element>> /\ m[3] = todo[1].element
            BY <1>3, <2>2, ListedBy
        <3>2. Name = Register /\ todo[1].target = Root
            BY <3>1, KeptAre DEF Fits, CallFits, Register, Root
        <3>3. Registered /\ Registered'  BY <3>1, <3>2 DEF Registered, Register
        <3>4. todo[1].element \in Checks  BY <1>i, <3>1, <3>2, ChecksIsHanging DEF Hanging
        <3>. QED  BY <1>1, <1>2, <3>1, <3>2, <3>3, <3>4
    <2>. QED  BY <2>1, <2>2
<1>4. ASSUME Register \in done' PROVE \A e \in Checks' : <<Root', "checks", e>> \in lists'
    <2>1. lists \subseteq lists'  BY <1>i, ListFrame
    <2>2. CASE Register \in done
        BY <1>i, <1>1, <2>1, <2>2, ChecksIsHanging DEF Registered
    <2>3. CASE Register \notin done
        <3>1. Finish /\ Name = Register  BY <1>i, <1>4, <2>3, HistoryFrame
        <3>2. running /\ todo = <<>>  BY <3>1 DEF Finish
        <3>3. DOMAIN todo = {}  BY <3>2, EmptyDomain
        <3>4. Hanging(Root, first, Checks, lists, todo)
            BY <1>i, <3>1, <3>2, ChecksIsHanging
        <3>5. \A e \in Checks : <<Root, "checks", e>> \in lists  BY <3>3, <3>4 DEF Hanging
        <3>. QED  BY <1>1, <2>1, <3>1, <3>2, <3>5 DEF Registered
    <2>. QED  BY <2>2, <2>3
<1>5. ASSUME running', Name' = Register
      PROVE  Hanging(Root', first', Checks', lists', todo')
    <2>1. CASE StartScript
        <3>1. /\ Name = Register /\ ~running /\ todo' = Current.steps /\ lists' = lists /\ Idle
              /\ containers' = containers
            BY <1>i, <1>5, <2>1, StartIs DEF StartScript
        <3>2. Register \notin done  BY <3>1, DoneIsOver
        <3>3. \A e : <<Root, "checks", e>> \notin lists
            <4>1. ASSUME NEW e, <<Root, "checks", e>> \in lists PROVE FALSE
                <5>1. <<Root, "checks", e>>[2] = "checks"  OBVIOUS
                <5>2. Registered  BY <1>i, <4>1, <5>1, ChecksIsHanging
                <5>. QED  BY <3>1, <3>2, <5>2 DEF Registered
            <4>. QED  BY <4>1
        <3>4. /\ There("VaultSafetyMode") /\ There("ReserveSafetyManager")
              /\ There("RootSafetyCheck")
            BY <1>2, <1>5, <3>1 DEF Registered, There, Register
        <3>5. first # second
            <4>1. "VaultSafetyMode" \in Contracts /\ "ReserveSafetyManager" \in Contracts  BY ByName
            <4>2. first.contract = "VaultSafetyMode" /\ second.contract = "ReserveSafetyManager"
                BY <1>i, <3>4, <4>1, BoundIs
            <4>. QED  BY <4>2
        <3>6. Current.steps = <<Call(Governance, Root, "checks", first),
                                Call(Governance, Root, "checks", second)>>
            BY <3>1, ScriptIs DEF Current, Register, safety_register, Steps, Root
        <3>7. Root' = Root /\ Checks' = Checks /\ first' = first  BY <3>4, RootStays
        <3>8. Checks = {first, second}  BY DEF Checks
        <3>. HIDE DEF first, second
        <3>9. Hanging(Root, first, Checks, lists, Current.steps)
            BY <3>3, <3>5, <3>6, <3>8, HangingStarts
        <3>. QED  BY <3>1, <3>7, <3>9
    <2>2. CASE running /\ StepOfScript
        <3>1. Name = Register /\ 1 \in DOMAIN todo  BY <1>i, <1>5, <2>2, StepIs
        <3>2. Hanging(Root, first, Checks, lists, todo)  BY <1>i, <2>2, <3>1, ChecksIsHanging
        <3>3. todo[1].op = "call" /\ todo[1].list = "checks"  BY <3>1, <3>2 DEF Hanging
        <3>4. CallStep  BY <1>i, <2>2, <3>3, StepKind
        <3>5. Fits(Name, todo[1])  BY <1>i, <2>2, <3>1 DEF FitsOK
        <3>6. todo[1].target = Root  BY <3>3, <3>5, KeptAre DEF Fits, CallFits, Root
        <3>7. lists' = lists \union {<<Root, "checks", todo[1].element>>}
            BY <1>i, <3>3, <3>4, <3>6, OtherSteps
        <3>8. Rest(todo, todo')  BY <1>i, <2>2, StepLeaves
        <3>9. Root' = Root /\ Checks' = Checks /\ first' = first
            BY <1>1, <2>2, <3>1 DEF Registered
        <3>. HIDE DEF first, second
        <3>. QED  BY <3>2, <3>7, <3>8, <3>9, HangingStep
    <2>3. CASE UNCHANGED deployVars
        <3>1. running /\ Name = Register /\ todo' = todo /\ lists' = lists
            BY <1>5, <2>3 DEF deployVars, deployment, plan, running, Name
        <3>2. Root' = Root /\ Checks' = Checks /\ first' = first  BY <1>1, <3>1 DEF Registered
        <3>. QED  BY <1>i, <3>1, <3>2, ChecksIsHanging
    <2>. QED  BY <1>i, <1>5, <2>1, <2>2, <2>3, HistoryFrame
<1>. QED  BY <1>2, <1>3, <1>4, <1>5, ChecksIsHanging

SetFeeds == "chainlink.set_feeds"
SetFees == "vaults.set_fees"

LEMMA FeedsStep ==
    ASSUME Sound, Moves
    PROVE  FeedsOK'
<1>i. DeployInv /\ BaseInv /\ FeedsOK /\ FitsOK /\ NeedsOK'  BY NeedsStep DEF Sound, SoundInv
<1>. DEFINE c == "ChainlinkPriceOracle"
<1>m. c \in DOMAIN Makers /\ c \notin DOMAIN Adoption  BY KeptAre, AdoptionAre
<1>s. SetFeeds = "chainlink.set_feeds" /\ SetFeeds' = SetFeeds
      /\ get_chainlink_feeds' = get_chainlink_feeds /\ \A a : Outsider(a)' = Outsider(a)
    BY DEF SetFeeds, get_chainlink_feeds, Outsider, Address
<1>h. <<SetFeeds, c>> \in Hands /\ Hands' = Hands  BY DEF Hands, SetFeeds
<1>f. There(c) => There(c)' /\ \A a : FeedOf(a)' = FeedOf(a)
    <2>1. There(c) => There(c)' /\ Bound(c)' = Bound(c)  BY <1>i, <1>m, BoundStays
    <2>. QED  BY <1>s, <2>1 DEF FeedOf
<1>l. lists \subseteq lists'  BY <1>i, ListFrame
<1>1. running' /\ Name' = SetFeeds => There(c)'
    <2>1. SUFFICES ASSUME running', Name' = SetFeeds PROVE There(c)'  OBVIOUS
    <2>2. Handed(Name)'  BY <1>i, <2>1 DEF NeedsOK
    <2>. QED  BY <1>h, <2>1, <2>2 DEF Handed
<1>2. SetFeeds \in done' => There(c)'
    <2>1. CASE SetFeeds \in done  BY <1>i, <1>f, <1>s, <2>1 DEF FeedsOK
    <2>2. CASE SetFeeds \notin done /\ SetFeeds \in done'
        <3>1. Finish /\ Name = SetFeeds  BY <1>i, <2>2, HistoryFrame
        <3>2. running  BY <3>1 DEF Finish
        <3>. QED  BY <1>i, <1>f, <1>s, <3>1, <3>2 DEF FeedsOK
    <2>. QED  BY <2>1, <2>2
<1>3. ASSUME SetFeeds \in done', NEW a \in get_chainlink_feeds PROVE FeedOf(a)' \in lists'
    <2>1. CASE SetFeeds \in done  BY <1>i, <1>f, <1>l, <1>s, <2>1 DEF FeedsOK
    <2>2. CASE SetFeeds \notin done
        <3>1. Finish /\ Name = SetFeeds  BY <1>i, <1>3, <2>2, HistoryFrame
        <3>2. running /\ todo = <<>>  BY <3>1 DEF Finish
        <3>3. DOMAIN todo = {}  BY <3>2, EmptyDomain
        <3>4. There(c) /\ FeedOf(a) \in lists  BY <1>i, <1>s, <3>1, <3>2, <3>3 DEF FeedsOK
        <3>. QED  BY <1>f, <1>l, <3>4
    <2>. QED  BY <2>1, <2>2
<1>. DEFINE Feeds(a, s) == \E i \in DOMAIN s : s[i].op = "call" /\ s[i].list = "feeds"
                                               /\ s[i].element = Outsider(a)
<1>4. ASSUME running', Name' = SetFeeds, NEW a \in get_chainlink_feeds
      PROVE  FeedOf(a)' \in lists' \/ Feeds(a, todo')
    <2>1. CASE StartScript
        <3>1. Name = SetFeeds /\ todo' = Current.steps /\ containers' = containers /\ lists' = lists
            BY <1>i, <1>4, <2>1, StartIs
        <3>2. todo' = set_feeds.steps  BY <3>1, ScriptIs DEF Current, SetFeeds
        <3>3. FeedOf(a)' = FeedOf(a)  BY <1>1, <1>4, <1>f, <3>1 DEF There
        <3>4. CASE FeedOf(a) \in lists  BY <3>1, <3>3, <3>4
        <3>5. CASE FeedOf(a) \notin lists
            <4>1. a \in OracleFeeds  BY <3>5 DEF OracleFeeds, FeedOf
            <4>2. PICK i \in DOMAIN todo' : todo'[i] = Call(Governance, Bound(c), "feeds", Outsider(a))
                BY <3>2, <4>1, FeedSteps
            <4>3. todo'[i].op = "call" /\ todo'[i].list = "feeds" /\ todo'[i].element = Outsider(a)
                BY <4>2 DEF Call
            <4>. QED  BY <4>3
        <3>. QED  BY <3>4, <3>5
    <2>2. CASE running /\ StepOfScript
        <3>1. Name = SetFeeds  BY <1>i, <1>4, <2>2, StepIs
        <3>2. There(c) /\ (FeedOf(a) \in lists \/ Feeds(a, todo))
            BY <1>i, <1>s, <2>2, <3>1 DEF FeedsOK
        <3>3. CASE FeedOf(a) \in lists  BY <1>f, <1>l, <3>2, <3>3
        <3>4. CASE Feeds(a, todo)
            <4>1. PICK i \in DOMAIN todo : /\ todo[i].op = "call" /\ todo[i].list = "feeds"
                                           /\ todo[i].element = Outsider(a)
                BY <3>4
            <4>2. CASE i = 1
                <5>1. Fits(Name, todo[1])  BY <1>i, <2>2, <4>1, <4>2 DEF FitsOK
                <5>2. todo[1].target = Bound(c)  BY <4>1, <4>2, <5>1, KeptAre DEF Fits, CallFits
                <5>3. CallStep  BY <1>i, <2>2, <4>1, <4>2, StepKind
                <5>4. <<Bound(c), "feeds", Outsider(a)>> \in lists'
                    BY <1>i, <4>1, <4>2, <5>2, <5>3, OtherSteps
                <5>. QED  BY <1>f, <3>2, <5>4 DEF FeedOf
            <4>3. CASE i # 1
                <5>1. i - 1 \in DOMAIN todo' /\ todo'[i - 1] = todo[i]
                    BY <1>i, <2>2, <4>3, LeftOf
                <5>. QED  BY <4>1, <5>1
            <4>. QED  BY <4>2, <4>3
        <3>. QED  BY <3>2, <3>3, <3>4
    <2>3. CASE UNCHANGED deployVars
        <3>1. running /\ Name = SetFeeds /\ todo' = todo /\ lists' = lists
            BY <1>4, <2>3 DEF deployVars, deployment, plan, running, Name
        <3>2. There(c) /\ (FeedOf(a) \in lists \/ Feeds(a, todo))
            BY <1>i, <1>s, <3>1 DEF FeedsOK
        <3>. QED  BY <1>f, <3>1, <3>2
    <2>. QED  BY <1>i, <1>4, <2>1, <2>2, <2>3, HistoryFrame
<1>. QED  BY <1>1, <1>2, <1>3, <1>4, <1>s DEF FeedsOK

\* The containers of vaults stay once every vault is deployed.
LEMMA VaultsStand ==
    ASSUME Sound, Moves, vaults \subseteq done
    PROVE  AllVaults' = AllVaults /\ \A c \in VaultKinds : containers'[c] = containers[c]
<1>i. DeployInv /\ BaseInv /\ FitsOK  BY DEF Sound, SoundInv
<1>1. ASSUME NEW c \in VaultKinds PROVE containers'[c] = containers[c]
    <2>1. c \in Contracts  BY <1>i, VaultsAt
    <2>2. ContainerMoves(c)  BY <1>i, <2>1, ContainerFrame
    <2>3. ~(DeployStep /\ c = todo[1].at.contract)
        <3>1. SUFFICES ASSUME DeployStep, c = todo[1].at.contract PROVE FALSE  OBVIOUS
        <3>2. StepOfScript /\ todo[1].op = "deploy"  BY <1>i, <3>1, DeployIs
        <3>3. running /\ 1 \in DOMAIN todo  BY <1>i, <3>2, StepIs
        <3>4. Name \in vaults
            BY <1>i, <1>1, <3>1, <3>2, <3>3 DEF FitsOK, Fits, DeployFits, MadeFits
        <3>. QED  BY <3>3, <3>4, DoneIsOver
    <2>4. ~OverwriteStep
        <3>1. SUFFICES ASSUME OverwriteStep PROVE FALSE  OBVIOUS
        <3>2. StepOfScript /\ todo[1].op = "overwrite"  BY <1>i, <3>1, OtherSteps DEF StepOfScript
        <3>3. running /\ 1 \in DOMAIN todo  BY <1>i, <3>2, StepIs
        <3>4. Name \in vaults  BY <1>i, <3>2, <3>3 DEF FitsOK, Fits
        <3>. QED  BY <3>3, <3>4, DoneIsOver
    <2>5. c # HandOracle /\ c \notin DOMAIN Adoption
        BY AdoptionAre DEF VaultKinds, HandOracle
    <2>. QED  BY <2>2, <2>3, <2>4, <2>5 DEF ContainerMoves
<1>2. AllVaults' = AllVaults
    <2>1. AllVaults' = UNION {{containers'[c][i] : i \in DOMAIN containers'[c]} : c \in VaultKinds}
        BY DEF AllVaults, VaultKinds
    <2>. QED  BY <1>1, <2>1 DEF AllVaults
<1>. QED  BY <1>1, <1>2

LEMMA FeesStep ==
    ASSUME Sound, Moves
    PROVE  FeesOK'
<1>i. DeployInv /\ BaseInv /\ FeesOK /\ FitsOK /\ NeedsOK /\ ContainersOK
    BY DEF Sound, SoundInv, DeployInv
<1>s. SetFees = "vaults.set_fees" /\ vaults' = vaults /\ SetFees' = SetFees
    BY DEF SetFees, vaults, GenericSymbols, BalancerSymbols
<1>l. lists \subseteq lists'  BY <1>i, ListFrame
<1>. DEFINE needed == {"fee_handler.main"} \union vaults
<1>n. \A n \in needed : NeededBy(SetFees, n)  BY NeedsAre DEF SetFees
<1>f. needed \subseteq done => /\ needed \subseteq done' /\ Handler' = Handler
                               /\ AllVaults' = AllVaults
    BY <1>i, HistoryFrame, VaultsStand, HandlerStays DEF Handler
<1>r. (running \/ Idle) /\ Name = SetFees => needed \subseteq done  BY <1>n, NeededRan
<1>1. ASSUME NEW m \in lists', m[2] = "fees"
      PROVE  needed \subseteq done' /\ m[1] = Handler' /\ m[3] \in AllVaults'
    <2>1. CASE m \in lists
        <3>1. needed \subseteq done /\ m[1] = Handler /\ m[3] \in AllVaults
            BY <1>i, <1>1, <2>1 DEF FeesOK
        <3>. QED  BY <1>f, <3>1
    <2>2. CASE m \notin lists
        <3>1. /\ running /\ 1 \in DOMAIN todo /\ Fits(Name, todo[1])
              /\ todo[1].op = "call" /\ todo[1].list = "fees"
              /\ m[1] = todo[1].target /\ m[3] = todo[1].element
            BY <1>1, <2>2, ListedBy
        <3>2. Name = SetFees /\ todo[1].target = Handler
            BY <3>1, KeptAre DEF Fits, CallFits, SetFees, Handler
        <3>3. todo[1].element \in AllVaults  BY <1>i, <1>s, <3>1, <3>2 DEF FeesOK
        <3>. QED  BY <1>f, <1>r, <3>1, <3>2, <3>3
    <2>. QED  BY <2>1, <2>2
<1>2. ASSUME SetFees \in done' PROVE \A e \in AllVaults' : <<Handler', "fees", e>> \in lists'
    <2>1. CASE SetFees \in done
        <3>1. \A n \in needed : n \in done  BY <1>n, <2>1, DoneNeeds
        <3>. QED  BY <1>i, <1>f, <1>l, <1>s, <2>1, <3>1 DEF FeesOK
    <2>2. CASE SetFees \notin done
        <3>1. Finish /\ Name = SetFees  BY <1>i, <1>2, <2>2, HistoryFrame
        <3>2. running /\ todo = <<>>  BY <3>1 DEF Finish
        <3>3. DOMAIN todo = {}  BY <3>2, EmptyDomain
        <3>4. \A e : e \notin Elements  BY <3>3 DEF Elements
        <3>5. \A e \in AllVaults : <<Handler, "fees", e>> \in lists
            BY <1>i, <1>s, <3>1, <3>2, <3>4 DEF FeesOK
        <3>. QED  BY <1>f, <1>l, <1>r, <3>1, <3>2, <3>5
    <2>. QED  BY <2>1, <2>2
<1>. DEFINE Feeing(s) == \A i \in DOMAIN s : s[i].op = "call" /\ s[i].element \in AllVaults
            Has(e, s) == \E i \in DOMAIN s : s[i].element = e
<1>e. /\ \A e : e \in Elements <=> Has(e, todo)
      /\ \A e : e \in Elements' <=> Has(e, todo')
    BY DEF Elements
<1>3. ASSUME running', Name' = SetFees
      PROVE  /\ needed \subseteq done /\ Feeing(todo')
             /\ \A e \in AllVaults : <<Handler, "fees", e>> \in lists' \/ Has(e, todo')
    <2>1. CASE StartScript
        <3>1. Name = SetFees /\ todo' = Current.steps /\ ~running /\ Idle
            BY <1>i, <1>3, <2>1, StartIs DEF StartScript
        <3>2. todo' = set_fees.steps  BY <3>1, ScriptIs DEF Current, SetFees
        <3>3. \A e \in AllVaults : HasConfig(e)  BY <3>1, FeesReadyAtStart
        <3>4. /\ \A i \in DOMAIN todo' : \E e \in AllVaults : todo'[i] = Call(Governance, Handler, "fees", e)
              /\ \A e \in AllVaults : \E i \in DOMAIN todo' : todo'[i] = Call(Governance, Handler, "fees", e)
            BY <1>i, <3>2, <3>3, FeeSteps
        <3>5. \A e : /\ Call(Governance, Handler, "fees", e).op = "call"
                     /\ Call(Governance, Handler, "fees", e).element = e
            BY DEF Call
        <3>. QED  BY <1>r, <3>1, <3>4, <3>5
    <2>2. CASE running /\ StepOfScript
        <3>1. Name = SetFees /\ 1 \in DOMAIN todo  BY <1>i, <1>3, <2>2, StepIs
        <3>2. /\ Feeing(todo)
              /\ \A e \in AllVaults : <<Handler, "fees", e>> \in lists \/ Has(e, todo)
            BY <1>e, <1>i, <1>s, <2>2, <3>1 DEF FeesOK
        <3>3. Rest(todo, todo')  BY <1>i, <2>2, StepLeaves
        <3>4. Feeing(todo')  BY <3>2, <3>3 DEF Rest
        <3>5. <<Handler, "fees", todo[1].element>> \in lists'
            <4>1. CallStep  BY <1>i, <2>2, <3>1, <3>2, StepKind
            <4>2. Fits(Name, todo[1])  BY <1>i, <2>2, <3>1 DEF FitsOK
            <4>3. Name \notin AlwaysRevert /\ todo[1].op = "call"
                BY <3>1, <3>2 DEF SetFees, AlwaysRevert
            <4>4. todo[1].list = "fees" /\ todo[1].target = Handler
                BY <3>1, <4>2, <4>3, KeptAre DEF Fits, CallFits, SetFees, Handler
            <4>. QED  BY <1>i, <4>1, <4>4, OtherSteps
        <3>6. ASSUME NEW e \in AllVaults
              PROVE  <<Handler, "fees", e>> \in lists' \/ Has(e, todo')
            <4>1. CASE <<Handler, "fees", e>> \in lists  BY <1>l, <4>1
            <4>2. CASE Has(e, todo)
                <5>1. PICK i \in DOMAIN todo : todo[i].element = e  BY <4>2
                <5>2. CASE i = 1  BY <3>5, <5>1, <5>2
                <5>3. CASE i # 1
                    <6>1. i - 1 \in DOMAIN todo' /\ todo'[i - 1] = todo[i]
                        BY <3>3, <5>3 DEF Rest
                    <6>. QED  BY <5>1, <6>1
                <5>. QED  BY <5>2, <5>3
            <4>. QED  BY <3>2, <4>1, <4>2
        <3>. QED  BY <1>r, <2>2, <3>1, <3>4, <3>6
    <2>3. CASE UNCHANGED deployVars
        <3>1. running /\ Name = SetFees /\ todo' = todo /\ lists' = lists
            BY <1>3, <2>3 DEF deployVars, deployment, plan, running, Name
        <3>2. /\ Feeing(todo)
              /\ \A e \in AllVaults : <<Handler, "fees", e>> \in lists \/ Has(e, todo)
            BY <1>e, <1>i, <1>s, <3>1 DEF FeesOK
        <3>. QED  BY <1>r, <3>1, <3>2
    <2>. QED  BY <1>i, <1>3, <2>1, <2>2, <2>3, HistoryFrame
<1>4. ASSUME running', Name' = SetFees
      PROVE  /\ \A i \in DOMAIN todo' : todo'[i].op = "call" /\ todo'[i].element \in AllVaults'
             /\ \A e \in AllVaults' : <<Handler', "fees", e>> \in lists' \/ e \in Elements'
    BY <1>3, <1>4, <1>e, <1>f
<1>. QED  BY <1>1, <1>2, <1>4, <1>s DEF FeesOK

-----------------------------------------------------------------------------
(* The containers of vaults.                                               *)

\* Taking out of a container an address that it lists once.
LEMMA RemovedOnce ==
    ASSUME NEW s, IsSequence(s), NEW p \in DOMAIN s, \A q \in DOMAIN s : s[q] = s[p] => q = p
    PROVE  /\ IsSequence(RemoveFirst(s, s[p]))
           /\ \A i \in DOMAIN RemoveFirst(s, s[p]) :
                  \E j \in DOMAIN s : j # p /\ RemoveFirst(s, s[p])[i] = s[j]
<1>. DEFINE e == s[p]
            I == {i \in 1..Len(s) : s[i] = e}
            B == {s[j] : j \in DOMAIN s \ {p}}
            before == SubSeq(s, 1, p - 1)
            after == SubSeq(s, p + 1, Len(s))
<1>1. Len(s) \in Nat /\ DOMAIN s = 1..Len(s)  BY LengthOf
<1>2. p \in Nat /\ p \in 1..Len(s)  BY <1>1
<1>3. I = {p}  BY <1>1, <1>2
<1>4. Min(I) = p
    <2>1. I \in SUBSET Nat /\ I # {}  BY <1>2, <1>3
    <2>. HIDE DEF I
    <2>2. Min(I) \in I  BY <2>1, MinIsLeast
    <2>. QED  BY <1>3, <2>2
<1>5. RemoveFirst(s, e) = before \o after
    <2>1. \E i \in 1..Len(s) : s[i] = e  BY <1>2
    <2>. QED  BY <1>4, <2>1 DEF RemoveFirst, RemoveAt, SelectInSeq
<1>6. before \in Seq(B)
    <2>1. \A i \in 1..(p - 1) : i \in DOMAIN s /\ i # p  BY <1>1, <1>2
    <2>2. \A i \in 1..(p - 1) : s[i] \in B  BY <2>1
    <2>3. 1 \in Int /\ p - 1 \in Int  BY <1>2
    <2>. HIDE DEF B
    <2>. QED  BY <2>2, <2>3, SubSeqProperties
<1>7. after \in Seq(B)
    <2>1. \A i \in (p + 1)..Len(s) : i \in DOMAIN s /\ i # p  BY <1>1, <1>2
    <2>2. \A i \in (p + 1)..Len(s) : s[i] \in B  BY <2>1
    <2>3. p + 1 \in Int /\ Len(s) \in Int  BY <1>1, <1>2
    <2>. HIDE DEF B
    <2>. QED  BY <2>2, <2>3, SubSeqProperties
<1>. HIDE DEF before, after, B
<1>8. RemoveFirst(s, e) \in Seq(B)  BY <1>5, <1>6, <1>7, ConcatProperties
<1>9. IsSequence(RemoveFirst(s, e)) /\ \A i \in DOMAIN RemoveFirst(s, e) : RemoveFirst(s, e)[i] \in B
    BY <1>8, SequenceOfAny
<1>. QED  BY <1>9 DEF B

LEMMA AppendedEnd ==
    ASSUME NEW s, IsSequence(s), NEW x, NEW i \in DOMAIN Append(s, x)
    PROVE  \/ i \in DOMAIN s /\ Append(s, x)[i] = s[i]
           \/ i = Len(s) + 1 /\ Append(s, x)[i] = x
<1>1. s \in Seq({s[j] : j \in DOMAIN s} \union {x})
    <2>1. s \in Seq({s[j] : j \in DOMAIN s})  BY DEF IsSequence
    <2>. QED  BY <2>1
<1>2. Len(s) \in Nat /\ DOMAIN s = 1..Len(s)  BY LengthOf
<1>. HIDE DEF IsSequence
<1>3. /\ DOMAIN Append(s, x) = 1..(Len(s) + 1) /\ Append(s, x)[Len(s) + 1] = x
      /\ \A j \in 1..Len(s) : Append(s, x)[j] = s[j]
    BY <1>1, <1>2, AppendProperties
<1>4. i \in 1..Len(s) \/ i = Len(s) + 1  BY <1>2, <1>3
<1>. QED  BY <1>2, <1>3, <1>4

\* How the container of a kind of vaults changes.
LEMMA VaultFrame ==
    ASSUME Sound, Moves, NEW c \in VaultKinds
    PROVE  \/ containers'[c] = containers[c]
           \/ /\ DeployStep /\ StepOfScript /\ c = todo[1].at.contract
              /\ containers'[c] = Append(containers[c], todo[1].at)
           \/ /\ OverwriteStep /\ StepOfScript /\ c = todo[1].implementation.contract
              /\ containers'[c] = Append(RemoveFirst(containers[c], todo[1].implementation),
                                         todo[1].proxy)
<1>i. DeployInv /\ BaseInv  BY DEF Sound
<1>1. c \in Contracts  BY <1>i, VaultsAt
<1>2. ContainerMoves(c)  BY <1>i, <1>1, ContainerFrame
<1>3. c # HandOracle /\ c \notin DOMAIN Adoption  BY AdoptionAre DEF VaultKinds, HandOracle
<1>4. DeployStep \/ OverwriteStep => StepOfScript  BY DEF StepOfScript
<1>. QED  BY <1>2, <1>3, <1>4 DEF ContainerMoves

BareAt(cs, c, i) == i \in DOMAIN cs[c] /\ ~cs[c][i].proxy
Swaps(s, j) == j \in DOMAIN s /\ s[j].op = "overwrite"
DeploysVault(s, i) == i \in DOMAIN s /\ s[i].op = "deploy" /\ s[i].at.contract \in VaultKinds

Labelled(ch) ==
    \A a \in DOMAIN ch : a.contract \in VaultKinds /\ a.proxy => ch[a].label \in vaults
Swapped(cs, s) ==
    \A c \in VaultKinds : \A i : BareAt(cs, c, i) =>
        /\ \E j : Swaps(s, j) /\ s[j].implementation = cs[c][i]
        /\ \A k : BareAt(cs, c, k) => i = k
NoBare(cs) == \A c \in VaultKinds : \A i : ~BareAt(cs, c, i)
WillSwap(cs, s) ==
    /\ \A i : DeploysVault(s, i) =>
          NoBare(cs) /\ \E j : j > i /\ Swaps(s, j) /\ s[j].implementation = s[i].at
    /\ \A i : Swaps(s, i) => s[i].proxy.proxy /\ \A j : Swaps(s, j) => i = j

LEMMA VaultsAre ==
    /\ VaultsOK <=> /\ Labelled(chain) /\ (running => WillSwap(containers, todo))
                    /\ ~NoBare(containers) => running /\ Name \in vaults
                    /\ Swapped(containers, todo)
    /\ VaultsOK' <=> /\ Labelled(chain') /\ (running' => WillSwap(containers', todo'))
                     /\ ~NoBare(containers') => running' /\ Name' \in vaults
                     /\ Swapped(containers', todo')
<1>1. VaultKinds' = VaultKinds /\ vaults' = vaults
    BY DEF VaultKinds, vaults, GenericSymbols, BalancerSymbols
<1>2. VaultsOK <=> /\ Labelled(chain) /\ (running => WillSwap(containers, todo))
                   /\ ~NoBare(containers) => running /\ Name \in vaults
                   /\ Swapped(containers, todo)
    BY DEF VaultsOK, Labelled, WillSwap, NoBare, Swapped, BareAt, Swaps, DeploysVault
<1>3. VaultsOK' <=> /\ Labelled(chain') /\ (running' => WillSwap(containers', todo'))
                    /\ ~NoBare(containers') => running' /\ Name' \in vaults
                    /\ Swapped(containers', todo')
    BY <1>1 DEF VaultsOK, Labelled, WillSwap, NoBare, Swapped, BareAt, Swaps, DeploysVault
<1>. QED  BY <1>2, <1>3

LEMMA LabelledStep ==
    ASSUME Sound, Moves
    PROVE  Labelled(chain')
<1>i. DeployInv /\ BaseInv /\ FitsOK /\ Labelled(chain)  BY VaultsAre DEF Sound, SoundInv
<1>1. ASSUME NEW a \in DOMAIN chain', a.contract \in VaultKinds, a.proxy
      PROVE  chain'[a].label \in vaults
    <2>1. CASE a \in DOMAIN chain
        <3>1. chain'[a].label = chain[a].label  BY <1>i, <2>1, ChainFrame DEF ChainGrows
        <3>. QED  BY <1>1, <1>i, <2>1, <3>1 DEF Labelled
    <2>2. CASE a \notin DOMAIN chain
        <3>1. ProxyStep /\ a = todo[1].at  BY <1>1, <1>i, <2>2, ChainFrame DEF ChainGrows
        <3>2. /\ StepOfScript /\ todo[1].op = "proxy"
              /\ chain'[a].label = todo[1].label
            BY <1>i, <3>1, ProxyIs DEF Placed
        <3>3. running /\ 1 \in DOMAIN todo  BY <1>i, <3>2, StepIs
        <3>. QED  BY <1>1, <1>i, <3>1, <3>2, <3>3 DEF FitsOK, Fits, ProxyFits
    <2>. QED  BY <2>1, <2>2
<1>. QED  BY <1>1 DEF Labelled

\* The swap that a script has still to make after its next step.
LEMMA SwapRest ==
    ASSUME NEW s, NEW t, Rest(s, t), NEW cs, WillSwap(cs, s), NEW new,
           (\E i : DeploysVault(t, i)) => NoBare(new)
    PROVE  WillSwap(new, t)
<1>1. ASSUME NEW i, DeploysVault(t, i)
      PROVE  NoBare(new) /\ \E j : j > i /\ Swaps(t, j) /\ t[j].implementation = t[i].at
    <2>1. i \in Nat /\ i + 1 \in DOMAIN s /\ t[i] = s[i + 1]  BY <1>1 DEF Rest, DeploysVault
    <2>2. DeploysVault(s, i + 1)  BY <1>1, <2>1 DEF DeploysVault
    <2>3. PICK j : j > i + 1 /\ Swaps(s, j) /\ s[j].implementation = s[i + 1].at
        BY <2>2 DEF WillSwap
    <2>4. j \in DOMAIN s /\ j \in Nat  BY <2>3 DEF Swaps, Rest
    <2>5. j # 1 /\ j - 1 > i  BY <2>1, <2>3, <2>4
    <2>6. j - 1 \in DOMAIN t /\ t[j - 1] = s[j]  BY <2>4, <2>5 DEF Rest
    <2>7. Swaps(t, j - 1) /\ t[j - 1].implementation = t[i].at  BY <2>1, <2>3, <2>6 DEF Swaps
    <2>. QED  BY <1>1, <2>5, <2>7
<1>2. ASSUME NEW i, Swaps(t, i)
      PROVE  t[i].proxy.proxy /\ \A j : Swaps(t, j) => i = j
    <2>1. \A j : Swaps(t, j) => j \in Nat /\ Swaps(s, j + 1) /\ t[j] = s[j + 1]
        BY DEF Rest, Swaps
    <2>2. i \in Nat /\ Swaps(s, i + 1) /\ t[i] = s[i + 1]  BY <1>2, <2>1
    <2>3. s[i + 1].proxy.proxy  BY <2>2 DEF WillSwap
    <2>4. ASSUME NEW j, Swaps(t, j) PROVE i = j
        <3>1. j \in Nat /\ Swaps(s, j + 1)  BY <2>1, <2>4
        <3>2. i + 1 = j + 1  BY <2>2, <3>1 DEF WillSwap
        <3>. QED  BY <2>2, <3>1, <3>2
    <2>. QED  BY <2>2, <2>3, <2>4
<1>. QED  BY <1>1, <1>2 DEF WillSwap

\* A script that starts deploys a vault only to swap it in the end.
LEMMA SwapsAtStart ==
    ASSUME Sound, StartScript, NEW cs, NoBare(cs)
    PROVE  WillSwap(cs, Current.steps)
<1>. DEFINE s == Current.steps
<1>1. CASE Name \in vaults
    <2>1. PICK c \in VaultKinds : Script(Name) = DeployVault(c, {"GyroConfig"}, Name)
        <3>1. CASE Name \in GenericSymbols
            <4>1. Script(Name) = DeployVault("GenericVault", {"GyroConfig"}, Name)
                BY <3>1, ScriptIs DEF generic
            <4>. QED  BY <4>1 DEF VaultKinds
        <3>2. CASE Name \in BalancerSymbols
            <4>1. Script(Name) = DeployVault("BalancerPoolVault", {"GyroConfig"}, Name)
                BY <3>2, ScriptIs DEF balancer
            <4>. QED  BY <4>1 DEF VaultKinds
        <3>. QED  BY <1>1, <3>1, <3>2 DEF vaults
    <2>2. PICK a, b, o : /\ DeployVault(c, {"GyroConfig"}, Name).steps = <<a, b, o>>
                         /\ a = Deploy(c, NoAddress, {}, {"GyroConfig"})
                         /\ b = DeployProxy(New(c), Multisig, Name)
                         /\ o = Overwrite(New(c), NewProxy(c))
        BY <1>1, VaultSteps
    <2>3. s = <<a, b, o>>  BY <2>1, <2>2 DEF Current
    <2>4. /\ a.op = "deploy" /\ b.op = "proxy" /\ o.op = "overwrite"
          /\ a.at = New(c) /\ o.implementation = New(c) /\ o.proxy.proxy
        BY <2>2 DEF Deploy, DeployProxy, Overwrite, NewProxy, Address
    <2>5. DOMAIN s = 1..3 /\ s[1] = a /\ s[2] = b /\ s[3] = o  BY <2>3
    <2>. HIDE DEF s
    <2>6. \A i : DeploysVault(s, i) => i = 1  BY <2>4, <2>5 DEF DeploysVault
    <2>7. \A i : Swaps(s, i) <=> i = 3  BY <2>4, <2>5 DEF Swaps
    <2>8. ASSUME NEW i, DeploysVault(s, i)
          PROVE  NoBare(cs) /\ \E j : j > i /\ Swaps(s, j) /\ s[j].implementation = s[i].at
        <3>1. i = 1  BY <2>6, <2>8
        <3>2. 3 > i /\ Swaps(s, 3) /\ s[3].implementation = s[i].at  BY <2>4, <2>5, <2>7, <3>1
        <3>. QED  BY <3>2
    <2>9. ASSUME NEW i, Swaps(s, i) PROVE s[i].proxy.proxy /\ \A j : Swaps(s, j) => i = j
        BY <2>4, <2>5, <2>7, <2>9
    <2>. QED  BY <2>8, <2>9 DEF WillSwap, s
<1>2. CASE Name \notin vaults
    <2>1. \A i \in DOMAIN s : Fits(Name, s[i])  BY StartIsGood DEF Good
    <2>. HIDE DEF s
    <2>2. \A i : ~DeploysVault(s, i)
        BY <1>2, <2>1 DEF DeploysVault, Fits, DeployFits, MadeFits
    <2>3. \A i : ~Swaps(s, i)  BY <1>2, <2>1 DEF Swaps, Fits
    <2>. QED  BY <2>2, <2>3 DEF WillSwap, s
<1>. QED  BY <1>1, <1>2

\* A step that touches no container of vaults.
LEMMA BareStays ==
    ASSUME NEW cs, NEW new, \A c \in VaultKinds : new[c] = cs[c]
    PROVE  /\ \A c \in VaultKinds : \A i : BareAt(new, c, i) <=> BareAt(cs, c, i)
           /\ NoBare(new) <=> NoBare(cs)
           /\ \A s : Swapped(new, s) <=> Swapped(cs, s)
<1>1. \A c \in VaultKinds : \A i : BareAt(new, c, i) <=> BareAt(cs, c, i)  BY DEF BareAt
<1>2. NoBare(new) <=> NoBare(cs)  BY <1>1 DEF NoBare
<1>3. ASSUME NEW s PROVE Swapped(new, s) <=> Swapped(cs, s)  BY <1>1 DEF Swapped
<1>. QED  BY <1>1, <1>2, <1>3

\* A vault is deployed: its implementation is the only one, and will be swapped.
LEMMA VaultDeployed ==
    ASSUME Sound, DeployStep, todo[1].at.contract \in VaultKinds
    PROVE  Swapped(containers', todo') /\ WillSwap(containers', todo') /\ Name \in vaults
<1>i. DeployInv /\ BaseInv /\ FitsOK /\ VaultsOK  BY DEF Sound, SoundInv
<1>m. Moves  BY DEF Moves, DeployNext, Progress, StepOfScript
<1>1. StepOfScript /\ todo[1].op = "deploy" /\ todo[1].at = New(todo[1].at.contract)
      /\ containers' = [containers EXCEPT ![todo[1].at.contract] = Append(@, todo[1].at)]
    BY <1>i, DeployIs
<1>2. running /\ 1 \in DOMAIN todo /\ Rest(todo, todo')  BY <1>i, <1>1, StepIs, StepLeaves
<1>3. WillSwap(containers, todo)  BY <1>i, <1>2, VaultsAre
<1>4. DeploysVault(todo, 1)  BY <1>1, <1>2 DEF DeploysVault
<1>5. NoBare(containers) /\ \E j : j > 1 /\ Swaps(todo, j) /\ todo[j].implementation = todo[1].at
    BY <1>3, <1>4 DEF WillSwap
<1>6. PICK j : j > 1 /\ Swaps(todo, j) /\ todo[j].implementation = todo[1].at  BY <1>5
<1>7. Swaps(todo', j - 1) /\ todo'[j - 1].implementation = todo[1].at
    <2>1. j \in DOMAIN todo /\ j \in Nat /\ j # 1  BY <1>2, <1>6 DEF Swaps, Rest
    <2>2. j - 1 \in DOMAIN todo' /\ todo'[j - 1] = todo[j]  BY <1>2, <2>1 DEF Rest
    <2>. QED  BY <1>6, <2>2 DEF Swaps
<1>8. ASSUME NEW c \in VaultKinds, NEW i, BareAt(containers', c, i)
      PROVE  /\ c = todo[1].at.contract /\ i = Len(containers[c]) + 1
             /\ containers'[c][i] = todo[1].at
    <2>1. \/ containers'[c] = containers[c]
          \/ c = todo[1].at.contract /\ containers'[c] = Append(containers[c], todo[1].at)
          \/ OverwriteStep
        BY <1>m, VaultFrame
    <2>2. ~OverwriteStep  BY <1>i, <1>1, OtherSteps
    <2>3. ~BareAt(containers, c, i)  BY <1>5 DEF NoBare
    <2>4. CASE containers'[c] = containers[c]  BY <1>8, <2>3, <2>4 DEF BareAt
    <2>5. CASE c = todo[1].at.contract /\ containers'[c] = Append(containers[c], todo[1].at)
        <3>1. IsSequence(containers[c])  BY <1>i, VaultsAt
        <3>2. i \in DOMAIN Append(containers[c], todo[1].at)  BY <1>8, <2>5 DEF BareAt
        <3>3. \/ i \in DOMAIN containers[c] /\ Append(containers[c], todo[1].at)[i] = containers[c][i]
              \/ i = Len(containers[c]) + 1 /\ Append(containers[c], todo[1].at)[i] = todo[1].at
            BY <3>1, <3>2, AppendedEnd
        <3>4. ~(i \in DOMAIN containers[c] /\ Append(containers[c], todo[1].at)[i] = containers[c][i])
            BY <1>8, <2>3, <2>5 DEF BareAt
        <3>. QED  BY <2>5, <3>3, <3>4
    <2>. QED  BY <2>1, <2>2, <2>4, <2>5
<1>9. Swapped(containers', todo')
    <2>. SUFFICES ASSUME NEW c \in VaultKinds, NEW i, BareAt(containers', c, i)
                  PROVE  /\ \E k : Swaps(todo', k) /\ todo'[k].implementation = containers'[c][i]
                         /\ \A k : BareAt(containers', c, k) => i = k
        BY DEF Swapped
    <2>1. containers'[c][i] = todo[1].at  BY <1>8
    <2>2. \E k : Swaps(todo', k) /\ todo'[k].implementation = containers'[c][i]  BY <1>7, <2>1
    <2>3. \A k : BareAt(containers', c, k) => k = Len(containers[c]) + 1  BY <1>8
    <2>4. i = Len(containers[c]) + 1  BY <2>3
    <2>. QED  BY <2>2, <2>3, <2>4
<1>10. ~\E i : DeploysVault(todo', i)
    <2>. SUFFICES ASSUME NEW i, DeploysVault(todo', i) PROVE FALSE  OBVIOUS
    <2>1. i \in Nat /\ i > 0 /\ i + 1 \in DOMAIN todo /\ todo'[i] = todo[i + 1]
        BY <1>2 DEF DeploysVault, Rest
    <2>2. todo[i + 1].op = "deploy"  BY <2>1 DEF DeploysVault
    <2>3. \A p, q \in DOMAIN todo : Lonely(todo[p]) /\ todo[p].op = todo[q].op => p = q
        BY <1>i, <1>2 DEF DeployInv, TodoOK
    <2>4. i + 1 = 1  BY <1>1, <1>2, <2>1, <2>2, <2>3 DEF Lonely
    <2>. QED  BY <2>1, <2>4
<1>11. WillSwap(containers', todo')  BY <1>2, <1>3, <1>10, SwapRest
<1>12. Name \in vaults
    BY <1>i, <1>1, <1>2 DEF FitsOK, Fits, DeployFits, MadeFits
<1>. QED  BY <1>9, <1>11, <1>12

\* The swap takes the implementation out.
LEMMA VaultSwapped ==
    ASSUME Sound, OverwriteStep
    PROVE  NoBare(containers') /\ WillSwap(containers', todo')
<1>i. DeployInv /\ BaseInv /\ VaultsOK  BY DEF Sound, SoundInv
<1>m. Moves /\ StepOfScript  BY DEF Moves, DeployNext, Progress, StepOfScript
<1>1. todo[1].op = "overwrite"  BY <1>i, OtherSteps
<1>2. running /\ 1 \in DOMAIN todo /\ Rest(todo, todo')  BY <1>i, <1>m, StepIs, StepLeaves
<1>3. WillSwap(containers, todo) /\ Swapped(containers, todo)  BY <1>i, <1>2, VaultsAre
<1>4. Swaps(todo, 1) /\ todo[1].proxy.proxy  BY <1>1, <1>2, <1>3 DEF Swaps, WillSwap
<1>. DEFINE x == todo[1].implementation
<1>5. ASSUME NEW c \in VaultKinds, NEW i, BareAt(containers, c, i)
      PROVE  containers[c][i] = x /\ \A k : BareAt(containers, c, k) => i = k
    <2>1. PICK j : Swaps(todo, j) /\ todo[j].implementation = containers[c][i]
        BY <1>3, <1>5 DEF Swapped
    <2>2. j = 1  BY <1>3, <1>4, <2>1 DEF WillSwap
    <2>. QED  BY <1>3, <1>5, <2>1, <2>2 DEF Swapped
<1>6. ASSUME NEW c \in VaultKinds, NEW i, BareAt(containers', c, i) PROVE FALSE
    <2>0. IsSequence(containers[c]) /\ \A k \in DOMAIN containers[c] : containers[c][k].contract = c
        BY <1>i, VaultsAt
    <2>1. \/ containers'[c] = containers[c]
          \/ DeployStep
          \/ c = x.contract /\ containers'[c] = Append(RemoveFirst(containers[c], x), todo[1].proxy)
        BY <1>m, VaultFrame
    <2>2. ~DeployStep  BY <1>i, <1>1, DeployIs
    <2>3. x.contract \in VaultKinds
          /\ containers' = [containers EXCEPT ![x.contract] = Append(RemoveFirst(containers[x.contract], x), todo[1].proxy)]
        BY <1>i, OtherSteps
    <2>4. CASE c # x.contract
        <3>1. containers'[c] = containers[c]  BY <2>3, <2>4
        <3>2. BareAt(containers, c, i)  BY <1>6, <3>1 DEF BareAt
        <3>3. containers[c][i] = x /\ i \in DOMAIN containers[c]  BY <1>5, <3>2 DEF BareAt
        <3>. QED  BY <2>0, <2>4, <3>3
    <2>5. CASE c = x.contract
        <3>. DEFINE r == RemoveFirst(containers[c], x)
        <3>1. containers'[c] = Append(r, todo[1].proxy)
            <4>1. x.contract \in DOMAIN containers
                <5>1. x.contract \in Contracts  BY <1>i, <2>3, VaultsAt
                <5>. QED  BY <1>i, <5>1 DEF DeployInv, ContainersOK
            <4>. HIDE DEF x
            <4>. QED  BY <2>3, <2>5, <4>1
        <3>2. IsSequence(r) /\ \A k \in DOMAIN r : \E j \in DOMAIN containers[c] :
                                    r[k] = containers[c][j] /\ containers[c][j].proxy
            <4>1. CASE \E p : BareAt(containers, c, p)
                <5>1. PICK p : BareAt(containers, c, p)  BY <4>1
                <5>2. /\ p \in DOMAIN containers[c] /\ containers[c][p] = x
                      /\ \A k : BareAt(containers, c, k) => p = k
                    BY <1>5, <5>1 DEF BareAt
                <5>3. \A q \in DOMAIN containers[c] : containers[c][q] = containers[c][p] => q = p
                    BY <5>1, <5>2 DEF BareAt
                <5>4. /\ IsSequence(r)
                      /\ \A k \in DOMAIN r : \E j \in DOMAIN containers[c] :
                             j # p /\ r[k] = containers[c][j]
                    <6>. HIDE DEF x
                    <6>1. /\ IsSequence(RemoveFirst(containers[c], containers[c][p]))
                          /\ \A k \in DOMAIN RemoveFirst(containers[c], containers[c][p]) :
                                 \E j \in DOMAIN containers[c] :
                                    j # p /\ RemoveFirst(containers[c], containers[c][p])[k] = containers[c][j]
                        BY <2>0, <5>2, <5>3, RemovedOnce
                    <6>. QED  BY <5>2, <6>1
                <5>5. \A j \in DOMAIN containers[c] : j # p => containers[c][j].proxy
                    BY <5>2 DEF BareAt
                <5>. QED  BY <5>4, <5>5
            <4>2. CASE ~\E p : BareAt(containers, c, p)
                <5>1. /\ IsSequence(r)
                      /\ \A k \in DOMAIN r : \E j \in DOMAIN containers[c] : r[k] = containers[c][j]
                    BY <2>0, FirstRemoved
                <5>2. \A j \in DOMAIN containers[c] : containers[c][j].proxy  BY <4>2 DEF BareAt
                <5>. QED  BY <5>1, <5>2
            <4>. QED  BY <4>1, <4>2
        <3>. HIDE DEF r
        <3>3. i \in DOMAIN Append(r, todo[1].proxy) /\ ~Append(r, todo[1].proxy)[i].proxy
            BY <1>6, <3>1 DEF BareAt
        <3>4. \/ Append(r, todo[1].proxy)[i] = todo[1].proxy
              \/ \E j \in DOMAIN r : Append(r, todo[1].proxy)[i] = r[j]
            BY <3>2, <3>3, Appended
        <3>. QED  BY <1>4, <3>2, <3>3, <3>4
    <2>. QED  BY <2>4, <2>5
<1>7. NoBare(containers')  BY <1>6 DEF NoBare
<1>8. WillSwap(containers', todo')  BY <1>2, <1>3, <1>7, SwapRest
<1>. QED  BY <1>7, <1>8

\* Any other step of a script leaves the vaults and the swap to come alone.
LEMMA VaultsUntouched ==
    ASSUME Sound, StepOfScript, ~OverwriteStep,
           ~(DeployStep /\ todo[1].at.contract \in VaultKinds)
    PROVE  /\ NoBare(containers') <=> NoBare(containers)
           /\ Swapped(containers', todo') /\ WillSwap(containers', todo')
<1>i. DeployInv /\ BaseInv /\ VaultsOK  BY DEF Sound, SoundInv
<1>m. Moves  BY DEF Moves, DeployNext, Progress
<1>1. running /\ 1 \in DOMAIN todo /\ Rest(todo, todo')  BY <1>i, StepIs, StepLeaves
<1>2. WillSwap(containers, todo) /\ Swapped(containers, todo)  BY <1>i, <1>1, VaultsAre
<1>3. \A c \in VaultKinds : containers'[c] = containers[c]  BY <1>m, VaultFrame
<1>4. /\ NoBare(containers') <=> NoBare(containers)
      /\ Swapped(containers', todo) <=> Swapped(containers, todo)
    BY <1>3, BareStays
<1>5. ~Swaps(todo, 1)  BY <1>i, StepKind DEF Swaps
<1>6. Swapped(containers', todo')
    <2>1. \A j : Swaps(todo, j) => /\ Swaps(todo', j - 1)
                                   /\ todo'[j - 1].implementation = todo[j].implementation
        BY <1>1, <1>5 DEF Swaps, Rest
    <2>. SUFFICES ASSUME NEW c \in VaultKinds, NEW i, BareAt(containers', c, i)
                  PROVE  /\ \E k : Swaps(todo', k) /\ todo'[k].implementation = containers'[c][i]
                         /\ \A k : BareAt(containers', c, k) => i = k
        BY DEF Swapped
    <2>2. /\ \E k : Swaps(todo, k) /\ todo[k].implementation = containers'[c][i]
          /\ \A k : BareAt(containers', c, k) => i = k
        BY <1>2, <1>4 DEF Swapped
    <2>. QED  BY <2>1, <2>2
<1>7. (\E i : DeploysVault(todo', i)) => NoBare(containers')
    <2>1. \A i : DeploysVault(todo', i) => DeploysVault(todo, i + 1)
        BY <1>1 DEF DeploysVault, Rest
    <2>. QED  BY <1>2, <1>4, <2>1 DEF WillSwap
<1>8. WillSwap(containers', todo')  BY <1>1, <1>2, <1>7, SwapRest
<1>. QED  BY <1>4, <1>6, <1>8

LEMMA VaultsStep ==
    ASSUME Sound, Moves, torn' = {}
    PROVE  VaultsOK'
<1>i. DeployInv /\ BaseInv /\ VaultsOK  BY DEF Sound, SoundInv
<1>1. Labelled(chain')  BY LabelledStep
<1>2. /\ running => WillSwap(containers, todo)
      /\ ~NoBare(containers) => running /\ Name \in vaults
      /\ Swapped(containers, todo)
    BY <1>i, VaultsAre
<1>3. \A s : NoBare(containers') => Swapped(containers', s)  BY DEF NoBare, Swapped
<1>4. CASE ~running'
    <2>1. ~StepOfScript /\ ~DeployStep /\ ~OverwriteStep
        BY <1>i, <1>4, StepIs DEF StepOfScript
    <2>2. \A c \in VaultKinds : containers'[c] = containers[c]  BY <2>1, VaultFrame
    <2>3. NoBare(containers)
        <3>1. SUFFICES ASSUME ~NoBare(containers) PROVE FALSE  OBVIOUS
        <3>2. running /\ Name \in vaults  BY <1>2, <3>1
        <3>3. Name \notin AlwaysRevert
            BY <3>2 DEF vaults, GenericSymbols, BalancerSymbols, AlwaysRevert
        <3>4. PICK c \in VaultKinds : \E i : BareAt(containers, c, i)  BY <3>1 DEF NoBare
        <3>10. PICK i : BareAt(containers, c, i)  BY <3>4
        <3>5. todo # <<>>
            <4>1. \E j : Swaps(todo, j)  BY <1>2, <3>10 DEF Swapped
            <4>. QED  BY <4>1 DEF Swaps
        <3>6. Finish \/ (Cut /\ ~Stuck) \/ UNCHANGED deployVars  BY <2>1, <3>2, <3>3, HowItEnds
        <3>7. ~Finish  BY <3>5 DEF Finish
        <3>8. BareVault /\ Stuck
            <4>1. BareVault  BY <3>10 DEF BareVault, BareAt, VaultKinds
            <4>. QED  BY <3>2, <4>1 DEF Stuck
        <3>9. UNCHANGED deployVars => running'
            BY <3>2 DEF deployVars, plan, running
        <3>. QED  BY <1>4, <3>6, <3>7, <3>8, <3>9
    <2>4. NoBare(containers')  BY <2>2, <2>3, BareStays
    <2>. QED  BY <1>1, <1>3, <1>4, <2>4, VaultsAre
<1>5. CASE running'
    <2>1. StartScript \/ StepOfScript \/ (running /\ UNCHANGED deployVars)
        BY <1>i, <1>5, HistoryFrame
    <2>2. CASE StartScript
        <3>1. UNCHANGED containers /\ ~running /\ todo' = Current.steps  BY <1>i, <2>2, StartIs
        <3>2. NoBare(containers) /\ NoBare(containers')  BY <1>2, <3>1
        <3>3. WillSwap(containers', todo')  BY <2>2, <3>1, <3>2, SwapsAtStart
        <3>. QED  BY <1>1, <1>3, <3>2, <3>3, VaultsAre
    <2>3. CASE StepOfScript
        <3>1. running /\ running' /\ Name' = Name  BY <1>i, <2>3, StepIs
        <3>v. vaults' = vaults  BY DEF vaults, GenericSymbols, BalancerSymbols
        <3>2. CASE DeployStep /\ todo[1].at.contract \in VaultKinds
            BY <1>1, <3>1, <3>2, VaultDeployed, VaultsAre
        <3>3. CASE OverwriteStep
            BY <1>1, <1>3, <3>1, <3>3, VaultSwapped, VaultsAre
        <3>4. CASE ~OverwriteStep /\ ~(DeployStep /\ todo[1].at.contract \in VaultKinds)
            BY <1>1, <1>2, <2>3, <3>1, <3>4, VaultsUntouched, VaultsAre
        <3>. QED  BY <3>2, <3>3, <3>4
    <2>4. CASE running /\ UNCHANGED deployVars
        <3>1. UNCHANGED <<containers, todo, next>>  BY <2>4 DEF deployVars, deployment, plan
        <3>2. Name' = Name  BY <3>1 DEF Name
        <3>3. /\ NoBare(containers') <=> NoBare(containers)
              /\ Swapped(containers', todo') <=> Swapped(containers, todo)
              /\ WillSwap(containers', todo') <=> WillSwap(containers, todo)
            BY <3>1
        <3>4. ~NoBare(containers') => running' /\ Name' \in vaults
            BY <1>2, <1>5, <3>2, <3>3
        <3>5. Swapped(containers', todo') /\ WillSwap(containers', todo')
            BY <1>2, <2>4, <3>3
        <3>. QED  BY <1>1, <3>4, <3>5, VaultsAre
    <2>. QED  BY <2>1, <2>2, <2>3, <2>4
<1>. QED  BY <1>4, <1>5

-----------------------------------------------------------------------------
(* What constructors kept.                                                 *)

\* What was right once stays right.
LEMMA KeptAsStays ==
    ASSUME Sound, Moves, NEW x, NEW word, KeptAs(x, word)
    PROVE  KeptAs(x, word)'
<1>i. DeployInv /\ BaseInv /\ BalancerOK /\ BalancerOK'
    BY BalancerStep DEF Sound, SoundInv
<1>c. KeyScript' = KeyScript /\ Kept' = Kept  BY DEF KeyScript, Kept
<1>1. CASE x = "GyroConfig" /\ Adopted(x) /\ word = Bound(x)
    <2>1. x \in DOMAIN Adoption  BY <1>1, AdoptionAre
    <2>2. Adopted(x)' /\ Bound(x)' = Bound(x)  BY <1>i, <1>1, <2>1, AdoptedStays
    <2>. QED  BY <1>1, <2>2 DEF KeptAs
<1>2. CASE x \in Kept /\ There(x) /\ word = Bound(x)
    <2>1. x \in DOMAIN Makers /\ x \notin DOMAIN Adoption  BY <1>2, KeptAre
    <2>2. There(x)' /\ Bound(x)' = Bound(x)  BY <1>i, <1>2, <2>1, BoundStays
    <2>. QED  BY <1>c, <1>2, <2>2 DEF KeptAs
<1>3. CASE /\ x \in DOMAIN KeyScript /\ KeyScript[x] \in done /\ x \in DOMAIN config
           /\ word = config[x].value
    <2>1. KeyScript[x] \in done'  BY <1>i, <1>3, HistoryFrame
    <2>2. CASE x = "BALANCER_VAULT"
        <3>1. KeyScript[x] = "config.set_initial_config"  BY <2>2 DEF KeyScript
        <3>2. x \in DOMAIN config' /\ config'[x].value = Outsider(x)
            BY <1>i, <2>1, <2>2, <3>1 DEF BalancerOK, Outsider
        <3>3. config[x].value = Outsider(x)  BY <1>i, <1>3, <2>2 DEF BalancerOK
        <3>. QED  BY <1>c, <1>3, <2>1, <3>2, <3>3 DEF KeptAs
    <2>3. CASE x # "BALANCER_VAULT"
        <3>1. x \in DOMAIN Roles /\ Owner[x] = KeyScript[x]
            BY <1>3, <2>3 DEF KeyScript, Owner, Roles
        <3>2. ~(running /\ Name = Owner[x])  BY <1>3, <3>1, DoneIsOver
        <3>3. x \in DOMAIN config' /\ config'[x] = config[x]  BY <1>3, <3>1, <3>2, KeyStays
        <3>. QED  BY <1>c, <1>3, <2>1, <3>3 DEF KeptAs
    <2>. QED  BY <2>2, <2>3
<1>. QED  BY <1>1, <1>2, <1>3 DEF KeptAs

LEMMA PlacedKeeps ==
    ASSUME NEW a, NEW g, NEW kept, NEW l, Placed(a, g, kept, l)
    PROVE  chain'[a].kept = kept
BY DEF Placed

\* What a contract that a step deploys keeps is right when it is deployed.
LEMMA DeployedKeeps ==
    ASSUME Sound, DeployStep, NEW x \in DOMAIN chain'[todo[1].at].kept
    PROVE  KeptAs(x, chain'[todo[1].at].kept[x])
<1>i. DeployInv /\ BaseInv /\ FitsOK /\ NeedsOK  BY DEF Sound, SoundInv
<1>1. StepOfScript /\ todo[1].op = "deploy"
      /\ chain'[todo[1].at].kept = KeptBy(todo[1])
    <2>1. StepOfScript /\ todo[1].op = "deploy"
          /\ Placed(todo[1].at, todo[1].governor, KeptBy(todo[1]), "")
        <3>. HIDE DEF Placed
        <3>. QED  BY <1>i, DeployIs
    <2>2. PICK l : Placed(todo[1].at, todo[1].governor, KeptBy(todo[1]), l)  BY ONLY <2>1, Zenon
    <2>3. chain'[todo[1].at].kept = KeptBy(todo[1])  BY ONLY <2>2, PlacedKeeps
    <2>. QED  BY <2>1, <2>3
<1>2. running /\ 1 \in DOMAIN todo  BY <1>i, <1>1, StepIs
<1>3. DeployFits(Name, todo[1])  BY <1>i, <1>1, <1>2 DEF FitsOK, Fits
<1>4. \A n : NeededBy(Name, n) =>
          n \in done /\ \A c \in DOMAIN Adoption : Adoption[c] = n => Adopted(c)
    BY <1>i, <1>2 DEF NeedsOK
<1>. DEFINE step == todo[1]
            kept == KeptBy(step)
<1>5. /\ DOMAIN kept = DOMAIN step.kept \union step.keys
      /\ \A c \in DOMAIN step.kept : kept[c] = step.kept[c]
      /\ \A c \in step.keys \ DOMAIN step.kept : kept[c] = config[c].value
    BY DEF KeptBy
<1>6. x \in DOMAIN kept /\ chain'[step.at].kept[x] = kept[x]  BY <1>1
<1>. HIDE DEF kept
<1>7. CASE x \in DOMAIN step.kept
    <2>1. kept[x] = Bound(x)  BY <1>3, <1>5, <1>7 DEF DeployFits
    <2>2. CASE x = "GyroConfig" /\ NeededBy(Name, "config.proxy")
        <3>1. Adopted(x)  BY <1>4, <2>2, AdoptionAre
        <3>. QED  BY <1>6, <2>1, <2>2, <3>1 DEF KeptAs
    <2>3. CASE x \in Kept /\ There(x)  BY <1>6, <2>1, <2>3 DEF KeptAs
    <2>. QED  BY <1>3, <1>7, <2>2, <2>3 DEF DeployFits
<1>8. CASE x \in step.keys \ DOMAIN step.kept
    <2>1. x \in DOMAIN KeyScript /\ NeededBy(Name, KeyScript[x])  BY <1>3, <1>8 DEF DeployFits
    <2>2. KeyScript[x] \in done  BY <1>4, <2>1
    <2>3. x \in DOMAIN config  BY <2>1, <2>2, ReadKeys
    <2>. QED  BY <1>5, <1>6, <1>8, <2>1, <2>2, <2>3 DEF KeptAs
<1>. QED  BY <1>5, <1>6, <1>7, <1>8

\* The oracle deployed by hand keeps the configuration, whose proxy is there: the
\* script that failed to deploy it needs it too.
LEMMA ByHandKeeps ==
    ASSUME Sound, DeployByHand, NEW x \in DOMAIN chain'[New(HandOracle)].kept
    PROVE  KeptAs(x, chain'[New(HandOracle)].kept[x])
<1>i. DeployInv /\ BaseInv /\ PastOK /\ torn = {}  BY DEF Sound, SoundInv
<1>1. /\ chain'[New(HandOracle)].kept = [c \in {"GyroConfig"} |-> Config]
      /\ "vault_price_oracle.generic" \in Passed
    <2>1. /\ Placed(New(HandOracle), NoAddress, [c \in {"GyroConfig"} |-> Config], "")
          /\ "vault_price_oracle.generic" \in Passed
        <3>. HIDE DEF Placed
        <3>. QED  BY <1>i, HandPlaces
    <2>2. PICK l : Placed(New(HandOracle), NoAddress, [c \in {"GyroConfig"} |-> Config], l)
        BY ONLY <2>1, Zenon
    <2>3. chain'[New(HandOracle)].kept = [c \in {"GyroConfig"} |-> Config]
        BY ONLY <2>2, PlacedKeeps
    <2>. QED  BY <2>1, <2>3
<1>2. "vault_price_oracle.generic" \in done \union reverted
    BY <1>i, <1>1 DEF DeployInv, NothingLeftOut
<1>3. NeededBy("vault_price_oracle.generic", "config.proxy")
    BY DEF NeededBy, Needs, WithConfig
<1>4. Adopted("GyroConfig")  BY <1>i, <1>2, <1>3, AdoptionAre DEF PastOK
<1>5. x = "GyroConfig" /\ chain'[New(HandOracle)].kept[x] = Bound("GyroConfig")
    BY <1>1 DEF Config
<1>. QED  BY <1>4, <1>5 DEF KeptAs

LEMMA KeptStep ==
    ASSUME Sound, Moves
    PROVE  KeptOK'
<1>i. DeployInv /\ BaseInv /\ KeptOK  BY DEF Sound, SoundInv
<1>1. ASSUME NEW a \in DOMAIN chain', NEW x \in DOMAIN chain'[a].kept
      PROVE  KeptAs(x, chain'[a].kept[x])
    <2>1. CASE a \in DOMAIN chain
        <3>1. chain'[a].kept = chain[a].kept  BY <1>i, <2>1, ChainFrame DEF ChainGrows
        <3>. QED  BY <1>i, <1>1, <2>1, <3>1 DEF KeptOK
    <2>2. CASE a \notin DOMAIN chain
        <3>1. \/ DeployStep /\ a = todo[1].at
              \/ ProxyStep /\ a = todo[1].at
              \/ DeployByHand /\ a = New(HandOracle)
            BY <1>i, <1>1, <2>2, ChainFrame DEF ChainGrows
        <3>2. CASE DeployStep /\ a = todo[1].at  BY <1>1, <3>2, DeployedKeeps
        <3>3. CASE ProxyStep /\ a = todo[1].at
            <4>1. chain'[a].kept = [k \in {} |-> {}]  BY <1>i, <3>3, ProxyIs DEF Placed
            <4>. QED  BY <1>1, <4>1
        <3>4. CASE DeployByHand /\ a = New(HandOracle)  BY <1>1, <3>4, ByHandKeeps
        <3>. QED  BY <3>1, <3>2, <3>3, <3>4
    <2>. QED  BY <2>1, <2>2
<1>2. ASSUME NEW a \in DOMAIN chain', NEW x \in DOMAIN chain'[a].kept,
             NEW w, w = chain'[a].kept[x]
      PROVE  \/ x = "GyroConfig" /\ Adopted(x)' /\ w = Bound(x)'
             \/ x \in Kept' /\ There(x)' /\ w = Bound(x)'
             \/ x \in DOMAIN KeyScript' /\ KeyScript'[x] \in done' /\ x \in DOMAIN config'
                /\ w = config'[x].value
    <2>1. KeptAs(x, w)  BY <1>1, <1>2
    <2>2. KeptAs(x, w)'  BY <2>1, KeptAsStays
    <2>. QED  BY <2>2 DEF KeptAs
<1>. QED  BY <1>2 DEF KeptOK, KeptAs

-----------------------------------------------------------------------------
(* All of it holds, always.                                                *)

LEMMA SoundStep ==
    ASSUME Sound, Moves, torn' = {}
    PROVE  SoundInv'
<1>1. RevertsOK' /\ PastOK' /\ NeedsOK' /\ GovernorsOK' /\ FitsOK' /\ PrintedOK'
    BY RevertsStep, PastStep, NeedsStep, GovernorsStep, FitsStep, PrintedStep
<1>2. LeadsOK' /\ BalancerOK' /\ RegistriesAre' /\ InitializeOK' /\ RangesOK'
    BY LeadsStep, BalancerStep, RegistriesStep, InitializeStep, RangesStep
<1>3. ChecksOK' /\ FeedsOK' /\ FeesOK' /\ VaultsOK' /\ KeptOK'
    BY ChecksStep, FeedsStep, FeesStep, VaultsStep, KeptStep
<1>. QED  BY <1>1, <1>2, <1>3 DEF SoundInv

LEMMA WiredInit == ASSUME DeployInit PROVE WiredInv
<1>1. /\ DOMAIN chain = {} /\ containers = [c \in Contracts |-> <<>>] /\ DOMAIN config = {}
      /\ DOMAIN registries = {} /\ lists = {} /\ printed = {}
      /\ next = 1 /\ phase = "ready" /\ todo = <<>> /\ handover = "none"
      /\ done = {} /\ reverted = {} /\ torn = {}
    BY DEF DeployInit, InitDeployment, EmptyConfig
<1>2. ~running /\ Passed = {}
    <2>1. ~running  BY <1>1 DEF running
    <2>2. 1..(next - 1) = {}  BY <1>1
    <2>. QED  BY <2>1, <2>2 DEF Passed
<1>3. \A c \in Contracts : containers[c] = <<>> /\ Len(containers[c]) = 0
                           /\ DOMAIN containers[c] = {}
    <2>1. Len(<<>>) = 0  BY Singles
    <2>. QED  BY <1>1, <2>1, EmptyDomain
<1>4. BaseInv
    <2>1. SinglesOK  BY <1>2, <1>3, ContractsAre DEF SinglesOK
    <2>2. NumbersOK /\ HistoryOK /\ NothingFrozen  BY <1>1 DEF NumbersOK, HistoryOK, NothingFrozen
    <2>. QED  BY <2>1, <2>2 DEF BaseInv
<1>5. RevertsOK /\ PastOK /\ NeedsOK /\ GovernorsOK /\ FitsOK /\ PrintedOK
    BY <1>1, <1>2 DEF RevertsOK, PastOK, NeedsOK, GovernorsOK, FitsOK, PrintedOK
<1>6. LeadsOK /\ BalancerOK
    <2>1. LeadsOK  BY <1>1, <1>2 DEF LeadsOK, LeadOK
    <2>. QED  BY <1>1, <1>2, <2>1 DEF BalancerOK
<1>7. RegistriesAre /\ InitializeOK /\ RangesOK
    BY <1>1, <1>2 DEF RegistriesAre, InitializeOK, RangesOK
<1>8. ChecksOK /\ FeedsOK /\ FeesOK
    BY <1>1, <1>2 DEF ChecksOK, FeedsOK, FeesOK
<1>9. VaultsOK
    <2>1. VaultKinds \subseteq Contracts  BY DEF VaultKinds, Contracts
    <2>. QED  BY <1>1, <1>2, <1>3, <2>1 DEF VaultsOK
<1>10. KeptOK  BY <1>1 DEF KeptOK
<1>. QED  BY <1>4, <1>5, <1>6, <1>7, <1>8, <1>9, <1>10 DEF WiredInv, SoundInv

LEMMA WiredMoves ==
    ASSUME ChainId = 1, PlanInOrder, DeployInv, WiredInv, Moves
    PROVE  WiredInv'
<1>1. BaseInv'  BY BaseStep DEF WiredInv
<1>2. ASSUME torn' = {} PROVE SoundInv'
    <2>1. torn = {}  BY <1>2, HistoryFrame DEF WiredInv
    <2>2. Sound  BY <2>1 DEF Sound, WiredInv
    <2>. QED  BY <1>2, <2>2, SoundStep
<1>. QED  BY <1>1, <1>2 DEF WiredInv

LEMMA MovesOfReaders ==
    ASSUME [ReadersNext]_readVars
    PROVE  Moves
<1>1. ASSUME NEW script \in DOMAIN Program, StartReader(script) PROVE UNCHANGED deployVars
    BY <1>1 DEF StartReader
<1>2. ReaderDies \/ ReaderEnds => UNCHANGED deployVars  BY DEF ReaderDies, ReaderEnds
<1>3. UNCHANGED readVars => UNCHANGED deployVars
    BY DEF readVars, deployVars, deployment
<1>. QED  BY <1>1, <1>2, <1>3, ReadersStep, ReadsFrame DEF Deploys, Moves

\* On mainnet, with the scripts in an order in which each comes after those it needs.
THEOREM WiredInvHolds ==
    ASSUME ChainId = 1, PlanInOrder
    PROVE  ReadersSpec => [](DeployInv /\ WiredInv)
<1>1. ReadersInit => ReadersInv /\ WiredInv  BY ReadersInvInit, WiredInit DEF ReadersInit
<1>2. ReadersInv /\ WiredInv /\ [ReadersNext]_readVars => (ReadersInv /\ WiredInv)'
    <2>. SUFFICES ASSUME ReadersInv, WiredInv, [ReadersNext]_readVars
                  PROVE  ReadersInv' /\ WiredInv'
        OBVIOUS
    <2>1. Moves  BY MovesOfReaders
    <2>2. WiredInv'  BY <2>1, WiredMoves DEF ReadersInv
    <2>. QED  BY <2>2, ReadersInvStep
<1>3. ReadersInv => DeployInv  BY DEF ReadersInv
<1>. QED  BY <1>1, <1>2, <1>3, PTL DEF ReadersSpec

-----------------------------------------------------------------------------
(* What follows.                                                           *)

\* A constructor's word for a contract or a key, once nothing runs.
LEMMA KeptHolds ==
    ASSUME Sound, ~running
    PROVE  KeptStillHolds
<1>i. DeployInv /\ BaseInv /\ KeptOK /\ ChainId = 1  BY DEF Sound, SoundInv
<1>c. /\ "GyroConfig" \in Contracts /\ Kept \subseteq Contracts
      /\ DOMAIN KeyScript \cap Contracts = {}
      /\ DOMAIN KeyScript \subseteq AddressKeys
    <2>1. "GyroConfig" \in Contracts /\ Kept \subseteq Contracts  BY DEF Contracts, Kept
    <2>2. DOMAIN KeyScript \cap Contracts = {}
        BY DEF KeyScript, Contracts, VaultOracles
    <2>3. DOMAIN KeyScript \subseteq AddressKeys  BY DEF KeyScript, AddressKeys, Roles
    <2>. QED  BY <2>1, <2>2, <2>3
<1>1. ASSUME NEW contract \in Contracts, containers[contract] # <<>>,
             NEW x \in DOMAIN chain[Bound(contract)].kept
      PROVE  chain[Bound(contract)].kept[x] = IF x \in Contracts THEN Bound(x) ELSE KeyAddress(x)
    <2>. DEFINE word == chain[Bound(contract)].kept[x]
    <2>. HIDE DEF Contracts, KeyScript, Kept, AddressKeys
    <2>1. Bound(contract) \in DOMAIN chain  BY <1>i, <1>1, BoundIs DEF There
    <2>2. KeptAs(x, word)  BY <1>i, <1>1, <2>1 DEF KeptOK
    <2>3. CASE x \in Contracts
        <3>1. x \notin DOMAIN KeyScript  BY <1>c, <2>3
        <3>2. word = Bound(x)  BY <2>2, <3>1 DEF KeptAs
        <3>. QED  BY <2>3, <3>2
    <2>4. CASE x \notin Contracts
        <3>1. x \in DOMAIN KeyScript /\ x \in DOMAIN config /\ word = config[x].value
            BY <1>c, <2>2, <2>4 DEF KeptAs
        <3>2. KeyAddress(x) = word  BY <1>c, <1>i, <3>1, KeyIs
        <3>. QED  BY <2>4, <3>2
    <2>. QED  BY <2>3, <2>4
<1>. QED  BY <1>1 DEF KeptStillHolds

\* When a complete plan is over, every script ran to its end but those that revert.
LEMMA AllDone ==
    ASSUME Sound, PlanIsComplete, next > Len(Plan)
    PROVE  /\ \A name \in ScriptNames : name \in Passed
           /\ \A name \in ScriptNames \ AlwaysRevert : name \in done
<1>i. DeployInv /\ RevertsOK /\ torn = {}  BY DEF Sound, SoundInv
<1>1. next \in Nat /\ Len(Plan) \in Nat /\ DOMAIN Plan = 1..Len(Plan)
    BY <1>i, PlanLength DEF DeployInv, PlanOK
<1>2. ASSUME NEW name \in ScriptNames PROVE name \in Passed
    <2>1. PICK i \in DOMAIN Plan : Plan[i] = name  BY DEF PlanIsComplete
    <2>2. i \in 1..(next - 1)  BY <1>1, <2>1
    <2>. QED  BY <2>1, <2>2 DEF Passed
<1>3. Passed \subseteq done \union reverted  BY <1>i DEF DeployInv, NothingLeftOut
<1>. QED  BY <1>i, <1>2, <1>3 DEF RevertsOK

LEMMA InUseGoverned ==
    ASSUME Sound, NEW k \in DOMAIN Roles, InUse(Roles[k]) \in DOMAIN chain
    PROVE  GovernorOf(InUse(Roles[k])) \in {Governance, Multisig}
<1>i. ChainId = 1 /\ DeployInv /\ BaseInv /\ GovernorsOK  BY DEF Sound, SoundInv
<1>. DEFINE a == InUse(Roles[k])
<1>1. a.contract = Roles[k] /\ (a.proxy <=> Roles[k] \in Upgradeable)
    <2>1. CASE Roles[k] \in Upgradeable  BY <2>1 DEF InUse, Address
    <2>2. CASE Roles[k] \notin Upgradeable
        <3>1. Roles[k] \in Contracts /\ Roles[k] \notin DOMAIN Adoption \union VaultKinds
            BY <2>2, RolesKinds
        <3>2. a = Bound(Roles[k])  BY <2>2 DEF InUse
        <3>3. There(Roles[k])
            <4>1. SUFFICES ASSUME ~There(Roles[k]) PROVE FALSE  OBVIOUS
            <4>2. a = NoAddress  BY <3>2, <4>1 DEF Bound, There
            <4>3. NoAddress.nth = 0  BY DEF NoAddress, Outsider, Address
            <4>4. a.nth \in 1..Count(a.contract, a.proxy)  BY <1>i DEF BaseInv, NumbersOK
            <4>. QED  BY <4>2, <4>3, <4>4
        <3>. HIDE DEF Contracts
        <3>. QED  BY <1>i, <2>2, <3>1, <3>2, <3>3, BoundIs
    <2>. QED  BY <2>1, <2>2
<1>2. Governed(a) \/ OfMultisig(a)
    <2>1. Roles[k] \in Upgradeable =>
              Roles[k] \in {"VaultRegistry", "AssetRegistry", "Motherboard", "GydToken", "Reserve"}
        BY DEF Upgradeable
    <2>2. Roles[k] \notin Upgradeable =>
              Roles[k] \in {"ReserveManager", "StaticPercentageFeeHandler", "RootSafetyCheck",
                            "PrimaryAMMV1", "ReserveStewardshipIncentives", "GydRecovery"}
        BY DEF Upgradeable, Roles
    <2>. HIDE DEF a, Roles
    <2>. QED  BY <1>1, <2>1, <2>2 DEF Governed, OfMultisig
<1>3. chain[a].governor \in {Governance, Multisig}  BY <1>i, <1>2 DEF GovernorsOK
<1>. QED  BY <1>3 DEF GovernorOf

LEMMA AllLead ==
    ASSUME Sound, PlanIsComplete, next > Len(Plan)
    PROVE  KeysLead
<1>i. DeployInv /\ LeadsOK  BY DEF Sound, SoundInv
<1>1. ASSUME NEW k \in DOMAIN Roles
      PROVE  KeyAddress(k) = InUse(Roles[k]) /\ GovernorOf(KeyAddress(k)) \in {Governance, Multisig}
    <2>1. Owner[k] \in ScriptNames  BY DEF Owner, Roles, ScriptNames
    <2>2. Leads(k)  BY <1>i, <2>1, AllDone DEF LeadsOK, LeadOK
    <2>3. k \in AddressKeys  BY RolesKinds
    <2>4. KeyAddress(k) = InUse(Roles[k])  BY <1>i, <2>2, <2>3, KeyIs DEF Leads
    <2>. QED  BY <2>2, <2>4, InUseGoverned DEF Leads
<1>. QED  BY <1>1 DEF KeysLead

LEMMA AllListed ==
    ASSUME Sound, PlanIsComplete, next > Len(Plan)
    PROVE  /\ StableAssetsHaveRanges /\ ChecksRegistered /\ AssetsHaveFeeds
           /\ VaultsHaveFees
<1>i. /\ DeployInv /\ ChainId = 1 /\ RegistriesAre /\ InitializeOK /\ RangesOK /\ ChecksOK
      /\ FeedsOK /\ FeesOK
    BY DEF Sound, SoundInv
<1>1. /\ "asset_registry.proxy" \in done /\ SetRanges \in done /\ Register \in done
      /\ SetFeeds \in done /\ SetFees \in done
    <2>1. {"asset_registry.proxy", SetRanges, Register, SetFeeds, SetFees}
              \subseteq ScriptNames \ AlwaysRevert
        BY DEF SetRanges, Register, SetFeeds, SetFees, ScriptNames, AlwaysRevert
    <2>. QED  BY <2>1, AllDone
<1>2. \A k \in DOMAIN Roles : KeyAddress(k) = InUse(Roles[k])  BY AllLead DEF KeysLead
<1>3. AssetsHere \in DOMAIN registries  BY <1>1, AssetsAre
<1>4. StableAssetsHaveRanges
    BY <1>i, <1>1, <1>3 DEF RegistriesAre, RangesOK, StableAssetsHaveRanges, HasAssetRange, AssetsHere
<1>5. ChecksRegistered
    <2>1. KeyAddress("ROOT_SAFETY_CHECK") = Root
        <3>1. "ROOT_SAFETY_CHECK" \in DOMAIN Roles /\ Roles["ROOT_SAFETY_CHECK"] = "RootSafetyCheck"
            BY DEF Roles
        <3>. QED  BY <1>2, <3>1 DEF InUse, Upgradeable, Root
    <2>2. ASSUME NEW m \in lists, m[1] = Root, m[2] = "checks" PROVE m[3] \in Checks
        BY <1>i, <2>2 DEF ChecksOK
    <2>3. ASSUME NEW e \in Checks
          PROVE  \E m \in lists : m[1] = Root /\ m[2] = "checks" /\ m[3] = e
        <3>1. <<Root, "checks", e>> \in lists  BY <1>i, <1>1, <2>3 DEF ChecksOK
        <3>. QED  BY <3>1
    <2>4. Listed(Root, "checks") = Checks  BY <2>2, <2>3 DEF Listed
    <2>. QED  BY <2>1, <2>4 DEF ChecksRegistered, Checks
<1>6. AssetsHaveFeeds
    <2>1. registries[AssetsHere].addresses \subseteq Tokens  BY <1>i, <1>3 DEF RegistriesAre
    <2>2. ASSUME NEW n \in Tokens
          PROVE  n \in {a.contract : a \in Listed(Bound("ChainlinkPriceOracle"), "feeds")}
        <3>1. n \in get_chainlink_feeds  BY <1>i DEF get_chainlink_feeds, Tokens, Ranged
        <3>2. FeedOf(n) \in lists  BY <1>i, <1>1, <3>1 DEF FeedsOK, SetFeeds
        <3>3. \E m \in lists : m[1] = Bound("ChainlinkPriceOracle") /\ m[2] = "feeds" /\ m[3] = Outsider(n)
            BY <3>2 DEF FeedOf
        <3>4. Outsider(n) \in Listed(Bound("ChainlinkPriceOracle"), "feeds")  BY <3>3 DEF Listed
        <3>5. Outsider(n).contract = n  BY DEF Outsider, Address
        <3>. QED  BY <3>4, <3>5
    <2>. QED  BY <2>1, <2>2 DEF AssetsHaveFeeds, AssetsHere
<1>7. VaultsHaveFees
    <2>1. KeyAddress("FEE_HANDLER") = Handler
        <3>1. "FEE_HANDLER" \in DOMAIN Roles /\ Roles["FEE_HANDLER"] = "StaticPercentageFeeHandler"
            BY DEF Roles
        <3>. QED  BY <1>2, <3>1 DEF InUse, Upgradeable, Handler
    <2>2. ASSUME NEW m \in lists, m[1] = Handler, m[2] = "fees" PROVE m[3] \in AllVaults
        BY <1>i, <2>2 DEF FeesOK
    <2>3. ASSUME NEW e \in AllVaults
          PROVE  \E m \in lists : m[1] = Handler /\ m[2] = "fees" /\ m[3] = e
        <3>1. <<Handler, "fees", e>> \in lists  BY <1>i, <1>1, <2>3 DEF FeesOK, SetFees
        <3>. QED  BY <3>1
    <2>4. Listed(Handler, "fees") = AllVaults  BY <2>2, <2>3 DEF Listed
    <2>5. {_get_all_vault_addresses[i] : i \in DOMAIN _get_all_vault_addresses} = AllVaults
        BY <1>i, VaultAddresses DEF DeployInv
    <2>. QED  BY <2>1, <2>4, <2>5 DEF VaultsHaveFees
<1>. QED  BY <1>4, <1>5, <1>6, <1>7

\* On mainnet, with every script after those it needs: no script of the plan ever
\* reverts but the three that always do, unless a cut tore something before.
THEOREM NoOtherReverts ==
    ASSUME ChainId = 1, PlanInOrder
    PROVE  ReadersSpec => []OnlyKnownReverts
<1>1. WiredInv => OnlyKnownReverts
    BY DEF WiredInv, SoundInv, RevertsOK, OnlyKnownReverts
<1>. QED  BY <1>1, WiredInvHolds, PTL

\* Under the same conditions, between two scripts: what the constructor of a listed
\* contract read and kept is what the configuration and the containers still say.
THEOREM NothingKeptIsStale ==
    ASSUME ChainId = 1, PlanInOrder
    PROVE  ReadersSpec => []KeptStillHolds
<1>1. DeployInv /\ WiredInv => KeptStillHolds
    <2>1. CASE running \/ torn # {}  BY <2>1 DEF KeptStillHolds
    <2>2. CASE ~running /\ torn = {}  BY <2>2, KeptHolds DEF WiredInv, Sound
    <2>. QED  BY <2>1, <2>2
<1>. QED  BY <1>1, WiredInvHolds, PTL

\* And when the plan holds every script: at its end, unless a cut tore something,
\* every key leads to the contract in use, governed by the proxy or the multisig,
\* every stable asset has a range, both checks hang on the root check, every asset
\* has a feed and every vault its fees, however often scripts died on the way.
THEOREM EndsWired ==
    ASSUME ChainId = 1, PlanInOrder, PlanIsComplete
    PROVE  ReadersSpec => []WiredAtTheEnd
<1>1. DeployInv /\ WiredInv => WiredAtTheEnd
    <2>. SUFFICES ASSUME DeployInv, WiredInv PROVE WiredAtTheEnd  OBVIOUS
    <2>1. CASE next > Len(Plan) /\ torn = {}
        <3>1. Sound  BY <2>1 DEF WiredInv, Sound
        <3>. QED  BY <2>1, <3>1, AllLead, AllListed DEF WiredAtTheEnd
    <2>2. CASE ~(next > Len(Plan) /\ torn = {})  BY <2>2 DEF WiredAtTheEnd
    <2>. QED  BY <2>1, <2>2
<1>. QED  BY <1>1, WiredInvHolds, PTL

-----------------------------------------------------------------------------
(* What a cut can tear.                                                    *)

\* The steps of the two scripts that are written for the state they start in: the one
\* that always raises has no other step, and the one that sets the feeds has none for a
\* feed that is set.
Generic == "vault_price_oracle.generic"

SetsOneOf(feeds, step) ==
    step.op = "call" /\ step.list = "feeds" /\ \E a \in feeds : step.element = Outsider(a)

RepeatsOK ==
    running /\ Name = Generic => todo # <<>> /\ \A i \in DOMAIN todo : todo[i].op = "raise"

LEMMA RepeatsStep ==
    ASSUME Sound, RepeatsOK, Moves
    PROVE  RepeatsOK'
<1>i. DeployInv  BY DEF Sound
<1>s. Generic' = Generic  BY DEF Generic
<1>1. CASE StartScript
    <2>1. Name' = Name /\ todo' = Current.steps  BY <1>i, <1>1, StartIs
    <2>2. ASSUME Name = Generic
          PROVE  todo' # <<>> /\ \A i \in DOMAIN todo' : todo'[i].op = "raise"
        <3>1. todo' = <<Raise>>
            BY <2>1, <2>2, ScriptIs DEF Current, Generic, vault_price_oracle_generic, Steps
        <3>. QED  BY <3>1 DEF Raise
    <2>. QED  BY <1>s, <2>1, <2>2 DEF RepeatsOK
<1>2. CASE StepOfScript
    <2>1. running /\ Name' = Name /\ 1 \in DOMAIN todo /\ Executable(todo[1])
        BY <1>i, <1>2, StepIs
    <2>2. todo[1].op # "raise"
        <3>1. \A step : step.op = "raise" => ~Executable(step)  BY DEF Executable
        <3>. QED  BY <2>1, <3>1
    <2>. QED  BY <1>s, <2>1, <2>2 DEF RepeatsOK
<1>3. CASE Ends \/ ByHand  BY <1>i, <1>3, EndIs, HandIs DEF RepeatsOK
<1>4. CASE UNCHANGED deployVars
    <2>1. todo' = todo /\ Name' = Name /\ (running' <=> running)
        BY <1>4 DEF deployVars, plan, running, Name
    <2>. QED  BY <1>s, <2>1 DEF RepeatsOK
<1>. QED  BY <1>1, <1>2, <1>3, <1>4, MovesAre

\* The first step of a script that always reverts is refused only if it raises, and that
\* of the ranges sets one.
LEMMA FirstSteps ==
    ASSUME ChainId = 1, NEW name
    PROVE  LET s == Script(name).steps IN
           /\ name \in AlwaysRevert \ {Generic} => s[1].op # "call"
           /\ name = SetRanges => s[1].name \in Ranged /\ s[1].list = "ranges"
<1>j. \A a, b, c : (<<a, b>> \o <<c>>)[1] = <<a, b>>[1]
    <2>. SUFFICES ASSUME NEW a, NEW b, NEW c PROVE (<<a, b>> \o <<c>>)[1] = <<a, b>>[1]
        OBVIOUS
    <2>1. IsSequence(<<a, b>>) /\ IsSequence(<<c>>) /\ Len(<<a, b>>) = 2 /\ Len(<<c>>) = 1
        BY Singles
    <2>. QED  BY <2>1, JoinedAt
<1>1. ASSUME name = "motherboard.proxy"
      PROVE  Script(name).steps[1].op # "call"
    <2>. DEFINE a == DeployProxy(Bound("Motherboard"), Governance, "")
                b == SetAddress("MOTHERBOARD", NewProxy(Bound("Motherboard").contract))
                c == Call(Governance, Bound("Reserve"), "managers", NewProxy("Motherboard"))
    <2>1. "MOTHERBOARD" \in AddressKeys  BY DEF AddressKeys, Roles
    <2>2. \A l : deploy_proxy(Bound("Motherboard"), Governance, "MOTHERBOARD", l, FALSE)
              = <<DeployProxy(Bound("Motherboard"), Governance, l), b>>
        BY <2>1, ProxyScript
    <2>3. motherboard_proxy.steps
              = deploy_proxy(Bound("Motherboard"), Governance, "MOTHERBOARD", "", FALSE)
                \o <<c>>
        BY DEF motherboard_proxy, Steps
    <2>4. a.op = "proxy"  BY DEF DeployProxy
    <2>5. motherboard_proxy.steps = <<a, b>> \o <<c>>  BY <2>2, <2>3
    <2>. HIDE DEF a, b, c
    <2>6. (<<a, b>> \o <<c>>)[1] = <<a, b>>[1]  BY <1>j
    <2>7. <<a, b>>[1] = a  OBVIOUS
    <2>. QED  BY <1>1, <2>4, <2>5, <2>6, <2>7, ScriptIs
<1>2. ASSUME name = "vaults.set_vaults"
      PROVE  Script(name).steps[1].op # "call"
    <2>. DEFINE a(batch) == PrintCalls(batch)
                c == Call(Deployer, Bound("ReserveManager"), "vaults", NoAddress)
    <2>1. \A batch : a(batch).op = "print"  BY DEF PrintCalls
    <2>2. set_vaults.steps
              = <<a(OnTarget(Bound("ReserveManager"), "vaults", get_vault_configs)), c>>
        BY DEF set_vaults, Steps
    <2>. HIDE DEF a, c
    <2>3. set_vaults.steps[1].op = "print"  BY <2>1, <2>2
    <2>. QED  BY <1>2, <2>2, <2>3, ScriptIs
<1>3. ASSUME name = SetRanges
      PROVE  Script(name).steps[1].name \in Ranged /\ Script(name).steps[1].list = "ranges"
    <2>. DEFINE s == OnAssets("ranges", RangeNames)
    <2>1. set_asset_ranges.steps = s  BY DEF set_asset_ranges, Steps, RangeNames
    <2>2. RangeNames[1] \in Ranged  BY DEF RangeNames, Ranged
    <2>3. s[1].list = "ranges" /\ s[1].name = RangeNames[1]
        BY NamesAre, OnAssetsAre
    <2>. HIDE DEF s
    <2>. QED  BY <1>3, <2>1, <2>2, <2>3, ScriptIs DEF SetRanges
<1>. QED  BY <1>1, <1>2, <1>3 DEF AlwaysRevert, Generic

\* A script that runs finds, if it is started again, what it found.
LEMMA AgainIsGood ==
    ASSUME Sound, running, Name \notin vaults
    PROVE  /\ Name \in ScriptNames /\ Good(Name, Current.steps) /\ Handed(Name)
           /\ Name = SetFees => \A e \in AllVaults : HasConfig(e)
<1>i. ChainId = 1 /\ DeployInv /\ ContainersOK /\ PlanOK /\ VaultsOK /\ NeedsOK
    BY DEF Sound, SoundInv, DeployInv
<1>1. Name \in ScriptNames
    <2>1. next \in DOMAIN Plan  BY <1>i, PlanLength DEF PlanOK, running
    <2>. QED  BY <2>1, PlanLength, PlanAssumption DEF Name
<1>2. ASSUME NEW e \in AllVaults PROVE HasConfig(e)
    <2>1. PICK c \in VaultKinds : \E i \in DOMAIN containers[c] : e = containers[c][i]
        BY <1>2 DEF AllVaults
    <2>2. PICK i \in DOMAIN containers[c] : e = containers[c][i]  BY <2>1
    <2>3. e.proxy  BY <2>2, <1>i DEF VaultsOK
    <2>4. e \in DOMAIN chain /\ e.contract \in VaultKinds  BY <2>2, <1>i, VaultsAt
    <2>. QED  BY <2>3, <2>4, <1>i DEF VaultsOK, HasConfig
<1>3. Handed(Name) /\ FeesReady(Name)  BY <1>i, <1>2 DEF NeedsOK, FeesReady
<1>. QED  BY <1>i, <1>1, <1>2, <1>3, AllGood DEF Current

\* The decorators let the script start again: the only contract that could stop it is the
\* one its last step deploys.
LEMMA StartsAgain ==
    ASSUME Sound, running, todo # <<>>, todo[1].op # "raise", Name \in ScriptNames,
           Name \notin NotRepeatable
    PROVE  Verdict(Current.rules) # "skip"
<1>i. DeployInv /\ ContainersOK /\ TodoOK /\ SinglesOK /\ FitsOK
    BY DEF Sound, SoundInv, DeployInv, BaseInv
<1>. SUFFICES ASSUME Verdict(Current.rules) = "skip" PROVE FALSE  OBVIOUS
<1>1. ScriptOf(Name, Current)
    <2>1. IsSequence(containers["GenericVault"]) /\ IsSequence(containers["BalancerPoolVault"])
        BY <1>i, VaultsAt DEF VaultKinds
    <2>. QED  BY <2>1, AllScripts DEF Current
<1>2. PICK c \in DOMAIN Makers : Makers[c] = Name /\ containers[c] # <<>>  BY <1>1, SkipsMade
<1>3. Name \in Once  BY <1>2 DEF Once
<1>4. EndsMade(Name, todo)  BY <1>3, <1>i DEF FitsOK
<1>5. Len(todo) \in DOMAIN todo
    <2>1. 1 \in DOMAIN todo  BY <1>i, TailOf DEF TodoOK
    <2>2. Len(todo) \in Nat /\ DOMAIN todo = 1..Len(todo)  BY <1>i, LengthOf DEF TodoOK
    <2>. QED  BY <2>1, <2>2
<1>6. PICK d \in DOMAIN Makers : /\ Makers[d] = Name /\ todo[Len(todo)].op = "deploy"
                                 /\ todo[Len(todo)].at.contract = d
    BY <1>4 DEF EndsMade
<1>7. \A a, b \in DOMAIN Makers : Makers[a] = Makers[b] => a = b  BY DEF Makers
<1>8. d = c  BY <1>2, <1>6, <1>7
<1>9. containers[c] = <<>>  BY <1>i, <1>5, <1>6, <1>8 DEF SinglesOK
<1>. QED  BY <1>2, <1>9

\* And its first step is not refused.
LEMMA FirstAgain ==
    ASSUME Sound, RepeatsOK, running, Name \notin NotRepeatable,
           todo # <<>> => todo[1].op # "raise",
           Current.steps # <<>>
    PROVE  Executable(Head(Current.steps))
<1>i. ChainId = 1 /\ DeployInv /\ ContainersOK /\ TodoOK /\ InitializeOK /\ NeedsOK
    BY DEF Sound, SoundInv, DeployInv
<1>. DEFINE s == Current.steps
<1>1. Name \notin vaults /\ Name \notin {Initialize, Register, "governance_proxy.proxy"}
    BY DEF NotRepeatable, Initialize, Register
<1>2. Name \in ScriptNames /\ Good(Name, s)
    BY <1>1, AgainIsGood
<1>3. StepsOf(Name, s)
    <2>1. IsSequence(containers["GenericVault"]) /\ IsSequence(containers["BalancerPoolVault"])
        BY <1>i, VaultsAt DEF VaultKinds
    <2>. QED  BY <1>2, <2>1, AllScripts DEF Current, ScriptOf
<1>4. todo # <<>> => 1 \in DOMAIN todo  BY <1>i, TailOf DEF TodoOK
<1>5. Name # Generic  BY <1>4 DEF RepeatsOK
<1>6. /\ 1 \in DOMAIN s
      /\ Name \in AlwaysRevert => s[1].op # "call"
      /\ Name = SetRanges => s[1].name \in Ranged /\ s[1].list = "ranges"
    <2>1. 1 \in DOMAIN s
        <3>1. IsSequence(s) /\ s # <<>>  BY <1>2 DEF Good
        <3>. HIDE DEF s
        <3>. QED  BY <3>1, TailOf
    <2>. QED  BY <1>i, <1>5, <2>1, FirstSteps DEF Current
<1>. DEFINE step == s[1]
<1>7. Fits(Name, step) /\ StepOf(Name, step)  BY <1>2, <1>3, <1>6 DEF Good, StepsOf
<1>8. step.op # "raise"
    <2>. HIDE DEF step
    <2>. QED  BY <1>5, <1>7 DEF Fits, Generic
<1>9. step.op = "call" => Name \notin AlwaysRevert /\ step.list # "checks"
    <2>. SUFFICES ASSUME step.op = "call" PROVE Name \notin AlwaysRevert /\ step.list # "checks"
        OBVIOUS
    <2>1. Name \notin AlwaysRevert  BY <1>6
    <2>. HIDE DEF step
    <2>2. step.list \in DOMAIN CallScript /\ CallScript[step.list] = Name
        BY <1>7, <2>1 DEF Fits, CallFits
    <2>3. step.list # "checks"  BY <1>1, <2>2 DEF CallScript, Register
    <2>. QED  BY <2>1, <2>3
<1>10. step.op = "asset" => AssetCallSucceeds(registries[AssetsHere], step.list, step.name)
    <2>. SUFFICES ASSUME step.op = "asset"
                  PROVE  AssetCallSucceeds(registries[AssetsHere], step.list, step.name)
        OBVIOUS
    <2>1. Name = SetRanges
        <3>. HIDE DEF step
        <3>. QED  BY <1>1, <1>7 DEF Fits, AssetFits, Initialize, SetRanges
    <2>2. Initialize \in done
        <3>1. NeededBy(SetRanges, Initialize)  BY NeedsAre DEF Initialize, SetRanges
        <3>. QED  BY <1>i, <2>1, <3>1 DEF NeedsOK
    <2>3. step.list = "ranges" /\ step.name \in registries[AssetsHere].addresses
        BY <1>i, <1>6, <2>1, <2>2 DEF InitializeOK
    <2>. HIDE DEF step
    <2>. QED  BY <2>3 DEF AssetCallSucceeds, IsAssetAddressRegistered
<1>. HIDE DEF step
<1>t. step.op # "transfer"  BY <1>1, <1>7 DEF Fits
<1>11. Executable(step)  BY <1>7, <1>8, <1>9, <1>10, <1>t, FitExecutes
<1>. HIDE DEF s
<1>12. s # <<>>  BY DEF s
<1>13. Head(s) = s[1]  BY <1>2, <1>12, TailOf DEF Good
<1>. QED  BY <1>11, <1>13 DEF s, step

LEMMA TornAreThose ==
    ASSUME Sound, RepeatsOK, Cut, Stuck
    PROVE  Name \in NotRepeatable
<1>i. DeployInv /\ TodoOK  BY DEF Sound, DeployInv
<1>. SUFFICES ASSUME Name \notin NotRepeatable PROVE FALSE  OBVIOUS
<1>1. running  BY DEF Cut
<1>2. /\ todo # <<>> => todo[1].op # "raise"
      /\ todo = <<>> => Verdict(Current.rules) # "skip"
    BY <1>i, TailOf DEF Cut, TodoOK
<1>3. Name \notin vaults /\ Name # "governance_proxy.proxy"  BY DEF NotRepeatable
<1>4. Name \in ScriptNames /\ Good(Name, Current.steps)  BY <1>1, <1>3, AgainIsGood
<1>5. Verdict(Current.rules) # "skip"
    <2>1. CASE todo = <<>>  BY <1>2, <2>1
    <2>2. CASE todo # <<>>
        <3>1. todo[1].op # "raise"  BY <1>2, <2>2
        <3>. QED  BY <1>1, <1>4, <2>2, <3>1, StartsAgain
    <2>. QED  BY <2>1, <2>2
<1>7. Current.steps # <<>> => Executable(Head(Current.steps))
    BY <1>1, <1>2, FirstAgain
<1>6. \A i \in DOMAIN Current.steps : Current.steps[i].op # "transfer"
    <2>. DEFINE s == Current.steps
    <2>1. Good(Name, s)  BY <1>4
    <2>. HIDE DEF s
    <2>2. \A i \in DOMAIN s : s[i].op # "transfer"  BY <1>3, <2>1 DEF Good, Fits
    <2>. QED  BY <2>2 DEF s
<1>8. ~(\E i \in DOMAIN Current.steps :
             Current.steps[i].op = "transfer" /\ ~Executable(Current.steps[i]))
    BY <1>6
<1>. QED  BY <1>3, <1>5, <1>7, <1>8 DEF Stuck

\* No other step marks a script as torn.
LEMMA OnlyCutsTear ==
    ASSUME DeployInv, Moves, ~Cut
    PROVE  torn' = torn
<1>1. Finish \/ Revert \/ SkipScript \/ GoOn => torn' = torn
    BY DEF Finish, Revert, SkipScript, GoOn, history
<1>2. StartScript \/ StepOfScript \/ ByHand => torn' = torn  BY StartIs, StepIs, HandIs
<1>3. UNCHANGED deployVars => torn' = torn  BY DEF deployVars, history
<1>. QED  BY <1>1, <1>2, <1>3, MovesAre DEF Ends

\* On mainnet, with the scripts in an order in which each comes after those it needs: a
\* script that died before any cut tore one can be run again from its first decorator to
\* its first transaction, unless it is one of the ten that are not repeatable.
THEOREM OthersRepeat ==
    ASSUME ChainId = 1, PlanInOrder
    PROVE  ReadersSpec => OthersCanBeRepeated
<1>. DEFINE I == ReadersInv /\ WiredInv /\ (torn = {} => RepeatsOK)
<1>1. ReadersInit => I
    <2>1. ReadersInit => ReadersInv /\ WiredInv  BY ReadersInvInit, WiredInit DEF ReadersInit
    <2>2. ReadersInit => ~running  BY DEF ReadersInit, DeployInit, running
    <2>. QED  BY <2>1, <2>2 DEF RepeatsOK
<1>2. I /\ [ReadersNext]_readVars => I'
    <2>. SUFFICES ASSUME I, [ReadersNext]_readVars PROVE I'  OBVIOUS
    <2>1. Moves  BY MovesOfReaders
    <2>2. ReadersInv' /\ WiredInv'  BY <2>1, WiredMoves, ReadersInvStep DEF ReadersInv
    <2>3. ASSUME torn' = {} PROVE RepeatsOK'
        <3>1. torn = {}  BY <2>1, <2>3, HistoryFrame DEF ReadersInv, WiredInv
        <3>2. Sound  BY <3>1 DEF Sound, ReadersInv, WiredInv
        <3>. QED  BY <2>1, <3>1, <3>2, RepeatsStep
    <2>. QED  BY <2>2, <2>3
<1>3. I /\ [ReadersNext]_readVars => [torn = {} => torn' \subseteq NotRepeatable]_deployVars
    <2>. SUFFICES ASSUME I, [ReadersNext]_readVars, torn = {}
                  PROVE  torn' \subseteq NotRepeatable
        OBVIOUS
    <2>1. Moves  BY MovesOfReaders
    <2>2. Sound /\ RepeatsOK  BY DEF Sound, ReadersInv, WiredInv
    <2>3. CASE Cut
        <3>1. torn' = IF Stuck THEN torn \union {Name} ELSE torn  BY <2>3 DEF Cut
        <3>. QED  BY <2>2, <2>3, <3>1, TornAreThose
    <2>4. CASE ~Cut
        <3>1. torn' = torn  BY <2>1, <2>2, <2>4, OnlyCutsTear DEF Sound
        <3>. QED  BY <3>1
    <2>. QED  BY <2>3, <2>4
<1>. QED  BY <1>1, <1>2, <1>3, PTL DEF ReadersSpec, OthersCanBeRepeated

=============================================================================
