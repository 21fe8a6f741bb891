---------------------------- MODULE ScriptUtils ----------------------------
(***************************************************************************)
(* scripts/utils.py and what it needs of brownie: the chain a deployment   *)
(* script writes to, the containers brownie remembers the deployed         *)
(* contracts in (build/deployments/map.json), and the decorators that      *)
(* decide whether a script runs, is skipped or aborts.                     *)
(*                                                                         *)
(* A script is a record: the decorators around it, outermost first, and    *)
(* the steps it takes once it runs.  A step is one transaction, or one     *)
(* thing done locally between two transactions.  The steps are fixed when  *)
(* the script starts, as the addresses in the Python variables are.        *)
(***************************************************************************)
EXTENDS GyroConfig, AssetRegistry, FiniteSets, SequencesExt

CONSTANT ChainId    \* network.chain.id

\* is_live and get_deployer: the chains a deployer account is found on.
DevChainIds == {1337}
SupportedChains == DevChainIds \union {1111, 1, 137, 42161, 10, 1101, 42}

ASSUME ChainAssumption == ChainId \in SupportedChains

IsLive == ChainId \notin DevChainIds

VARIABLES
    chain,       \* the deployed addresses: governor, what the constructor kept, label
    containers,  \* contract -> the addresses brownie lists for it, oldest first
    config,      \* GyroConfig, behind its proxy
    registries,  \* the state of each AssetRegistry proxy
    lists        \* <<address, list, element>>: what calls added to a contract's lists

deployment == <<chain, containers, config, registries, lists>>

(***************************************************************************)
(* Addresses.  An address is named by the contract deployed there, by how  *)
(* many of its kind there are and by whether it is a proxy in front of it. *)
(* Accounts, tokens and numbers stored in the configuration are outsiders. *)
(***************************************************************************)
Address(contract, nth, proxy) == [contract |-> contract, nth |-> nth, proxy |-> proxy]
Outsider(name) == Address(name, 0, FALSE)

Deployer == Outsider("deployer")
Multisig == Outsider("MAINNET_GOVERNANCE")
NoAddress == Outsider("none")

Count(contract, proxy) ==
    Cardinality({a \in DOMAIN chain : a.contract = contract /\ a.proxy = proxy})

New(contract) == Address(contract, Count(contract, FALSE) + 1, FALSE)
NewProxy(contract) == Address(contract, Count(contract, TRUE) + 1, TRUE)

\* mutant: the oldest deployment of every container
BoundToFirst(contract) ==
    IF containers[contract] = <<>> THEN NoAddress ELSE containers[contract][1]

\* with_deployed: which address of a container a script is handed.
Bound(contract) ==
    LET all == containers[contract] IN
    IF all = <<>> THEN NoAddress
    ELSE IF contract \in {"GyroConfig", "AssetRegistry"}
         THEN IF ChainId = 137 THEN Outsider(contract) ELSE all[1]
         ELSE all[Len(all)]

\* config.getAddress, as a script calls it.
KeyAddress(key) ==
    IF Readable(config, key, "address") THEN config[key].value ELSE NoAddress

\* get_gyfi_token and get_dao_treasury know the token and the treasury of
\* few chains and raise elsewhere.
HasGyfiToken == ChainId \in {1, 137}
HasDaoTreasury == ChainId \in {1, 1337}

(***************************************************************************)
(* The decorators.  with_deployed aborts when the container is empty and   *)
(* as_singleton skips when it is not; the outermost that does either       *)
(* decides, and the script runs when none does.                            *)
(***************************************************************************)
Singleton(contract) == [kind |-> "skip", contract |-> contract]
Deployed(contract) == [kind |-> "abort", contract |-> contract]

Decides(rule) == (rule.kind = "skip") <=> (containers[rule.contract] # <<>>)

\* The decorators outside the i-th let the script through to it, and it does not.
Stops(rules, i) ==
    /\ Decides(rules[i])
    /\ \A j \in 1..(i - 1) : ~Decides(rules[j])

Verdict(rules) ==
    CASE \A i \in DOMAIN rules : ~Decides(rules[i]) -> "run"
      [] \E i \in DOMAIN rules : Stops(rules, i) /\ rules[i].kind = "skip" -> "skip"
      [] OTHER -> "abort"

(***************************************************************************)
(* The steps a script is made of.                                          *)
(***************************************************************************)
\* A constructor may read keys of the configuration and keeps what it read,
\* next to the contracts it is handed.
Deploy(contract, governor, keys, contracts) ==
    [op |-> "deploy", at |-> New(contract), governor |-> governor, keys |-> keys,
     kept |-> [c \in contracts |-> Bound(c)]]

SetKeyOf(by, key, type, word) ==
    [op |-> "setKey", by |-> by, key |-> key, type |-> type, word |-> word]

\* governance_proxy.executeCall(gyro_config, set...), from the deployer.
SetAddress(key, address) == SetKeyOf(Bound("GovernanceProxy"), key, "address", address)
SetUint(key) == SetKeyOf(Bound("GovernanceProxy"), key, "uint", Outsider(key))

Call(by, target, list, element) ==
    [op |-> "call", by |-> by, target |-> target, list |-> list, element |-> element]

CallAsset(list, name) ==
    [op |-> "asset", by |-> Bound("GovernanceProxy"),
     target |-> KeyAddress("ASSET_REGISTRY"), list |-> list, name |-> name]

TransferOwnership(target, to) ==
    [op |-> "transfer", target |-> target, to |-> to]

\* The elements of a set one after the other, in an order the scripts do not care
\* about.
InOrder(set) == FoldSet(LAMBDA x, seq : Append(seq, x), <<>>, set)

PrintCalls(batch) == [op |-> "print", batch |-> batch]
Raise == [op |-> "raise"]

DeployProxy(implementation, governor, label) ==
    [op |-> "proxy", at |-> NewProxy(implementation.contract), governor |-> governor,
     label |-> label]

Overwrite(implementation, proxy) ==
    [op |-> "overwrite", implementation |-> implementation, proxy |-> proxy]

\* mutant: the container is swapped before the proxy is there
deploy_proxy_late(implementation, governor, key, label, overwrite) ==
    (IF overwrite
     THEN <<Overwrite(implementation, NewProxy(implementation.contract))>> ELSE <<>>)
    \o <<DeployProxy(implementation, governor, label)>>
    \o (IF key = "" THEN <<>> ELSE <<SetAddress(key, NewProxy(implementation.contract))>>)

\* deploy_proxy: a proxy in front of the implementation, then the key of the
\* configuration if there is one, then the local swap of the container.
deploy_proxy(implementation, governor, key, label, overwrite) ==
    <<DeployProxy(implementation, governor, label)>>
    \o (IF key = "" THEN <<>> ELSE <<SetAddress(key, NewProxy(implementation.contract))>>)
    \o (IF overwrite
        THEN <<Overwrite(implementation, NewProxy(implementation.contract))>> ELSE <<>>)

(***************************************************************************)
(* What the chain answers.  An implementation has no governor: its         *)
(* constructor disables the initialiser, so every governed call reverts.   *)
(***************************************************************************)
GovernorOf(address) ==
    IF address \in DOMAIN chain THEN chain[address].governor ELSE NoAddress

\* A governed call from the deployer, or through a proxy the deployer governs.
MayCall(by, target) ==
    /\ GovernorOf(target) = by
    /\ by # NoAddress
    /\ by = Deployer \/ GovernorOf(by) = Deployer

Asset(name) == IF name = "ETH" THEN "WETH" ELSE name

AssetCallSucceeds(reg, list, name) ==
    IF list = "assets" THEN CanSetAssetAddress(reg, name, Asset(name))
    ELSE IsAssetAddressRegistered(reg, name)

Executable(step) ==
    CASE step.op = "deploy"   -> \A k \in step.keys : Readable(config, k, "address")
      [] step.op = "setKey"   -> /\ MayCall(step.by, Bound("GyroConfig"))
                                 /\ Settable(config, step.key, step.type)
      [] step.op = "call"     -> /\ MayCall(step.by, step.target)
                                 /\ step.list = "checks"
                                    => <<step.target, step.list, step.element>> \notin lists
      [] step.op = "asset"    -> /\ MayCall(step.by, step.target)
                                 /\ step.target \in DOMAIN registries
                                 /\ AssetCallSucceeds(registries[step.target],
                                                      step.list, step.name)
      [] step.op = "transfer" -> GovernorOf(step.target) = Deployer
      [] step.op \in {"proxy", "overwrite", "print"} -> TRUE
      [] step.op = "raise"    -> FALSE

(***************************************************************************)
(* What each step does.                                                    *)
(***************************************************************************)
InitDeployment(contracts) ==
    /\ chain = [a \in {} |-> {}]
    /\ containers = [c \in contracts |-> <<>>]
    /\ config = EmptyConfig
    /\ registries = [a \in {} |-> {}]
    /\ lists = {}

Add(address, governor, kept, label) ==
    chain' = Put(chain, address, [governor |-> governor, kept |-> kept, label |-> label])

\* A constructor keeps the contracts it is handed and the addresses it reads.
KeptBy(step) ==
    [x \in DOMAIN step.kept \union step.keys |->
        IF x \in DOMAIN step.kept THEN step.kept[x] ELSE config[x].value]

DoDeploy(step) ==
    /\ step.op = "deploy"
    /\ Add(step.at, step.governor, KeptBy(step), "")
    /\ containers' = [containers EXCEPT ![step.at.contract] = Append(@, step.at)]
    /\ UNCHANGED <<config, registries, lists>>

\* A proxy is listed in the container of the proxies, which no script reads.
DoProxy(step) ==
    /\ step.op = "proxy"
    /\ Add(step.at, step.governor, [k \in {} |-> {}], step.label)
    /\ registries' = IF step.at.contract = "AssetRegistry"
                     THEN Put(registries, step.at, EmptyRegistry) ELSE registries
    /\ UNCHANGED <<containers, config, lists>>

DoOverwrite(step) ==
    LET listed == containers[step.implementation.contract]
        others == RemoveFirst(listed, step.implementation)
    IN
    /\ step.op = "overwrite"
    /\ containers' = [containers EXCEPT ![step.implementation.contract] =
                          Append(others, step.proxy)]
    /\ UNCHANGED <<chain, config, registries, lists>>

DoSetKey(step) ==
    /\ step.op = "setKey"
    /\ config' = Set(config, step.key, step.type, step.word)
    /\ UNCHANGED <<chain, containers, registries, lists>>

DoCall(step) ==
    /\ step.op = "call"
    /\ lists' = lists \union {<<step.target, step.list, step.element>>}
    /\ UNCHANGED <<chain, containers, config, registries>>

DoAssetCall(step) ==
    /\ step.op = "asset"
    /\ registries' = [registries EXCEPT ![step.target] =
           CASE step.list = "assets" -> SetAssetAddress(@, step.name, Asset(step.name))
             [] step.list = "stable" -> AddStableAsset(@, step.name)
             [] step.list = "ranges" -> SetAssetRange(@, step.name)]
    /\ UNCHANGED <<chain, containers, config, lists>>

DoTransfer(step) ==
    /\ step.op = "transfer"
    /\ chain' = [chain EXCEPT ![step.target].governor = step.to]
    /\ UNCHANGED <<containers, config, registries, lists>>

DoPrint(step) ==
    /\ step.op = "print"
    /\ UNCHANGED deployment
=============================================================================
