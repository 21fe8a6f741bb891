-------------------------- MODULE DeploymentScripts -------------------------
(***************************************************************************)
(* scripts/deployment/*.py: each function an operator runs, as the         *)
(* decorators around it and the steps of its body.  A definition is named  *)
(* after the file and the function: reserve_proxy is proxy() of            *)
(* deploy_reserve.py.  The with_gas_usage decorator only measures.         *)
(*                                                                         *)
(* Every definition reads the state the script starts in.                  *)
(***************************************************************************)
EXTENDS ScriptUtils

Governance == Bound("GovernanceProxy")
Config == Bound("GyroConfig")

Steps(rules, steps) == [rules |-> rules, steps |-> steps]

\* The decorators most scripts carry under as_singleton.
NeedsGovernedConfig == <<Deployed("GyroConfig"), Deployed("GovernanceProxy")>>

\* Deploy a contract that holds no state and point its key at it.
DeployAndSetKey(contract, governor, keys, contracts, key) ==
    <<Deploy(contract, governor, keys, contracts), SetAddress(key, New(contract))>>

(***************************************************************************)
(* Proxy admin, governance proxy and configuration.                        *)
(***************************************************************************)
proxy_admin_main ==
    Steps(<<Singleton("ProxyAdmin")>>, <<Deploy("ProxyAdmin", Deployer, {}, {})>>)

governance_proxy_main ==
    Steps(<<Singleton("GovernanceProxy")>>,
          <<Deploy("GovernanceProxy", NoAddress, {}, {})>>)

governance_proxy_proxy ==
    Steps(<<Deployed("GovernanceProxy"), Deployed("ProxyAdmin")>>,
          deploy_proxy(Governance, Deployer, "", "", FALSE)
          \o <<TransferOwnership(Bound("ProxyAdmin"), NewProxy("GovernanceProxy"))>>)

config_main ==
    Steps(<<Singleton("GyroConfig")>>, <<Deploy("GyroConfig", NoAddress, {}, {})>>)

config_proxy ==
    Steps(NeedsGovernedConfig, deploy_proxy(Config, Governance, "", "", FALSE))

set_initial_config ==
    Steps(NeedsGovernedConfig,
          <<SetAddress("BALANCER_VAULT", Outsider("BALANCER_VAULT"))>>)

(***************************************************************************)
(* Registries, token, reserve, PAMM and Motherboard.                       *)
(***************************************************************************)
gyd_token_main ==
    Steps(<<Singleton("GydToken")>>, <<Deploy("GydToken", NoAddress, {}, {})>>)

gyd_token_proxy ==
    Steps(<<Deployed("GydToken")>>,
          deploy_proxy(Bound("GydToken"), Multisig, "GYD_TOKEN", "", FALSE))

vault_registry_main ==
    Steps(<<Deployed("GyroConfig"), Singleton("VaultRegistry")>>,
          <<Deploy("VaultRegistry", NoAddress, {}, {"GyroConfig"})>>)

vault_registry_proxy ==
    Steps(<<Deployed("VaultRegistry"), Deployed("GovernanceProxy")>>,
          deploy_proxy(Bound("VaultRegistry"), Governance, "VAULT_REGISTRY", "", FALSE))

asset_registry_main ==
    Steps(<<Singleton("AssetRegistry"), Deployed("GyroConfig")>>,
          <<Deploy("AssetRegistry", NoAddress, {}, {"GyroConfig"})>>)

asset_registry_proxy ==
    Steps(<<Deployed("AssetRegistry"), Deployed("GovernanceProxy")>>,
          deploy_proxy(Bound("AssetRegistry"), Governance, "ASSET_REGISTRY", "", FALSE))

OnAssets(list, names) == [i \in DOMAIN names |-> CallAsset(list, names[i])]

NeedsAssetRegistry ==
    <<Deployed("GyroConfig"), Deployed("AssetRegistry"), Deployed("GovernanceProxy")>>

asset_registry_initialize ==
    Steps(NeedsAssetRegistry,
          OnAssets("assets", <<"ETH", "WETH", "DAI", "WBTC", "USDC", "USDT", "USDP",
                               "GUSD", "LUSD", "crvUSD">>)
          \o OnAssets("stable", <<"USDT", "USDC", "DAI">>))

set_asset_ranges ==
    Steps(NeedsAssetRegistry,
          OnAssets("ranges", <<"USDC", "USDP", "GUSD", "USDT", "DAI", "LUSD", "crvUSD">>))

reserve_main ==
    Steps(<<Singleton("Reserve")>>, <<Deploy("Reserve", NoAddress, {}, {})>>)

reserve_proxy ==
    Steps(<<Deployed("Reserve")>>,
          deploy_proxy(Bound("Reserve"), Multisig, "RESERVE", "", FALSE))

reserve_manager_main ==
    Steps(<<Singleton("ReserveManager")>> \o NeedsGovernedConfig,
          DeployAndSetKey("ReserveManager", Governance,
                          {"VAULT_REGISTRY", "ASSET_REGISTRY", "RESERVE"},
                          {"GyroConfig"}, "RESERVE_MANAGER"))

pamm_main ==
    Steps(<<Singleton("PrimaryAMMV1")>> \o NeedsGovernedConfig,
          DeployAndSetKey("PrimaryAMMV1", Multisig, {}, {"GyroConfig"}, "PAMM"))

\* mutant: the singleton of another contract
ReaderOnce ==
    Steps(<<Singleton("ReserveManager"), Deployed("PrimaryAMMV1"),
            Deployed("ReserveManager")>>,
          <<Deploy("ReserveSystemRead", NoAddress, {}, {"ReserveManager", "PrimaryAMMV1"})>>)

reserve_reader ==
    Steps(<<Singleton("ReserveSystemRead"), Deployed("PrimaryAMMV1"),
            Deployed("ReserveManager")>>,
          <<Deploy("ReserveSystemRead", NoAddress, {}, {"ReserveManager", "PrimaryAMMV1"})>>)

motherboard_main ==
    Steps(<<Deployed("GyroConfig")>>,
          <<Deploy("Motherboard", NoAddress, {"GYD_TOKEN", "RESERVE", "BALANCER_VAULT"},
                   {"GyroConfig"})>>)

\* The reserve handed to the script is the implementation brownie lists, which
\* nobody governs, so addManager reverts after the key has been set.
motherboard_proxy ==
    Steps(<<Deployed("Motherboard"), Deployed("Reserve"), Deployed("GovernanceProxy")>>,
          deploy_proxy(Bound("Motherboard"), Governance, "MOTHERBOARD", "", FALSE)
          \o <<Call(Governance, Bound("Reserve"), "managers", NewProxy("Motherboard"))>>)

\* mutant: a singleton, although the key is set in a second transaction
FeeHandlerOnce ==
    Steps(<<Singleton("StaticPercentageFeeHandler")>> \o NeedsGovernedConfig,
          DeployAndSetKey("StaticPercentageFeeHandler", Governance, {}, {}, "FEE_HANDLER"))

fee_handler_main ==
    Steps(NeedsGovernedConfig,
          DeployAndSetKey("StaticPercentageFeeHandler", Governance, {}, {}, "FEE_HANDLER"))

stewardship_main ==
    Steps(<<Deployed("GovernanceProxy"), Deployed("GyroConfig")>>,
          DeployAndSetKey("ReserveStewardshipIncentives", Multisig, {"GYD_TOKEN"},
                          {"GyroConfig"}, "STEWARDSHIP_INC")
          \o <<SetUint("STEWARDSHIP_INC_DURATION"),
               SetUint("STEWARDSHIP_INC_MAX_VIOLATIONS"),
               SetUint("STEWARDSHIP_INC_MIN_CR")>>)

\* Raises where there is no GYFI token or no treasury to hand over.
gyd_recovery_main ==
    Steps(NeedsGovernedConfig,
          (IF HasGyfiToken /\ HasDaoTreasury THEN <<>> ELSE <<Raise>>)
          \o DeployAndSetKey("GydRecovery", Multisig, {"GYD_TOKEN"}, {"GyroConfig"},
                             "GYD_RECOVERY")
          \o <<SetUint("GYD_RECOVERY_TARGET_CR"), SetUint("GYD_RECOVERY_TRIGGER_CR")>>)

(***************************************************************************)
(* Rates and price oracles.  The initialize scripts send nothing: they     *)
(* print the calls that governance has to make.                            *)
(***************************************************************************)
rate_manager_main ==
    Steps(<<Deployed("GovernanceProxy")>>, <<Deploy("RateManager", Governance, {}, {})>>)

atoken_provider ==
    Steps(<<>>, <<Deploy("ConstantRateProvider", NoAddress, {}, {})>>)

compound_rate_provider_main ==
    Steps(<<>>, <<Deploy("CompoundV2RateProvider", NoAddress, {}, {})>>)

OnTarget(target, list, elements) ==
    [i \in DOMAIN elements |-> [target |-> target, list |-> list, element |-> elements[i]]]

set_rate_providers ==
    Steps(<<Deployed("RateManager")>>,
          <<PrintCalls(OnTarget(Bound("RateManager"), "providers",
                       <<Outsider("sDAI"), Outsider("fUSDC"), Outsider("aUSDT")>>))>>)

\* mutant: governed by the multisig, while the deployer sets the feeds
ChainlinkOfMultisig ==
    Steps(<<Singleton("ChainlinkPriceOracle"), Deployed("GovernanceProxy")>>,
          <<Deploy("ChainlinkPriceOracle", Multisig, {}, {})>>)

chainlink_main ==
    Steps(<<Singleton("ChainlinkPriceOracle"), Deployed("GovernanceProxy")>>,
          <<Deploy("ChainlinkPriceOracle", Governance, {}, {})>>)

get_chainlink_feeds ==
    IF ChainId \in {1, 1337}
    THEN {"ETH", "WETH", "DAI", "WBTC", "CRV", "USDC", "USDT", "crvUSD", "USDP", "LUSD",
          "GUSD"}
    ELSE {"ETH", "WETH", "DAI", "WBTC", "USDC", "USDT", "WMATIC", "LINK", "AAVE", "UNI",
          "TUSD", "BUSD"}

\* The assets that have a feed are left out, so that the script can be repeated.
set_feeds ==
    LET oracle == Bound("ChainlinkPriceOracle")
        missing == InOrder({a \in get_chainlink_feeds :
                               <<oracle, "feeds", Outsider(a)>> \notin lists})
    IN Steps(<<Deployed("ChainlinkPriceOracle"), Deployed("GovernanceProxy")>>,
             [i \in DOMAIN missing |->
                 Call(Governance, oracle, "feeds", Outsider(missing[i]))])

tellor_main ==
    Steps(<<Singleton("TellorOracle")>>, <<Deploy("TellorOracle", NoAddress, {}, {})>>)

\* mutant: the oracle is handed the registry of the container, an implementation
CoinbaseWithListedRegistry ==
    Steps(<<Deployed("GyroConfig"), Singleton("TrustedSignerPriceOracle")>>,
          <<[Deploy("TrustedSignerPriceOracle", NoAddress, {}, {}) EXCEPT
                 !.kept = "ASSET_REGISTRY" :> Bound("AssetRegistry")]>>)

coinbase_main ==
    Steps(<<Deployed("GyroConfig"), Singleton("TrustedSignerPriceOracle")>>,
          <<Deploy("TrustedSignerPriceOracle", NoAddress, {"ASSET_REGISTRY"}, {})>>)

\* mutant: the mock oracle is needed on a live chain too
CheckedWithMock ==
    Steps(<<Singleton("CheckedPriceOracle"), Deployed("ChainlinkPriceOracle"),
            Deployed("GovernanceProxy"), Deployed("RateManager"),
            Deployed("MockPriceOracle")>>,
          <<Deploy("CheckedPriceOracle", Governance, {}, {"ChainlinkPriceOracle"})>>)

\* The relative oracle is a constant on a live chain and a mock elsewhere.
checked_main ==
    Steps(<<Singleton("CheckedPriceOracle"), Deployed("ChainlinkPriceOracle"),
            Deployed("GovernanceProxy"), Deployed("RateManager")>>,
          (IF IsLive \/ Bound("MockPriceOracle") # NoAddress THEN <<>> ELSE <<Raise>>)
          \o <<Deploy("CheckedPriceOracle", Governance, {}, {"ChainlinkPriceOracle"})>>)

checked_initialize ==
    LET checked == Bound("CheckedPriceOracle") IN
    Steps(<<Deployed("TellorOracle"), Deployed("CheckedPriceOracle"),
            Deployed("TrustedSignerPriceOracle")>>,
          <<PrintCalls(
              OnTarget(checked, "ethOracles",
                       <<Bound("TrustedSignerPriceOracle"), Bound("TellorOracle")>>)
              \o OnTarget(checked, "twap",
                          <<Outsider("USDC"), Outsider("USDT"), Outsider("DAI")>>)
              \o OnTarget(checked, "relative",
                          <<Outsider("WETH"), Outsider("USDC"), Outsider("USDT"),
                            Outsider("DAI"), Outsider("LUSD")>>)
              \o OnTarget(checked, "ignorable",
                          <<Outsider("crvUSD"), Outsider("GUSD"), Outsider("USDP")>>))>>)

\* The constructor of the oracle takes the configuration and the script passes
\* nothing, so brownie raises before anything is sent.
vault_price_oracle_generic ==
    Steps(<<Singleton("GenericVaultPriceOracle")>>, <<Raise>>)

vault_price_oracle_cpmm ==
    Steps(<<Singleton("BalancerCPMMPriceOracle")>>,
          <<Deploy("BalancerCPMMPriceOracle", NoAddress, {}, {})>>)

vault_price_oracle_g2clp ==
    Steps(<<>>, <<Deploy("Balancer2CLPPriceOracle", NoAddress, {}, {})>>)

vault_price_oracle_g3clp ==
    Steps(<<>>, <<Deploy("Balancer3CLPPriceOracle", NoAddress, {}, {})>>)

vault_price_oracle_eclp ==
    Steps(<<>>, <<Deploy("BalancerECLPPriceOracle", NoAddress, {}, {})>>)

batch_main ==
    Steps(<<Singleton("BatchVaultPriceOracle"), Deployed("CheckedPriceOracle")>>,
          <<Deploy("BatchVaultPriceOracle", Multisig, {}, {"CheckedPriceOracle"})>>)

VaultOracles == <<"GenericVaultPriceOracle", "BalancerCPMMPriceOracle",
                  "Balancer2CLPPriceOracle", "Balancer3CLPPriceOracle",
                  "BalancerECLPPriceOracle">>

batch_initialize ==
    LET batch == Bound("BatchVaultPriceOracle") IN
    Steps(<<Deployed("BatchVaultPriceOracle")>>
          \o [i \in DOMAIN VaultOracles |-> Deployed(VaultOracles[i])]
          \o <<Deployed("GyroConfig")>>,
          <<PrintCalls(
              OnTarget(batch, "vaultOracles",
                       [i \in DOMAIN VaultOracles |-> Bound(VaultOracles[i])])
              \o OnTarget(Config, "ROOT_PRICE_ORACLE", <<batch>>))>>)

(***************************************************************************)
(* Safety checks.                                                          *)
(***************************************************************************)
safety_root ==
    Steps(<<Singleton("RootSafetyCheck")>> \o NeedsGovernedConfig,
          DeployAndSetKey("RootSafetyCheck", Governance, {}, {"GyroConfig"},
                          "ROOT_SAFETY_CHECK"))

reserve_safety_manager ==
    Steps(<<Singleton("ReserveSafetyManager"), Deployed("GovernanceProxy")>>,
          <<Deploy("ReserveSafetyManager", Governance, {}, {})>>)

vault_safety_mode ==
    Steps(<<Singleton("VaultSafetyMode")>> \o NeedsGovernedConfig,
          <<Deploy("VaultSafetyMode", Governance, {}, {"GyroConfig"})>>)

\* addCheck refuses a check it has, so that the script cannot be repeated.
safety_register ==
    LET root == Bound("RootSafetyCheck") IN
    Steps(<<Deployed("VaultSafetyMode"), Deployed("ReserveSafetyManager"),
            Deployed("RootSafetyCheck"), Deployed("GovernanceProxy")>>,
          <<Call(Governance, root, "checks", Bound("VaultSafetyMode")),
            Call(Governance, root, "checks", Bound("ReserveSafetyManager"))>>)

(***************************************************************************)
(* Vaults (deploy_vaults.py and the vaults of config.py).                  *)
(***************************************************************************)
GenericSymbols ==
    IF ChainId \in {1, 1337} THEN {"V-fUSDC", "V-sDAI", "V-aUSDT"} ELSE {}
BalancerSymbols ==
    CASE ChainId \in {1, 1337} -> {"V-ECLP-LUSD-crvUSD"}
      [] ChainId = 137 -> {"BAL-CPMM-WETH-DAI", "BAL-CPMM-WETH-USDC", "BAL-CPMM-WBTC-WETH"}
      [] OTHER -> {}
vaults == GenericSymbols \union BalancerSymbols

DeployVault(contract, contracts, symbol) ==
    Steps(<<Deployed("GyroConfig")>>,
          IF symbol \notin vaults THEN <<Raise>>
          ELSE <<Deploy(contract, NoAddress, {}, contracts)>>
               \o deploy_proxy(New(contract), Multisig, "", symbol, TRUE))

balancer(symbol) == DeployVault("BalancerPoolVault", {"GyroConfig"}, symbol)

generic(symbol) == DeployVault("GenericVault", {"GyroConfig"}, symbol)

_get_all_vault_addresses == containers["GenericVault"] \o containers["BalancerPoolVault"]

\* Whether _get_vault_to_deploy finds the symbol of the vault at an address.  An
\* implementation has none.
HasConfig(vault) == chain[vault].label \in vaults

\* A vault that is not in the list raises and ends the script, with the fees of
\* the vaults before it set.
set_fees ==
    LET all == _get_all_vault_addresses
        unknown == {i \in DOMAIN all : ~HasConfig(all[i])}
        known == IF unknown = {} THEN all ELSE SubSeq(all, 1, Min(unknown) - 1)
    IN Steps(<<Deployed("StaticPercentageFeeHandler"), Deployed("GovernanceProxy")>>,
             [i \in DOMAIN known |->
                 Call(Governance, Bound("StaticPercentageFeeHandler"), "fees", known[i])]
             \o (IF unknown = {} THEN <<>> ELSE <<Raise>>))

\* get_vault_configs leaves out the vaults that are not in the list.
get_vault_configs == SelectSeq(_get_all_vault_addresses, HasConfig)

\* The vaults go to a file and then to the reserve manager, in a call from the
\* deployer, who does not govern it.
set_vaults ==
    LET manager == Bound("ReserveManager")
        configs == OnTarget(manager, "vaults", get_vault_configs)
    IN Steps(<<Deployed("ReserveManager")>>,
             <<PrintCalls(configs), Call(Deployer, manager, "vaults", NoAddress)>>)
=============================================================================
