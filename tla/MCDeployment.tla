---------------------------- MODULE MCDeployment ----------------------------
(***************************************************************************)
(* The deployment on mainnet, in an order in which every script finds what *)
(* it needs.  It is the order of misc/deploy-devnet.sh with the scripts    *)
(* that file misses put in and the token before its readers.  Then         *)
(* governance and one reader of the configuration.                         *)
(***************************************************************************)
EXTENDS ConfigReaders

MCFees == {Outsider("low"), Outsider("high")}

MCPlan ==
    <<"proxy_admin.main", "governance_proxy.main", "governance_proxy.proxy",
      "config.main", "config.proxy", "config.set_initial_config",
      "vault_registry.main", "vault_registry.proxy",
      "asset_registry.main", "asset_registry.proxy", "asset_registry.initialize",
      "asset_registry.set_asset_ranges",
      "reserve.main", "reserve.proxy", "reserve_manager.main", "pamm.main",
      "reserve.reserve_reader", "gyd_token.main", "gyd_token.proxy",
      "rate_manager.main", "rate_manager.atoken_provider", "compound_rate_provider.main",
      "rate_manager.set_rate_providers", "chainlink.main", "chainlink.set_feeds",
      "coinbase.main", "tellor.main", "checked.main", "checked.initialize",
      "vault_price_oracle.generic", "vault_price_oracle.cpmm", "vault_price_oracle.g2clp",
      "vault_price_oracle.g3clp", "vault_price_oracle.eclp", "batch.main",
      "batch.initialize", "safety.root", "safety.vault_safety_mode",
      "safety.reserve_safety_manager", "safety.register", "fee_handler.main",
      "stewardship.main", "gyd_recovery.main", "V-ECLP-LUSD-crvUSD", "V-fUSDC",
      "V-sDAI", "V-aUSDT", "vaults.set_fees", "motherboard.main", "motherboard.proxy",
      "vaults.set_vaults">>

\* Every script comes after those it needs, and no script is missing.
ASSUME MCPlanAssumption == PlanInOrder /\ PlanIsComplete
=============================================================================
