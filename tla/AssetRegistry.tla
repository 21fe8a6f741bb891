--------------------------- MODULE AssetRegistry ---------------------------
(***************************************************************************)
(* AssetRegistry.sol: the assets the protocol knows by name, the addresses *)
(* registered, which of them are stable and the range a stable price must  *)
(* stay in.  One registry is a record; a range is only told apart from no  *)
(* range, so ranges is the set of the addresses that have one.             *)
(***************************************************************************)
EXTENDS Naturals, TLC

\* A registry that was just deployed.
EmptyRegistry == [assets |-> [n \in {} |-> {}], addresses |-> {},
                  stable |-> {}, ranges |-> {}]

\* setAssetAddress refuses an address the name already has, so that a call
\* cannot be repeated.
CanSetAssetAddress(reg, name, asset) ==
    name \in DOMAIN reg.assets => reg.assets[name] # asset

WithAsset(assets, name, asset) ==
    [n \in DOMAIN assets \union {name} |-> IF n = name THEN asset ELSE assets[n]]

SetAssetAddress(reg, name, asset) ==
    [reg EXCEPT !.assets = WithAsset(@, name, asset), !.addresses = @ \union {asset}]

\* addStableAsset and setAssetRange need a registered address and nothing
\* else: an asset may be stable before it has a range, and getAssetRange then
\* reverts for it.
IsAssetAddressRegistered(reg, asset) == asset \in reg.addresses

AddStableAsset(reg, asset) == [reg EXCEPT !.stable = @ \union {asset}]

SetAssetRange(reg, asset) == [reg EXCEPT !.ranges = @ \union {asset}]

HasAssetRange(reg, asset) == asset \in reg.ranges
=============================================================================
