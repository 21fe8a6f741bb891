--------------------------- MODULE MCReserveOrders --------------------------
(* The instances of ReserveOrders that TLC checks. *)
EXTENDS ReserveOrders, TLC

CONSTANTS usdc, dai, stable, pool

\* While dai alone is off its peg, one vault is affected; while usdc is, both are.
TwoVaults == (stable :> {usdc}) @@ (pool :> {usdc, dai})

\* The pool pricing: the mean of the prices of the tokens.
MeanPrice(v, prices) ==
    MapThenSumSet(LAMBDA t : prices[t], TwoVaults[v]) \div Cardinality(TwoVaults[v])

OneScale == (stable :> 1) @@ (pool :> 1)

MCPrices == (usdc :> {4, 8, 10}) @@ (dai :> {4, 8})

PegFloor == (usdc :> 7) @@ (dai :> 7)

PegCeiling == (usdc :> 9) @@ (dai :> 9)

Entry(v, w, p, d) == [vaultAddress |-> v, priceAtCalibration |-> p,
                      weightAtCalibration |-> w, weightTransitionDuration |-> d]

\* Both vaults in either sequence, one vault alone, and two that setVaults refuses.
MCConfigurations ==
    {<<Entry(stable, 3, 8, 0), Entry(pool, 5, 6, 0)>>,
     <<Entry(stable, 6, 8, 2), Entry(pool, 2, 6, 2)>>}
    \cup {<<Entry(pool, 6, 8, 3), Entry(stable, 2, 8, 0)>>}
    \cup {<<Entry(v, 8, 8, 2)>> : v \in Vaults}
    \cup {<<Entry(pool, 4, 8, 1)>>, <<Entry(pool, 4, 8, 1), Entry(pool, 4, 8, 1)>>}

\* Equal weights at par, for the run on fees.
EvenConfigurations == {<<Entry(stable, 10, 20, 0), Entry(pool, 10, 20, 0)>>}

ParPrices == (usdc :> {20}) @@ (dai :> {20})

=============================================================================
