----------------------------- MODULE MCPlotRent -----------------------------
EXTENDS PlotRent, TLC

CONSTANTS ann, bob

\* Two plots of the suburbs, inserted out of grid order, and one elsewhere.
Plots3 == <<"east", "west", "stall">>
Districts3 == ("east" :> "suburbs") @@ ("west" :> "suburbs") @@ ("stall" :> "market")
Rank3 == ("east" :> 2) @@ ("west" :> 1) @@ ("stall" :> 1)

Alike == Permutations({ann, bob})
============================================================================
