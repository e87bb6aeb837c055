----------------------------- MODULE MCZoneSim -----------------------------
EXTENDS ZoneSim, TLC

CONSTANTS ann, bob, tree

\* A tree of two units: enough for two gatherers to come for the last one.
TwoUnits == tree :> 2
============================================================================
