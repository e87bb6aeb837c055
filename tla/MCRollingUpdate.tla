-------------------------- MODULE MCRollingUpdate --------------------------
EXTENDS RollingUpdate, TLC

CONSTANTS ann, bob, za, zb

\* The instances the zones register with; the others are launched by updates.
Registered == (za :> "a0") @@ (zb :> "b0")
============================================================================
