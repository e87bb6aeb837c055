----------------------------- MODULE MCHandoff -----------------------------
EXTENDS Handoff, TLC

CONSTANTS za, zb, zc, zd, ann, guest, s1, s2

\* A strip of height 2: tall enough to be split across, never along.
Strip(a, b) == Box(a, 0, b, Height)

OneZone == za :> Strip(0, Width)
TwoZones == (za :> Strip(0, Width \div 2)) @@ (zb :> Strip(Width \div 2, Width))
ThreeZones == (za :> Strip(0, 2)) @@ (zb :> Strip(2, 4)) @@ (zc :> Strip(4, Width))

OrderOf1 == <<za>>
OrderOf2 == <<za, zb>>
OrderOf3 == <<za, zb, zc>>

\* Who logs in on which connection.
AnnTwice == (s1 :> ann) @@ (s2 :> ann)
AnnOnce == s1 :> ann
GuestOnce == s1 :> guest

\* The connections of one player are alike.
Alike == Permutations(Socket)

\* Once the only player is traced, no property says anything of it.
Untraced == traced = {}

Steps == {-2, 2}
============================================================================
