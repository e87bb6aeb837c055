---------------------------- MODULE MCSessions ----------------------------
EXTENDS Sessions, TLC

CONSTANTS ann, bob, s1, s2
============================================================================
