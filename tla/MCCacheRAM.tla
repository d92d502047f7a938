------------------------------ MODULE MCCacheRAM ------------------------------
(* CacheRAM for TLC: two keys, one matchKey contained in one of them.      *)
EXTENDS CacheRAM, TLC

CONSTANTS k1, k2, p1

MCKeys == {k1, k2}
MCPatterns == {p1}
MCContainsRel == {<<k1, p1>>}

=============================================================================
