---------------------------- MODULE MCPersistMem ----------------------------
EXTENDS PersistMem
CONSTANTS o1, o2
Symm == Permutations({o1, o2})
=============================================================================
