--------------------------- MODULE MCSwiftIncoming ---------------------------
(* Small instances of SwiftIncoming for TLC. *)
EXTENDS SwiftIncoming, TLC

FileSymmetry == Permutations(Files)

Setting(recorded, n) ==
  [filerecord |-> recorded, fileremove |-> TRUE, filecheckuse |-> recorded,
   filesinparallel |-> n, filesperround |-> n]

\* the feeds that are shipped keep no records and do not look for files in use
MCShipped == {Setting(FALSE, 2)}
MCSettings == {Setting(recorded, n) : recorded \in BOOLEAN, n \in {1, 2}}
=============================================================================
