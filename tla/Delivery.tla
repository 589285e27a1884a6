------------------------------ MODULE Delivery ------------------------------
(***************************************************************************)
(* What ingestion promises of each file: it waits in the incoming          *)
(* directory until it is taken, what is taken goes to its input directory  *)
(* once. Only when something of it failed may it be dropped, go back or be *)
(* delivered again. SwiftIncoming implements it.                           *)
(***************************************************************************)
EXTENDS Naturals

CONSTANT Files

VARIABLES
  place,    \* where each file is: waiting, taken, delivered or dropped
  copies,   \* how often it was put into its input directory
  failed    \* the files of which something failed

DeliveryInit ==
  /\ place = [f \in Files |-> "waiting"]
  /\ copies = [f \in Files |-> 0]
  /\ failed = {}

Moves(f, from, to) == place[f] \in from /\ place' = [place EXCEPT ![f] = to]
Put(f) == copies' = [copies EXCEPT ![f] = @ + 1]

\* a whole copy is in tmp2: from here on a restart delivers it
Take(f) == Moves(f, {"waiting"}, "taken") /\ UNCHANGED <<copies, failed>>
Deliver(f) == Moves(f, {"taken"}, "delivered") /\ Put(f) /\ UNCHANGED failed

\* a copy, a move or a removal fails, and may be tried again
Fail(f) == failed' = failed \cup {f} /\ UNCHANGED <<place, copies>>

\* what the runs may do to a file after, or by, a failure
Stray(f) ==
  /\ failed' \in {failed, failed \cup {f}} /\ f \in failed'
  /\ \/ Moves(f, {"waiting", "taken"}, "dropped") /\ UNCHANGED copies
     \/ Moves(f, {"taken"}, "waiting") /\ UNCHANGED copies
     \/ Moves(f, {"dropped"}, "taken") /\ UNCHANGED copies
     \/ Moves(f, {"delivered"}, "delivered") /\ Put(f)

DeliveryNext == \E f \in Files : Take(f) \/ Deliver(f) \/ Fail(f) \/ Stray(f)

DeliverySpec == DeliveryInit /\ [][DeliveryNext]_<<place, copies, failed>>
=============================================================================
