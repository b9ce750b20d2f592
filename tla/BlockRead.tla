------------------------------ MODULE BlockRead ------------------------------
(***************************************************************************)
(* What the boot code relies on when it calls virtio_read_many: one call   *)
(* at a time; data appears only in the buffer of the running call, and it  *)
(* is the data of the sector asked for; a call that returns 0 has it.      *)
(***************************************************************************)
CONSTANTS Sectors, Buffers, Results, Success, None

VARIABLES
  busy,   \* a call is running
  call,   \* [sector, buf] of the running or last call, None before the first
  ret,    \* what the last call returned
  data    \* contents of the buffers

vars == <<busy, call, ret, data>>

Init ==
  /\ busy = FALSE /\ call = None /\ ret = None
  /\ data = [b \in Buffers |-> None]

Begin ==
  /\ ~busy
  /\ busy' = TRUE /\ ret' = None
  /\ call' \in [sector : Sectors, buf : Buffers]
  /\ UNCHANGED data

Deliver ==
  /\ busy
  /\ data' = [data EXCEPT ![call.buf] = call.sector]
  /\ UNCHANGED <<busy, call, ret>>

Return ==
  /\ busy
  /\ busy' = FALSE
  /\ ret' \in Results
  /\ ret' = Success => data[call.buf] = call.sector
  /\ UNCHANGED <<call, data>>

Next == Begin \/ Deliver \/ Return

Spec == Init /\ [][Next]_vars
=============================================================================
