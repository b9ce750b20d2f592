-------------------------------- MODULE Vring --------------------------------
(***************************************************************************)
(* The split virtqueue of virtio.h and the driver's helpers on it: struct  *)
(* VRing with its descriptor table, available ring and used index, and     *)
(* vring_init, vring_send_buf and vr_poll of virtio.c as operators on it.  *)
(*                                                                         *)
(* A descriptor's "next" field is always the index after its own (that is  *)
(* all vring_send_buf ever writes), so it is not a field here.  avail.idx  *)
(* and used.idx are 16 bits wide: they count modulo IdxMod.                *)
(***************************************************************************)
EXTENDS Naturals

CONSTANTS
  Num,      \* vr.num, the number of descriptors, at least 1
  IdxMod,   \* 2^16 in the code; a multiple of Num, a power of two in virtio
  Addrs,    \* addresses a descriptor can point at
  NoAddr    \* the address of a descriptor never written, not in Addrs

Slots == 0 .. Num - 1
Idx == 0 .. IdxMod - 1

Bump(i) == (i + 1) % IdxMod

(* "len" tells an empty descriptor (0) from one with a buffer (1); "next"  *)
(* and "write" are VRING_DESC_F_NEXT and VRING_DESC_F_WRITE.               *)
Desc == [addr : Addrs \cup {NoAddr}, len : {0, 1}, next : BOOLEAN,
         write : BOOLEAN]

VringType ==
  [next_idx : Nat,            \* next descriptor to fill, never wrapped
   used_idx : Idx,            \* the last used.idx the driver has seen
   avail_idx : Idx, avail : [Slots -> Nat],
   desc : [Slots -> Desc],
   used : Idx]                \* used.idx, the device's

vring_init ==
  [next_idx |-> 0, used_idx |-> 0, avail_idx |-> 0,
   avail |-> [s \in Slots |-> 0],
   desc |-> [s \in Slots |->
               [addr |-> NoAddr, len |-> 0, next |-> FALSE, write |-> FALSE]],
   used |-> 0]

(* Publishes every buffer, not only the last of a chain.                   *)
SendBufAtOnce(vr, p, write, next, chain) ==
  [vr EXCEPT
     !.next_idx = @ + 1, !.avail_idx = Bump(@),
     !.avail = IF chain THEN @ ELSE [@ EXCEPT ![vr.avail_idx % Num] = vr.next_idx],
     !.desc = [@ EXCEPT ![vr.next_idx] =
                 [addr |-> p, len |-> 1, next |-> next, write |-> write]]]

(* vring_send_buf(vr, p, len, flags): the head of a chain is entered in    *)
(* the available ring before its descriptor is written, and the end of a   *)
(* chain publishes it.  A next_idx beyond the table writes outside it:     *)
(* nothing in the table changes then.                                      *)
vring_send_buf(vr, p, write, next, chain) ==
  [next_idx  |-> vr.next_idx + 1,
   used_idx  |-> vr.used_idx,
   avail_idx |-> IF next THEN vr.avail_idx ELSE Bump(vr.avail_idx),
   avail     |-> IF chain THEN vr.avail
                 ELSE [vr.avail EXCEPT ![vr.avail_idx % Num] = vr.next_idx],
   desc      |-> [vr.desc EXCEPT ![vr.next_idx] =
                    [addr |-> p, len |-> 1, next |-> next, write |-> write]],
   used      |-> vr.used]

(* vr_poll(): what the driver does when used.idx has moved.                *)
NothingNew(vr) == vr.used = vr.used_idx

(* Forgets to start the descriptor table over.                             *)
PolledNoReset(vr) == [vr EXCEPT !.used_idx = vr.used]

vr_polled(vr) ==
  [next_idx  |-> 0,
   used_idx  |-> vr.used,
   avail_idx |-> vr.avail_idx,
   avail     |-> vr.avail,
   desc      |-> [vr.desc EXCEPT ![0] =
                    [addr |-> vr.desc[0].addr, len |-> 0, next |-> FALSE,
                     write |-> FALSE]],
   used      |-> vr.used]

(* The device has completed one more request.                              *)
vr_used(vr) == [vr EXCEPT !.used = Bump(@)]

(* What the device finds when it follows the chain that starts at head:    *)
(* the descriptors up to the first one without VRING_DESC_F_NEXT; length 0 *)
(* when the chain leaves the table.                                        *)
Least(S) == CHOOSE s \in S : \A t \in S : s <= t
ChainEnds(vr, head) == {s \in Slots : s >= head /\ ~vr.desc[s].next}

ChainLength(vr, head) ==
  IF ChainEnds(vr, head) = {} THEN 0
  ELSE Least(ChainEnds(vr, head)) - head + 1
=============================================================================
