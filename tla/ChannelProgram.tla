---------------------------- MODULE ChannelProgram -----------------------------
(***************************************************************************)
(* What a channel subsystem without limitations makes of an IPL: the       *)
(* channel program goes on in what it reads, each CCW is fetched from      *)
(* memory when its turn comes, and the records of the disk pass by in      *)
(* order.  DasdIpl, which runs the program in pieces because it is         *)
(* prefetched (dasd-ipl.c:58 and its description of vfio-ccw), implements  *)
(* this.                                                                   *)
(*                                                                         *)
(* A CCW is [kind, cmd, cda, chain, rec]; a search and the TIC back to it  *)
(* are one step; "rec" is the record a search is for.                      *)
(***************************************************************************)
EXTENDS Integers, Sequences

CONSTANT Addr

VARIABLES records, mem,  \* the disk: record number -> sequence of words; memory
          at, pos        \* address of the CCW; the record that is next

(* Where the program is when it is at no CCW.                              *)
AtIpl == -1
AtIpl1 == -2
Done == -3
Failed == -4

Reads == {"READ", "READ_MT"}
Record(r) == IF r \in DOMAIN records THEN records[r] ELSE <<>>
Write(m, address, words) ==
  [a \in DOMAIN m |-> IF a - address + 1 \in DOMAIN words
                      THEN words[a - address + 1] ELSE m[a]]

(* Where a chain goes on after the CCW at a: transfers take no time.       *)
IsCcw(m, a) == a \in DOMAIN m /\ m[a].kind = "ccw"
IsTic(m, a) == IsCcw(m, a) /\ m[a].cmd = "TIC"
Follow(m, a) == IF IsTic(m, a) THEN m[a].cda ELSE a
After(c, m, a) ==
  IF c.cmd = "SEARCH" THEN Follow(m, a + 2) ELSE Follow(m, a + 1)

Init ==
  /\ mem = [a \in Addr |-> [kind |-> "zero"]]
  /\ at = AtIpl
  /\ pos = 1

(* IPL1 is read to 0: a PSW, a READ and a TIC.                             *)
ReadIpl1 ==
  /\ at = AtIpl
  /\ mem' = Write(mem, 0, records[1])
  /\ at' = AtIpl1
  /\ pos' = 2

(* The READ of IPL1 reads IPL2, the TIC leads into it.                     *)
ReadIpl2 ==
  /\ at = AtIpl1
  /\ mem' = Write(mem, records[1][2].cda, Record(2))
  /\ at' = records[1][3].cda
  /\ pos' = 3

Execute ==
  /\ IsCcw(mem, at)
  /\ LET c == mem[at] IN
     /\ \/ /\ c.cmd \in Reads
           /\ mem' = Write(mem, c.cda, Record(pos))
           /\ pos' = pos + 1
        \/ /\ c.cmd = "SEARCH"
           /\ pos' = c.rec
           /\ UNCHANGED mem
        \/ /\ c.cmd \notin Reads \cup {"SEARCH"}
           /\ UNCHANGED <<mem, pos>>
     /\ at' = IF c.chain THEN After(c, mem', at) ELSE Done

Fail == at' = Failed /\ UNCHANGED <<mem, pos>>

Next ==
  /\ ReadIpl1 \/ ReadIpl2 \/ Execute \/ (at # Done /\ Fail)
  /\ UNCHANGED records
Spec == Init /\ [][Next]_<<records, mem, at, pos>>
===============================================================================
