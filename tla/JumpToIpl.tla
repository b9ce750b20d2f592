------------------------------- MODULE JumpToIpl -------------------------------
(***************************************************************************)
(* The end of every boot (pc-bios/s390-ccw/jump2ipl.c): the machine is     *)
(* reset and takes its PSW from address 0, which belongs to the system     *)
(* that was loaded.  When another entry is wanted, the word there is       *)
(* replaced by a PSW that leads back here, and is put back after the reset.*)
(*                                                                         *)
(* Memory is a function from addresses to records with a "kind"; a PSW is  *)
(* [kind, addr, short, ea, ba].  The diagnose that resets the machine is   *)
(* external.  Printing takes an external interrupt, which stores into the  *)
(* low core.  The IPL parameter block, which is for virtio disks, is left  *)
(* out.                                                                    *)
(***************************************************************************)
EXTENDS Integers

CONSTANTS
  KERN_IMAGE_START,  \* where a Linux kernel is entered
  S390EP,            \* where it has its magic
  SubchannelId,      \* where a system finds what it was booted from (0xB8)
  ConsoleWords       \* what printing stores over: the interrupt's parameter
                     \* (0x80), its old PSW (0x130) and new PSW (0x1b0)

VARIABLES
  mem,
  jump  \* [at, save, ipl_continue, entered], see JumpIdle

JumpToIplAddr == -1   \* an address in the firmware
PSW(addr, short, ea, ba) ==
  [kind |-> "psw", addr |-> addr, short |-> short, ea |-> ea, ba |-> ba]
RESET_PSW == PSW(JumpToIplAddr, TRUE, TRUE, TRUE)
HasResetBits(word) == word.kind = "psw" /\ (word.short \/ word.ea \/ word.ba)

NoWord == [kind |-> "none"]
JumpIdle == [at |-> "idle", save |-> NoWord, ipl_continue |-> 0,
             entered |-> NoWord]

(* The memory m with the words of the low core that are in as stored over. *)
Firmware == [kind |-> "firmware"]
Store(m, as) == [a \in DOMAIN m |-> IF a \in as THEN Firmware ELSE m[a]]

(* consume_sclp_int and the interrupt it waits for.                        *)
sclp_print(m) == Store(m, ConsoleWords)

(* jump_to_IPL_code(address) over the memory m: the subchannel is written, *)
(* address 0 means the PSW that is there, and a line is printed last.      *)
jump_to_IPL_code(m, address) ==
  /\ mem' = sclp_print([m EXCEPT ![SubchannelId] = [kind |-> "schid"],
                                 ![0] = IF address # 0 THEN RESET_PSW ELSE @])
  /\ jump' = [JumpIdle EXCEPT !.at = "reset",
                              !.save = IF address # 0 THEN m[0] ELSE @,
                              !.ipl_continue = address]

(* jump_to_low_kernel over the memory m: the magic comes before the PSW.   *)
(* Fault: the PSW first.                                                   *)
PswFirst(m) ==
  IF HasResetBits(m[0]) THEN 0 ELSE KERN_IMAGE_START
LowKernel(m) ==
  IF m[S390EP].kind = "S390EP" THEN KERN_IMAGE_START
  ELSE IF HasResetBits(m[0]) THEN 0 ELSE KERN_IMAGE_START

(* Diagnose 308: the PSW at 0 is loaded.                                   *)
Reset ==
  /\ jump.at = "reset"
  /\ jump' = IF mem[0] = RESET_PSW
             THEN [jump EXCEPT !.at = "jump_to_IPL_addr"]
             ELSE [jump EXCEPT !.at = "guest", !.entered = mem[0]]
  /\ UNCHANGED mem

(* The word is put back and the system entered, in the mode of the         *)
(* firmware.                                                               *)
jump_to_IPL_addr ==
  /\ jump.at = "jump_to_IPL_addr"
  /\ mem' = [mem EXCEPT ![0] = jump.save]
  /\ jump' = [jump EXCEPT !.at = "guest",
                          !.entered = PSW(jump.ipl_continue, TRUE, TRUE, TRUE)]

JumpNext == Reset \/ jump_to_IPL_addr
===============================================================================
