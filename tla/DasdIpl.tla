-------------------------------- MODULE DasdIpl --------------------------------
(***************************************************************************)
(* IPL from a DASD that is passed through (pc-bios/s390-ccw/dasd-ipl.c),   *)
(* up to the entry of the guest (JumpToIpl).  The channel program on the   *)
(* disk expects its CCWs to be fetched one by one; the host fetches the    *)
(* whole chain when the subchannel is started.  The firmware cuts the      *)
(* chain after each READ whose data may be the rest of the program, and    *)
(* starts the rest as a program of its own.                                *)
(*                                                                         *)
(* Addresses count words of eight bytes: 0 the PSW, 1 to 7 the CCWs of     *)
(* IPL1 (0x08 to 0x3f).  A word is a record with a "kind": a CCW, a PSW,   *)
(* data.  The channel, the disk and the host's fetching are external; so   *)
(* is the retrying of do_cio, which is in module Cio.                      *)
(***************************************************************************)
EXTENDS Integers, Sequences

CONSTANTS
  Disks,             \* what may be booted: [records, sound]
  Words,             \* memory is 0..Words - 1
  SubchannelId,      \* where an I/O interrupt stores its information (0xB8)
  IoOldPsw,          \* and the old PSW (0x170)
  IoNewPsw,          \* where it takes its new PSW from (0x1f0)
  ConsoleWords,      \* of JumpToIpl
  S390EP, KERN_IMAGE_START

(* A word is seen as what it is used as.  IPL1 is the three words the      *)
(* READ IPL asks for.                                                      *)
Word(w) ==
  /\ w.kind = "ccw" => w \in [kind : {"ccw"}, cmd : {w.cmd}, cda : Nat,
                              chain : BOOLEAN, rec : Nat]
  /\ w.kind = "psw" => w \in [kind : {"psw"}, addr : Int, short : BOOLEAN,
                              ea : BOOLEAN, ba : BOOLEAN]

ASSUME DiskAssumption ==
  \A d \in Disks :
    /\ 1 \in DOMAIN d.records /\ DOMAIN d.records[1] = 1..3
    /\ \A r \in DOMAIN d.records :
         /\ r \in Nat
         /\ \A i \in DOMAIN d.records[r] :
              LET w == d.records[r][i]
              IN Word(w) /\ (w.kind = "psw" => w.addr \in Nat)

(* The words of the low core are words of their own, above IPL1.           *)
ASSUME LowCoreAssumption ==
  /\ Words \in Nat /\ KERN_IMAGE_START # 0
  /\ {SubchannelId, IoOldPsw, IoNewPsw, S390EP} \cup ConsoleWords
       \subseteq 8..Words - 1
  /\ SubchannelId \notin {IoOldPsw, IoNewPsw, S390EP} \cup ConsoleWords
  /\ IoOldPsw \notin {IoNewPsw, S390EP} \cup ConsoleWords
  /\ IoNewPsw \notin {S390EP} \cup ConsoleWords
  /\ S390EP \notin ConsoleWords

VARIABLES
  disk,       \* what is booted
  pc,         \* where dasd_ipl is
  mem,        \* absolute memory
  prefix,     \* [on, page]: the prefix page, the words an interrupt uses
  chan,       \* the channel: [at, fetched, waited], see Start
  track,      \* the record that passes next, and whether that is known
  ipl2_addr,
  next,       \* has_next and next_cpa
  jump,       \* of JumpToIpl
  loaded      \* history: what the channel has stored where

vars == <<disk, pc, mem, prefix, chan, track, ipl2_addr, next, jump, loaded>>

Addr == 0..Words - 1
Zero == [kind |-> "zero"]
Idle == -1
End == -2   \* the program is over, its interrupt not yet taken
Over == -3  \* do_cio has returned
CCW(cmd, cda, chain) ==
  [kind |-> "ccw", cmd |-> cmd, cda |-> cda, chain |-> chain, rec |-> 0]

Jump == INSTANCE JumpToIpl
Firmware == Jump!Firmware
Channel == INSTANCE ChannelProgram
  WITH records <- disk.records, at <- chan.at, pos <- track.pos

Init ==
  /\ disk \in Disks
  /\ pc = "make_readipl"
  /\ mem = [a \in Addr |-> Zero]
  /\ prefix = [on |-> FALSE, page |-> [a \in {} |-> Zero]]
  /\ chan = [at |-> Idle, fetched |-> mem, waited |-> FALSE]
  /\ track = [pos |-> 1, known |-> FALSE]
  /\ ipl2_addr = 0
  /\ next = [has |-> FALSE, cpa |-> 0]
  /\ jump = Jump!JumpIdle
  /\ loaded = [a \in Addr |-> Zero]

-----------------------------------------------------------------------------
(* do_cio: start the subchannel, wait, take the interrupt.  The CPU's low  *)
(* core is the prefix page while there is one.                             *)

(* ssch of the program at cpa, over the memory m.  A new program does not  *)
(* know what passes under the head.                                        *)
Start(m, cpa) ==
  /\ chan' = [at |-> cpa, fetched |-> m, waited |-> FALSE]
  /\ track' = [track EXCEPT !.known = FALSE]

Running == chan.at \in Nat

StoreLow(as) ==
  IF prefix.on THEN /\ prefix' = [prefix EXCEPT !.page = Jump!Store(@, as)]
                    /\ UNCHANGED mem
               ELSE /\ mem' = Jump!Store(mem, as)
                    /\ UNCHANGED prefix
Low(a) == IF prefix.on THEN prefix.page[a] ELSE mem[a]

(* consume_io_int: the new PSW is stored, the wait begins.                 *)
consume_io_int ==
  /\ Running \/ chan.at = End
  /\ ~ chan.waited
  /\ StoreLow({IoNewPsw})
  /\ chan' = [chan EXCEPT !.waited = TRUE]
  /\ UNCHANGED <<disk, pc, track, ipl2_addr, next, jump, loaded>>

(* The channel carries out a CCW as it was fetched.                        *)
ReadRecord(c, r) ==
  /\ mem' = Channel!Write(mem, c.cda, Channel!Record(r))
  /\ loaded' = Channel!Write(loaded, c.cda, Channel!Record(r))
  /\ track' = [pos |-> r + 1, known |-> TRUE]

ExecuteCcw ==
  /\ Channel!IsCcw(chan.fetched, chan.at)
  /\ LET c == chan.fetched[chan.at] IN
     /\ \/ /\ c.cmd = "READ_IPL"
           /\ ReadRecord(c, 1)
        \/ /\ c.cmd \in Channel!Reads
           /\ \E r \in IF track.known THEN {track.pos} ELSE DOMAIN disk.records :
                ReadRecord(c, r)
        \/ /\ c.cmd = "SEARCH"
           /\ track' = [pos |-> c.rec, known |-> TRUE]
           /\ UNCHANGED <<mem, loaded>>
        \/ /\ c.cmd \notin {"READ_IPL", "SEARCH"} \cup Channel!Reads
           /\ UNCHANGED <<mem, loaded, track>>
     /\ chan' = [chan EXCEPT !.at = IF c.chain
                                    THEN Channel!After(c, chan.fetched, chan.at)
                                    ELSE End]
  /\ UNCHANGED <<disk, pc, prefix, ipl2_addr, next, jump>>

(* The interrupt: it is lost on the firmware when the new PSW is not its.  *)
IoInterrupt ==
  /\ chan.at = End /\ chan.waited
  /\ StoreLow({SubchannelId, IoOldPsw})
  /\ chan' = [chan EXCEPT !.at = Over]
  /\ pc' = IF Low(IoNewPsw) = Firmware THEN pc ELSE "wild"
  /\ UNCHANGED <<disk, track, ipl2_addr, next, jump, loaded>>

(* What do_cio gives up on: a word that is no CCW or not in memory, and a  *)
(* broken device.  The caller panics.                                      *)
ProgramCheck ==
  /\ Running /\ ~ Channel!IsCcw(chan.fetched, chan.at)
  /\ pc' = "panic"
  /\ chan' = [chan EXCEPT !.at = Over]
  /\ UNCHANGED <<disk, mem, prefix, track, ipl2_addr, next, jump, loaded>>

DeviceError ==
  /\ Running
  /\ pc' = "ioerror"
  /\ chan' = [chan EXCEPT !.at = Over]
  /\ UNCHANGED <<disk, mem, prefix, track, ipl2_addr, next, jump, loaded>>

-----------------------------------------------------------------------------
(* IPL1 *)

make_readipl ==
  /\ pc = "make_readipl"
  /\ mem' = [mem EXCEPT ![0] = CCW("READ_IPL", 0, FALSE)]
  /\ Start(mem', 0)
  /\ pc' = "readipl"
  /\ UNCHANGED <<disk, prefix, ipl2_addr, next, jump, loaded>>

(* What is no CCW has an address, too, which check_ipl1 keeps from use.    *)
read_ipl2_addr(m) == IF m[2].kind = "ccw" THEN m[2].cda ELSE 0

check_ipl1 ==
  Channel!IsCcw(mem, 1) /\ mem[1].cmd = "READ" /\ Channel!IsTic(mem, 2)

(* IPL1's READ and TIC move up, a SEEK and a SEARCH for record 2 go before *)
(* them, and the READ loses its chain bit.                                 *)
ipl1_fixup(m) ==
  [m EXCEPT ![1] = CCW("SEEK", 6, TRUE),
            ![2] = [CCW("SEARCH", 7, TRUE) EXCEPT !.rec = 2],
            ![3] = CCW("TIC", 2, FALSE),
            ![4] = [m[1] EXCEPT !.chain = FALSE],
            ![5] = m[2],
            ![6] = Firmware, ![7] = Firmware]

(* The address of IPL2 is taken before the TIC it is in is overwritten.    *)
(* Fault: after.                                                           *)
RunIpl1Late ==
  /\ pc = "readipl" /\ chan.at = Over
  /\ IF check_ipl1
     THEN /\ mem' = ipl1_fixup(mem)
          /\ ipl2_addr' = read_ipl2_addr(mem')
          /\ Start(mem', 1)
          /\ pc' = "ipl1"
     ELSE /\ pc' = "panic"
          /\ UNCHANGED <<mem, chan, track, ipl2_addr>>
  /\ UNCHANGED <<disk, prefix, next, jump, loaded>>

RunIpl1 ==
  /\ pc = "readipl" /\ chan.at = Over
  /\ ipl2_addr' = read_ipl2_addr(mem)
  /\ IF check_ipl1
     THEN /\ mem' = ipl1_fixup(mem)
          /\ Start(mem', 1)
          /\ pc' = "ipl1"
     ELSE /\ pc' = "panic"
          /\ UNCHANGED <<mem, chan, track>>
  /\ UNCHANGED <<disk, prefix, next, jump, loaded>>

check_ipl2 ==
  /\ pc = "ipl1" /\ chan.at = Over
  /\ pc' = IF ipl2_addr \in Addr \ {0} /\ mem[ipl2_addr].kind # "zero"
           THEN "ipl2" ELSE "panic"
  /\ next' = [has |-> TRUE, cpa |-> ipl2_addr]
  /\ UNCHANGED <<disk, mem, prefix, chan, track, ipl2_addr, jump, loaded>>

-----------------------------------------------------------------------------
(* IPL2 in pieces *)

is_read_tic_ccw_chain(m, a) ==
  m[a].cmd \in Channel!Reads /\ m[a].chain /\ Channel!IsTic(m, a + 1)
InlineTic(m, a) == m[a].cmd = "TIC" /\ m[a].cda = a - 1

(* The scan for a cut goes on over inline TICs, which have no chain bit,   *)
(* and over chained CCWs.  Fault: an inline TIC is taken for the end.      *)
ScanNeedsChain(m, a) ==
  /\ Channel!IsCcw(m, a)
  /\ m[a].chain /\ ~ is_read_tic_ccw_chain(m, a)
ScanGoesOn(m, a) ==
  /\ Channel!IsCcw(m, a)
  /\ InlineTic(m, a) \/ (m[a].chain /\ ~ is_read_tic_ccw_chain(m, a))

(* Where the program goes on.  Fault: where the READ stores.               *)
read_ccw(m, cut) == m[cut]
tic_ccw(m, cut) == m[cut + 1]

(* The CCW of the program at cpa to cut after, or -1: the READ it reaches. *)
NoCut == -1
CutsAt(m, cpa, a) ==
  /\ Channel!IsCcw(m, a) /\ is_read_tic_ccw_chain(m, a)
  /\ \A b \in cpa..a - 1 : ScanGoesOn(m, b)
dynamic_cp_fixup(m, cpa) ==
  IF \E a \in Addr : a >= cpa /\ CutsAt(m, cpa, a)
  THEN CHOOSE a \in Addr : a >= cpa /\ CutsAt(m, cpa, a)
  ELSE NoCut

(* enable_prefixing copies the low core.  Fault: it is not done.           *)
NoPrefix(m) == UNCHANGED prefix
enable_prefixing(m) ==
  prefix' = [on |-> TRUE,
             page |-> [a \in {SubchannelId, IoOldPsw, IoNewPsw} |-> m[a]]]

(* run_dynamic_ccw_program: a line is printed before there is a prefix.    *)
RunPiece ==
  /\ pc = "ipl2"
  /\ LET cut == dynamic_cp_fixup(mem, next.cpa)
     IN /\ mem' = Jump!sclp_print(IF cut = NoCut THEN mem
                                  ELSE [mem EXCEPT ![cut].chain = FALSE])
        /\ next' = IF cut = NoCut THEN [next EXCEPT !.has = FALSE]
                   ELSE [has |-> TRUE, cpa |-> tic_ccw(mem, cut).cda]
  /\ enable_prefixing(mem')
  /\ Start(mem', next.cpa)
  /\ pc' = "piece"
  /\ UNCHANGED <<disk, ipl2_addr, jump, loaded>>

(* disable_prefixing brings the interrupt information back.                *)
disable_prefixing ==
  /\ pc = "piece" /\ chan.at = Over
  /\ prefix' = [prefix EXCEPT !.on = FALSE]
  /\ mem' = [mem EXCEPT ![SubchannelId] = Low(SubchannelId)]
  /\ pc' = IF next.has THEN "ipl2" ELSE "start"
  /\ UNCHANGED <<disk, chan, track, ipl2_addr, next, jump, loaded>>

(* dasd_ipl: the masks are 64 bits, the fields 32.  PSW_MASK_BAMODE is     *)
(* bit 31 of its field and is set; PSW_MASK_EAMODE is bit 32 and is lost.  *)
ForceZMode(word) ==
  IF word.kind = "psw" THEN [word EXCEPT !.ba = TRUE] ELSE word

StartGuest ==
  /\ pc = "start"
  /\ LET m == [mem EXCEPT ![0] = ForceZMode(@)]
     IN Jump!jump_to_IPL_code(m, Jump!LowKernel(m))
  /\ pc' = "jump"
  /\ UNCHANGED <<disk, prefix, chan, track, ipl2_addr, next, loaded>>

Entering ==
  /\ Jump!JumpNext
  /\ UNCHANGED <<disk, pc, prefix, chan, track, ipl2_addr, next, loaded>>

-----------------------------------------------------------------------------
Boot ==
  \/ make_readipl \/ RunIpl1 \/ check_ipl2
  \/ RunPiece \/ disable_prefixing \/ StartGuest \/ Entering
  \/ consume_io_int
Device == ExecuteCcw \/ IoInterrupt \/ ProgramCheck
Next == Boot \/ Device \/ DeviceError

Spec == Init /\ [][Next]_vars

(* The firmware goes on, and a started channel program is carried out; a   *)
(* device need not break.                                                  *)
FairSpec == Spec /\ WF_vars(Boot) /\ WF_vars(Device)

-----------------------------------------------------------------------------
(* The channel is in the memory, and the firmware in one of its states;    *)
(* the prefix page is there just while a piece runs.                       *)
TypeOK ==
  /\ pc \in {"make_readipl", "readipl", "ipl1", "ipl2", "piece", "start",
             "jump", "panic", "ioerror", "wild"}
  /\ chan.at \in Nat \cup {Idle, End, Over} /\ DOMAIN chan.fetched = Addr
  /\ DOMAIN mem = Addr /\ DOMAIN loaded = Addr
  /\ track.pos \in Nat /\ track.known \in BOOLEAN
  /\ ipl2_addr \in Nat /\ next.cpa \in Nat
  /\ prefix.on => pc \in {"piece", "panic", "ioerror", "wild"}

(* Run in pieces, the program does what it does in one: every CCW that is  *)
(* carried out is the one that memory held when its turn came, the reads   *)
(* get the records they were to get, and nothing is left out or repeated.  *)
UncutAt ==
  CASE pc \in {"panic", "ioerror", "wild"} -> Channel!Failed
    [] pc = "make_readipl" -> Channel!AtIpl
    [] pc = "readipl" -> IF Running THEN Channel!AtIpl ELSE Channel!AtIpl1
    [] pc = "ipl1" -> IF Running THEN Channel!AtIpl1
                      ELSE disk.records[1][3].cda
    [] pc = "ipl2" -> next.cpa
    [] pc = "piece" -> IF Running THEN chan.at
                       ELSE IF next.has THEN next.cpa ELSE Channel!Done
    [] OTHER -> Channel!Done
Uncut ==
  INSTANCE ChannelProgram WITH
    records <- disk.records, mem <- loaded, at <- UncutAt, pos <- track.pos
ImplementsUncut == Uncut!Spec

(* What the channel has read is what the guest finds, although I/O         *)
(* interrupts stored in the low core while it was read: only the CCWs of   *)
(* IPL1, the interrupt information, what the firmware prints over and      *)
(* chain bits may differ.  It is entered at its PSW, with 31-bit mode      *)
(* added, or as Linux.                                                     *)
Scratch == 1..7 \cup {SubchannelId} \cup ConsoleWords
Unchained(word) == IF word.kind = "ccw" THEN [word EXCEPT !.chain = FALSE]
                                        ELSE word
GuestMemoryKept ==
  jump.at = "guest" =>
    /\ \A a \in Addr \ (Scratch \cup {0}) :
         loaded[a].kind # "zero" =>
           mem[a] \in {loaded[a], Unchained(loaded[a])}
    /\ mem[0] = ForceZMode(loaded[0])
    /\ IF loaded[S390EP].kind = "S390EP"
       THEN jump.entered.addr = KERN_IMAGE_START
       ELSE jump.entered = mem[0]

(* The records a READ at a may find under the head in a program that runs  *)
(* in m from a CCW on: it follows a SEARCH at once, or other READs do; or  *)
(* the record that passes is known.                                        *)
Unknown == -1
RecordsAt(m, from, a, passes) ==
  {m[b].rec + (a - b - 2) :
     b \in {b \in from..a - 1 :
             /\ m[b].cmd = "SEARCH"
             /\ \A c \in b + 2..a - 1 : m[c].cmd \in Channel!Reads}}
  \cup IF passes # Unknown /\ \A c \in from..a - 1 : m[c].cmd \in Channel!Reads
       THEN {passes + (a - from)} ELSE {}

(* The channel programs the heuristic of dynamic_cp_fixup is made for:     *)
(* they go straight on from one CCW to the next, only a SEARCH followed by *)
(* the TIC back to it; they search before they read; a READ that is not    *)
(* the end does not store over what is still to come; and the end is a CCW *)
(* without chain bit, or a READ and the TIC to where the program goes on.  *)
Straight(m, from, to, passes) ==
  /\ from <= to
  /\ \A a \in from..to : Channel!IsCcw(m, a) /\ m[a].cmd # "READ_IPL"
  /\ m[from].cmd # "TIC" /\ m[to].cmd \notin {"TIC", "SEARCH"}
  /\ \A a \in from..to : m[a].cmd = "SEARCH" =>
       /\ a + 2 <= to /\ m[a].chain
       /\ m[a + 1].cmd = "TIC" /\ m[a + 1].cda = a /\ m[a + 2].cmd # "TIC"
  /\ \A a \in from..to - 1 :
       /\ m[a + 1].cmd = "TIC" => m[a].cmd = "SEARCH"
       /\ m[a].cmd # "TIC" => m[a].chain
  /\ \A a \in from..to : m[a].cmd \in Channel!Reads =>
       /\ RecordsAt(m, from, a, passes) # {}
       /\ m[a].chain => \A r \in RecordsAt(m, from, a, passes), b \in a + 1..to + 1 :
                          b - m[a].cda + 1 \notin DOMAIN Channel!Record(r)
  /\ m[to].chain => m[to].cmd \in Channel!Reads /\ Channel!IsTic(m, to + 1)

(* From IPL1 on there is a PSW at 0, and nothing is read to where an I/O   *)
(* interrupt has its PSWs before there is a prefix.                        *)
LowCoreRespected ==
  /\ pc \in {"ipl1", "ipl2", "piece", "start", "jump"} => loaded[0].kind = "psw"
  /\ pc \in {"readipl", "ipl1"} =>
       loaded[IoOldPsw].kind = "zero" /\ loaded[IoNewPsw].kind = "zero"

(* Each piece, when its turn comes, is such a program, keeps off the words *)
(* the firmware and interrupts use, and was not cut before.                *)
PiecesStraight ==
  pc = "ipl2" =>
    \E to \in Addr :
      /\ Straight(loaded, next.cpa, to, Unknown)
      /\ \A a \in next.cpa..to + 1 :
           a \notin 0..7 \cup {SubchannelId, IoOldPsw, IoNewPsw} \cup ConsoleWords
      /\ \A a \in next.cpa..to : mem[a].chain = loaded[a].chain

(* On every sound disk the pieces the firmware cuts are of this kind: a    *)
(* cut never leads to where there is no program.                           *)
SoundDisksSupported == disk.sound => LowCoreRespected /\ PiecesStraight

(* Every sound disk starts, unless the device breaks: no piece waits for   *)
(* an interrupt that goes elsewhere, and no cut is missed.                 *)
SoundDisksStart ==
  disk.sound => <>(jump.at = "guest" \/ pc = "ioerror")
===============================================================================
