------------------------------- MODULE BootMap --------------------------------
(***************************************************************************)
(* The boot maps zipl writes on a disk and the loader follows              *)
(* (pc-bios/s390-ccw/bootmap.c).  A map is a table of programs; a program  *)
(* is a script of components; a component is a chain of blocks of pointers *)
(* to the blocks to load.  ipl_scsi is tried first; ipl_eckd then tells    *)
(* the layouts of a DASD apart, and may look for a menu in the blocks of   *)
(* the second boot stage.                                                  *)
(*                                                                         *)
(* A block is a record with a "kind" and the fields the loader looks at.   *)
(* Block numbers and addresses count blocks; a pointer is where it points  *)
(* to ("at"), whether its size field is the block size ("sized") and the   *)
(* blocks after the first ("count").  Bounds: MEMORY, the addresses that   *)
(* can be loaded, above the low core interrupts store to, and the          *)
(* constants named after the loader's.                                     *)
(***************************************************************************)
EXTENDS Libc

CONSTANTS MapDisks,           \* the disks a boot may find
          Loadparms,          \* the entries the machine may ask for
          SECTORS, HEADS,     \* geometry of a DASD
          MAX_BOOT_ENTRIES,   \* entries of a table
          STAGE2_BLK_CNT_MAX, \* seek arguments of stage 1b
          MAX_COMPONENTS,     \* entries that fit in the largest script
          MaxBprs,            \* slots of the pointer buffer, for each scheme
          MEMORY

ASSUME GeometryAssumption ==
  /\ SECTORS \in Nat \ {0} /\ HEADS \in 1..16
  /\ MAX_BOOT_ENTRIES \in Nat /\ STAGE2_BLK_CNT_MAX \in Nat
  /\ MAX_COMPONENTS \in Nat /\ MEMORY \in Nat
  /\ MaxBprs \in [{"scsi", "eckd"} -> Nat \ 0..1]
  /\ Loadparms \subseteq Nat

VARIABLES
  disk,   \* the disk booted from
  step,   \* where the loader is
  boot,   \* scheme, whether a menu is wanted, the saved block numbers
  buf,    \* the buffers sec, _bprs and tmp_sec: the block each one holds
  s2,     \* the buffers of _s2: numbers of the blocks read, 0 for filler
  seek,   \* stage 2: the seek argument looked at and the block before it
  index,  \* the entry of the table that is booted
  pos,    \* entry of the script
  list,   \* the chain: block to read, slot, address to load to
  mem,    \* memory: the number of the block each address holds
  psw     \* the reset PSW

mapVars == <<disk, step, boot, buf, s2, seek, index, pos, list, mem, psw>>

-----------------------------------------------------------------------------
(* Pointers *)

eckd_block_num(chs) ==
  LET cylinder == chs.cylinder + (chs.head \div 16) * 65536
  IN SECTORS * HEADS * cylinder + SECTORS * (chs.head % 16) + chs.sector - 1

eckd_valid_address(d, chs) ==
  /\ chs.head % 16 < HEADS
  /\ chs.sector \in 1..SECTORS
  /\ d.guessed \/ eckd_block_num(chs) < d.blocks

BlockOf(s, p) == IF s = "scsi" THEN p.at ELSE eckd_block_num(p.at)
NullBlock(s) == IF s = "scsi" THEN 0 ELSE -1

(* Memory nobody wrote: FREE_SPACE_FILLER read as a pointer.               *)
Filler(s) ==
  [at |-> IF s = "scsi" THEN 11184810
          ELSE [cylinder |-> 43690, head |-> 43690, sector |-> 170],
   sized |-> FALSE, count |-> 170]

(* The block a number reads: READ(10) of virtio-scsi has 32 bits for it.   *)
Sector(d, n) == IF d.device = "scsi" THEN n % WORD ELSE n
Readable(d, n) == Sector(d, n) \in 0..d.blocks - 1
Read(d, n) == IF Sector(d, n) \in DOMAIN d.content THEN d.content[Sector(d, n)]
                                                  ELSE [kind |-> "data"]
Blank == [kind |-> "blank"]

(* Program tables and scripts, as whatever the buffer holds shows them.    *)
Entries(s, table) == {n \in DOMAIN table.entries :
                        BlockOf(s, table.entries[n]) # NullBlock(s)}
ScriptBuffer(s) == IF s = "scsi" THEN "tmp" ELSE "sec"
ScriptEntry(c, k) ==
  IF c.kind = "script" /\ k + 1 \in DOMAIN c.entries THEN c.entries[k + 1]
                                                     ELSE [type |-> "other"]

(* Blocks of pointers: what a short block does not cover is filler.        *)
ListBuffer(s) == IF s = "scsi" THEN "sec" ELSE "bprs"
Slot(s, c, j) ==
  IF c.kind = "list" /\ j + 1 \in DOMAIN c.slots THEN c.slots[j + 1]
                                                 ELSE Filler(s)

(* A pointer leads to the next block of the chain when it is in the last   *)
(* slot, or points to one block and unused space follows it.               *)
ContinuesAt(s, c, j) ==
  \/ j = MaxBprs[s] - 1
  \/ Slot(s, c, j).count = 0 /\ Slot(s, c, j + 1) = Filler(s)

(* What is asserted of a pointer before it is followed or loaded.  ECKD    *)
(* asserts it before it asks whether the chain continues.                  *)
SoundPointer(d, s, p) ==
  p.sized /\ (s = "eckd" => eckd_valid_address(d, p.at))
Followed(d, s, c, j) ==
  s = "scsi" \/ j = MaxBprs[s] - 1 \/ SoundPointer(d, s, Slot(s, c, j))

(* The first block of a chunk: virtio_load_direct, which only the SCSI     *)
(* scheme goes through, has an int for it.  A negative one is read as a    *)
(* number beyond any disk, except for its low 32 bits (see Sector).        *)
LoadBlock(d, s, n) == Sector(d, IF s = "scsi" THEN CInt(n) ELSE n)
Loadable(d, s, p) ==
  /\ SoundPointer(d, s, p)
  /\ \A k \in 0..p.count : LoadBlock(d, s, BlockOf(s, p)) + k \in 0..d.blocks - 1

(* A pointer's count is that of the blocks after the first.  Fault: of all *)
(* of them.                                                                *)
LoadCount(d, s, m, address, p) ==
  [a \in DOMAIN m |-> IF a \in address..address + p.count - 1
                      THEN LoadBlock(d, s, BlockOf(s, p)) + (a - address)
                      ELSE m[a]]
LoadChunk(d, s, m, address, p) ==
  [a \in DOMAIN m |-> IF a \in address..address + p.count
                      THEN LoadBlock(d, s, BlockOf(s, p)) + (a - address)
                      ELSE m[a]]

-----------------------------------------------------------------------------
(* A disk: the "device" it is behind, virtio-blk or virtio-scsi; its       *)
(* "content", the number of its "blocks", how many entries of a script a   *)
(* block has "room" for, whether its geometry was "guessed"; and what is   *)
(* known of what zipl put on it.  "stage2" are                             *)
(* the blocks of stage 2, and "banner" which one has the banner.  Of each  *)
(* entry "programs" has the PSW and the components: where one is loaded    *)
(* ("address"), its "blocks", and for each of its blocks of pointers how   *)
(* many of them come "before" each slot.  Damaged disks are disks, too:    *)
(* nothing is asked of what the loader refuses.                            *)

SchemeOf(d) == IF Read(d, 0).kind = "mbr" THEN "scsi" ELSE "eckd"

(* The block of the table: that of the MBR, or of what points to the boot  *)
(* script on a DASD.                                                       *)
TableInfo(d) == Read(d, IF Read(d, 0).kind = "bootinfo" THEN 0 ELSE 1)
TableBlock(d) == IF SchemeOf(d) = "scsi" THEN Read(d, 0).pt
                                         ELSE eckd_block_num(TableInfo(d).bmt)
HasTable(d) ==
  IF SchemeOf(d) = "scsi" THEN Read(d, TableBlock(d)).kind = "table"
                          ELSE TableInfo(d).kind \in {"bootinfo", "ipl2"}
ScriptOf(d, n) ==
  Read(d, BlockOf(SchemeOf(d), Read(d, TableBlock(d)).entries[n]))

BlockSound(c) ==
  /\ c.kind = "list" => \A k \in DOMAIN c.slots : c.slots[k].count \in Nat
  /\ c.kind = "script" =>
       \A k \in DOMAIN c.entries :
         /\ c.entries[k].type \in {"load", "signature"} =>
              k \in 1..MAX_COMPONENTS
         /\ c.entries[k].type = "load" => c.entries[k].address \in Nat
BlocksSound(d) ==
  /\ d.blocks \in Nat \ 0..2 /\ DOMAIN d.content \subseteq 0..d.blocks - 1
  /\ d.device \in {"block", "scsi"} /\ d.room \in 1..MAX_COMPONENTS
  /\ d.device = "scsi" => d.blocks < WORD
  /\ \A b \in DOMAIN d.content :
       /\ BlockSound(d.content[b])
       /\ d.content[b].kind = "script" =>
            DOMAIN d.content[b].entries \subseteq 1..d.room
  /\ HasTable(d) => /\ Read(d, TableBlock(d)).kind = "table"
                    /\ DOMAIN Read(d, TableBlock(d)).entries
                         = 0..MAX_BOOT_ENTRIES - 1

(* The chain of a component, from a block of pointers to the next: a slot  *)
(* that is loaded has the blocks whose turn it is, and where the chain     *)
(* ends, all of them are loaded.                                           *)
IsList(d, b) == Readable(d, b) /\ Read(d, b).kind = "list"
Starts(c, b, n) ==
  b \in DOMAIN c.before /\ 0 \in DOMAIN c.before[b] /\ c.before[b][0] = n
SlotWritten(d, c, b, j) ==
  LET s == SchemeOf(d)
      l == Read(d, b)
      p == Slot(s, l, j)
      n == c.before[b][j]
      to == BlockOf(s, p)
  IN IF to = NullBlock(s) THEN n = Len(c.blocks)
     ELSE /\ ContinuesAt(s, l, j) /\ Followed(d, s, l, j) /\ IsList(d, to) =>
               Starts(c, to, n)
          /\ ~ ContinuesAt(s, l, j) /\ Loadable(d, s, p) =>
               /\ to \in Nat
               /\ j + 1 \in DOMAIN c.before[b]
               /\ c.before[b][j + 1] = n + p.count + 1
               /\ \A k \in 0..p.count : /\ n + k + 1 \in DOMAIN c.blocks
                                        /\ c.blocks[n + k + 1] = to + k
ComponentWritten(d, c) ==
  /\ c.address \in Nat /\ c.blocks \in Seq(Nat)
  /\ \A b \in DOMAIN c.before : \A j \in DOMAIN c.before[b] :
       c.before[b][j] \in Nat /\ SlotWritten(d, c, b, j)

(* The script of a program: what it loads is a component, and when it gets *)
(* to its PSW it has loaded all of them.                                   *)
Components(d, n) ==
  IF n \in DOMAIN d.programs
  THEN {d.programs[n].components[k] : k \in DOMAIN d.programs[n].components}
  ELSE {}
Loads(d, e, c) ==
  /\ e.type = "load" /\ c.address = e.address
  /\ Starts(c, BlockOf(SchemeOf(d), e), 0)
Refused(d, e) ==
  e.type = "load" /\ ~ IsList(d, BlockOf(SchemeOf(d), e))
ScriptWritten(d, n, entries) ==
  \A k \in DOMAIN entries :
    LET e == entries[k] IN
    /\ e.type = "load" =>
         Refused(d, e) \/ \E c \in Components(d, n) : Loads(d, e, c)
    /\ e.type = "exec" =>
         \/ \E i \in 1..k - 1 : Refused(d, entries[i])
         \/ /\ n \in DOMAIN d.programs /\ e.address = d.programs[n].psw
            /\ \A c \in Components(d, n) :
                 \E i \in 1..k - 1 : Loads(d, entries[i], c)

(* Components agree where they overlap.                                    *)
ProgramsWritten(d) ==
  /\ \A n \in DOMAIN d.programs :
       /\ \A c \in Components(d, n) : ComponentWritten(d, c)
       /\ \A c, e \in Components(d, n) :
            \A i \in DOMAIN c.blocks, k \in DOMAIN e.blocks :
              c.address + i = e.address + k => c.blocks[i] = e.blocks[k]
  /\ HasTable(d) =>
       \A n \in 0..MAX_BOOT_ENTRIES - 1 :
         ScriptOf(d, n).kind = "script" =>
           ScriptWritten(d, n, ScriptOf(d, n).entries)

(* The seek arguments that can be read are the blocks of stage 2 in order. *)
Stage2Written(d) ==
  /\ DOMAIN d.stage2 \subseteq 1..STAGE2_BLK_CNT_MAX
  /\ \A k \in DOMAIN d.stage2 :
       Read(d, d.stage2[k]).kind = "banner" => k = d.banner
  /\ \A b \in DOMAIN d.content : d.content[b].kind = "stage1b" =>
       \A k \in DOMAIN d.content[b].seek :
         LET to == eckd_block_num(d.content[b].seek[k])
         IN Readable(d, to) => k \in DOMAIN d.stage2 /\ d.stage2[k] = to

ASSUME DiskAssumption ==
  \A d \in MapDisks : BlocksSound(d) /\ ProgramsWritten(d) /\ Stage2Written(d)

-----------------------------------------------------------------------------
MapInit ==
  /\ disk \in MapDisks
  /\ \E menu \in BOOLEAN :
       boot = [scheme |-> "scsi", menu |-> menu, bmt |-> 0, s1b |-> 0]
  /\ step = "ipl_scsi"
  /\ buf = [sec |-> Blank, bprs |-> Blank, tmp |-> Blank]
  /\ s2 = [prev |-> 0, cur |-> 0, next |-> 0]
  /\ seek = [i |-> 0, prev |-> 0]
  /\ index \in Loadparms
  /\ pos = 0
  /\ list = [blk |-> 0, j |-> 0, address |-> 0]
  /\ mem = [a \in 0..MEMORY - 1 |-> 0]
  /\ psw = 0

-----------------------------------------------------------------------------
(* SCSI: the program table is read into sec, the script into tmp_sec.      *)

ipl_scsi ==
  /\ step = "ipl_scsi"
  /\ LET mbr == Read(disk, 0) IN
     \/ /\ mbr.kind # "mbr"
        /\ step' = "ipl_eckd"
        /\ boot' = [boot EXCEPT !.scheme = "eckd"]
        /\ buf' = [buf EXCEPT !.sec = mbr]
     \/ /\ mbr.kind = "mbr"
        /\ LET pt == Read(disk, mbr.pt) IN
             /\ buf' = [buf EXCEPT !.sec = pt]
             /\ step' = IF mbr.pt # 0 /\ pt.kind = "table"
                           /\ Entries(boot.scheme, pt) # {}
                        THEN "enum" ELSE "panic"
        /\ UNCHANGED boot
  /\ UNCHANGED <<disk, s2, seek, index, pos, list, mem, psw>>

(* The header of the program: the MBR has the magic and the type of one.   *)
zipl_run ==
  /\ step = "enum"
  /\ index' \in IF boot.menu THEN Entries(boot.scheme, buf.sec) ELSE {index}
  /\ LET b == BlockOf(boot.scheme, buf.sec.entries[index'])
         header == /\ index' < MAX_BOOT_ENTRIES
                   /\ Readable(disk, b)
                   /\ Read(disk, b).kind \in {"script", "mbr"}
     IN \/ /\ header
           /\ buf' = [buf EXCEPT !.tmp = Read(disk, b)]
           /\ step' = "script"
        \/ /\ ~ header
           /\ step' = "panic"
           /\ UNCHANGED buf
  /\ UNCHANGED <<disk, boot, s2, seek, pos, list, mem, psw>>

-----------------------------------------------------------------------------
(* ECKD: which layout the disk has.                                        *)

ipl_eckd ==
  /\ step = "ipl_eckd"
  /\ step' = CASE Read(disk, 0).kind = "ipl1" -> "cdl"
             [] Read(disk, 0).kind # "ipl1"
                  /\ Read(disk, 2).kind = "label"
                  /\ Read(disk, 2).magic \in {"CMS1", "LNX1"} -> "ldl"
             [] OTHER -> "unlabeled"
  /\ buf' = [buf EXCEPT !.sec = Read(disk, IF step' = "cdl" THEN 0 ELSE 2)]
  /\ UNCHANGED <<disk, boot, s2, seek, index, pos, list, mem, psw>>

(* verify_boot_info asserts; only a disk with no label may return to be    *)
(* tried as one with zero record keys.                                     *)
ipl_eckd_ldl ==
  /\ step \in {"ldl", "unlabeled"}
  /\ LET ipl1 == Read(disk, 0) IN
     /\ buf' = [buf EXCEPT !.sec = ipl1]
     /\ \/ /\ ipl1.kind = "bootinfo" /\ ipl1.verified
           /\ step' = "stage1b"
           /\ boot' = [boot EXCEPT !.bmt = eckd_block_num(ipl1.bmt),
                                   !.s1b = eckd_block_num(ipl1.s1b)]
        \/ /\ ipl1.kind # "bootinfo" /\ step = "unlabeled"
           /\ step' = "cdl"
           /\ UNCHANGED boot
        \/ /\ IF ipl1.kind = "bootinfo" THEN ~ ipl1.verified ELSE step = "ldl"
           /\ step' = "panic"
           /\ UNCHANGED boot
  /\ UNCHANGED <<disk, s2, seek, index, pos, list, mem, psw>>

(* IPL2 is left behind in sec by the volume label: what it points to is    *)
(* saved first.                                                            *)
ipl_eckd_cdl ==
  /\ step = "cdl"
  /\ LET ipl2 == Read(disk, 1)
         usable == ipl2.kind = "ipl2" /\ ipl2.sized /\ ipl2.eckd
         vol1 == Read(disk, 2).kind = "label" /\ Read(disk, 2).magic = "VOL1"
     IN /\ buf' = [buf EXCEPT !.sec = IF usable THEN Read(disk, 2) ELSE ipl2]
        /\ boot' = IF usable THEN [boot EXCEPT !.bmt = eckd_block_num(ipl2.bmt),
                                               !.s1b = eckd_block_num(ipl2.s1b)]
                             ELSE boot
        /\ step' = IF usable /\ vol1 THEN "stage1b" ELSE "failed"
  /\ UNCHANGED <<disk, s2, seek, index, pos, list, mem, psw>>

-----------------------------------------------------------------------------
(* The menu in stage 2: the block with the banner and its neighbours.      *)

(* run_eckd_boot_script, up to the first seek argument.                    *)
ReadStage1b ==
  /\ step = "stage1b"
  /\ \/ /\ ~ boot.menu
        /\ step' = "table"
        /\ UNCHANGED <<buf, s2, seek>>
     \/ /\ boot.menu /\ Readable(disk, boot.s1b)
        /\ buf' = [buf EXCEPT !.sec = Read(disk, boot.s1b)]
        /\ s2' = [prev |-> 0, cur |-> 0, next |-> 0]
        /\ seek' = [i |-> 0, prev |-> 0]
        /\ step' = "stage2"
     \/ /\ boot.menu /\ ~ Readable(disk, boot.s1b)
        /\ step' = "panic"
        /\ UNCHANGED <<buf, s2, seek>>
  /\ UNCHANGED <<disk, boot, index, pos, list, mem, psw>>

(* Arguments after the last one are zero, which is block -1.               *)
SeekBlock(i) ==
  IF buf.sec.kind = "stage1b" /\ i + 1 \in DOMAIN buf.sec.seek
  THEN eckd_block_num(buf.sec.seek[i + 1]) ELSE -1

(* The number of the next block stays 0 after the last argument.  Faults:  *)
(* it is the same argument's; it is taken from past the last one.          *)
CurrentSeekBlock == SeekBlock(seek.i)
UnboundedSeekBlock == SeekBlock(seek.i + 1)
NextSeekBlock == IF seek.i + 1 < STAGE2_BLK_CNT_MAX THEN SeekBlock(seek.i + 1)
                                                     ELSE 0

(* eckd_get_boot_menu_index: one turn of its loop.                         *)
ScanStage2 ==
  /\ step = "stage2"
  /\ LET cur == SeekBlock(seek.i)
         prev == seek.prev
         next == NextSeekBlock
     IN \/ /\ seek.i = STAGE2_BLK_CNT_MAX \/ cur \in {0, -1}
           /\ index' = 0
           /\ step' = "table"
           /\ UNCHANGED <<s2, seek>>
        \/ /\ seek.i < STAGE2_BLK_CNT_MAX /\ cur \notin {0, -1}
           /\ UNCHANGED index
           /\ IF ~ Readable(disk, cur)
              THEN step' = "panic" /\ UNCHANGED <<s2, seek>>
              ELSE IF Read(disk, cur).kind = "banner"
              THEN /\ s2' = [prev |-> IF prev # 0 THEN prev ELSE s2.prev,
                             cur |-> cur,
                             next |-> IF next # 0 THEN next ELSE s2.next]
                   /\ step' = IF next # 0 => Readable(disk, next) THEN "menu"
                                                          ELSE "panic"
                   /\ UNCHANGED seek
              ELSE /\ s2' = [s2 EXCEPT !.cur = cur]
                   /\ seek' = [i |-> seek.i + 1, prev |-> cur]
                   /\ UNCHANGED step
  /\ UNCHANGED <<disk, boot, buf, pos, list, mem, psw>>

(* menu_get_zipl_boot_index (module Menu) answers.                         *)
MenuAnswers ==
  /\ step = "menu"
  /\ index' \in 0..MAX_BOOT_ENTRIES - 1
  /\ step' = "table"
  /\ UNCHANGED <<disk, boot, buf, s2, seek, pos, list, mem, psw>>

(* run_eckd_boot_script: the table, then over it the script.               *)
ReadScript ==
  /\ step = "table"
  /\ LET bmt == Read(disk, boot.bmt)
         b == BlockOf(boot.scheme, bmt.entries[index])
         found == /\ index < MAX_BOOT_ENTRIES /\ Readable(disk, boot.bmt)
                  /\ b # NullBlock(boot.scheme) /\ Readable(disk, b)
     IN \/ /\ found
           /\ buf' = [buf EXCEPT !.sec = Read(disk, b)]
           /\ step' = "script"
        \/ /\ ~ found
           /\ step' = "panic"
           /\ buf' = [buf EXCEPT !.sec = bmt]
  /\ UNCHANGED <<disk, boot, s2, seek, index, pos, list, mem, psw>>

-----------------------------------------------------------------------------
(* The script: components to load, signatures to skip, the PSW to start.   *)

(* zipl_run has one block of the script in tmp_sec, the rest of which is   *)
(* not initialised, and past signatures no assertion keeps it in there:    *)
(* then what memory holds is taken for an entry.  The assertion after the  *)
(* loop may fail; whatever else comes of it is the step "wild".            *)
PastScript == boot.scheme = "scsi" /\ pos >= disk.room
RunPastScript ==
  /\ step = "script" /\ PastScript
  /\ step' \in {"panic", "wild"}
  /\ UNCHANGED <<disk, boot, buf, s2, seek, index, pos, list, mem, psw>>

ScriptStep ==
  /\ step = "script" /\ ~ PastScript
  /\ LET e == ScriptEntry(buf[ScriptBuffer(boot.scheme)], pos) IN
     \/ /\ e.type = "load"
        /\ list' = [blk |-> BlockOf(boot.scheme, e), j |-> 0,
                    address |-> e.address]
        /\ step' = "read"
        /\ UNCHANGED <<pos, psw>>
     \/ /\ e.type = "signature"
        /\ pos' = pos + 1
        /\ UNCHANGED <<step, list, psw>>
     \/ /\ e.type = "exec"
        /\ psw' = e.address
        /\ step' = "jump"
        /\ UNCHANGED <<pos, list>>
     \/ /\ e.type = "other"
        /\ step' = "panic"
        /\ UNCHANGED <<pos, list, psw>>
  /\ UNCHANGED <<disk, boot, buf, s2, seek, index, mem>>

(* load_eckd_segments and zipl_load_segment: a block of pointers.          *)
ReadList ==
  /\ step = "read"
  /\ \/ /\ Readable(disk, list.blk)
        /\ buf' = [buf EXCEPT ![ListBuffer(boot.scheme)] =
                                 Read(disk, list.blk)]
        /\ list' = [list EXCEPT !.j = 0]
        /\ step' = "walk"
     \/ /\ ~ Readable(disk, list.blk)
        /\ step' = "panic"
        /\ UNCHANGED <<buf, list>>
  /\ UNCHANGED <<disk, boot, s2, seek, index, pos, mem, psw>>

(* One turn of the loop over the slots.  Fault: the last slot is like the  *)
(* others.                                                                 *)
CurrentList == buf[ListBuffer(boot.scheme)]
ContinuesBeforeFiller ==
  /\ Slot(boot.scheme, CurrentList, list.j).count = 0
  /\ Slot(boot.scheme, CurrentList, list.j + 1) = Filler(boot.scheme)
Continues == ContinuesAt(boot.scheme, CurrentList, list.j)
WalkList ==
  /\ step = "walk"
  /\ LET s == boot.scheme
         p == Slot(s, CurrentList, list.j)
         end == BlockOf(s, p) = NullBlock(s)
     IN \/ /\ end
           /\ pos' = pos + 1
           /\ step' = IF s = "scsi" /\ pos + 1 >= MAX_COMPONENTS
                      THEN "panic" ELSE "script"
           /\ UNCHANGED <<list, mem>>
        \/ /\ ~ end /\ Continues /\ Followed(disk, s, CurrentList, list.j)
           /\ list' = [list EXCEPT !.blk = BlockOf(s, p)]
           /\ step' = "read"
           /\ UNCHANGED <<pos, mem>>
        \/ /\ ~ end /\ ~ Continues /\ Loadable(disk, s, p)
           /\ mem' = LoadChunk(disk, s, mem, list.address, p)
           /\ list' = [list EXCEPT !.j = @ + 1, !.address = @ + p.count + 1]
           /\ UNCHANGED <<step, pos>>
        \/ /\ ~ end
           /\ IF Continues THEN ~ Followed(disk, s, CurrentList, list.j)
                           ELSE ~ Loadable(disk, s, p)
           /\ step' = "panic"
           /\ UNCHANGED <<pos, list, mem>>
  /\ UNCHANGED <<disk, boot, buf, s2, seek, index, psw>>

-----------------------------------------------------------------------------
MapNext ==
  \/ ipl_scsi \/ zipl_run
  \/ ipl_eckd \/ ipl_eckd_ldl \/ ipl_eckd_cdl
  \/ ReadStage1b \/ ScanStage2 \/ MenuAnswers \/ ReadScript
  \/ ScriptStep \/ RunPastScript \/ ReadList \/ WalkList

MapSpec == MapInit /\ [][MapNext]_mapVars

(* The loader is one thread that never waits; the menu always answers.     *)
MapFairSpec == MapSpec /\ WF_mapVars(MapNext)

-----------------------------------------------------------------------------
(* Properties.  A disk is "sound" when nothing on it is damaged, what is   *)
(* loaded lies where its numbers lead to (see LoadBlock) and the banner is *)
(* in no block after which the arguments end (see NextSeekBlock: block -1  *)
(* would be read).                                                         *)

Steps == {"ipl_scsi", "enum", "ipl_eckd", "cdl", "ldl", "unlabeled", "stage1b",
          "stage2", "menu", "table", "script", "read", "walk", "jump", "panic",
          "failed", "wild"}

(* The indices of the walk stay in the arrays they index: the slots of the *)
(* pointer buffer and the arguments of stage 1b.  The entry of a script    *)
(* that is looked at may be the one past the last (see RunPastScript), but *)
(* components are only loaded from entries in the buffer.                  *)
MapTypeOK ==
  /\ step \in Steps
  /\ boot.scheme \in {"scsi", "eckd"}
  /\ seek.i \in 0..STAGE2_BLK_CNT_MAX
  /\ list.j \in 0..MaxBprs[boot.scheme] - 1
  /\ pos \in 0..MAX_COMPONENTS
  /\ step \in {"read", "walk"} => pos < MAX_COMPONENTS
  /\ list.address \in Nat
  /\ mem \in [0..MEMORY - 1 -> 0..disk.blocks - 1]

(* What memory holds when every component of a program is at its address.  *)
BlocksAt(program, a) ==
  {b \in 1..disk.blocks :
     \E c \in DOMAIN program.components :
       LET component == program.components[c]
       IN /\ a - component.address + 1 \in DOMAIN component.blocks
          /\ b = component.blocks[a - component.address + 1]}
Image(program) ==
  [a \in 0..MEMORY - 1 |->
     IF BlocksAt(program, a) = {} THEN 0
     ELSE CHOOSE b \in BlocksAt(program, a) : TRUE]

(* Whatever the layout, the lengths of the chains and the buffers that are *)
(* read over one another: a program that is started is the one that was    *)
(* asked for, all of its components are in memory, each block once and in  *)
(* its place, and nothing else was written.  That much cannot be said of a *)
(* program with blocks past the largest int (see LoadBlock).               *)
InReach(d, n) ==
  \A c \in Components(d, n) : \A k \in DOMAIN c.blocks :
    c.blocks[k] < WORD \div 2
LoadedWhole ==
  step = "jump" /\ InReach(disk, index) =>
    /\ index \in DOMAIN disk.programs
    /\ mem = Image(disk.programs[index])
    /\ psw = disk.programs[index].psw

(* The text of the menu may span blocks: when it is read, the buffers      *)
(* before and after the banner's hold its neighbours in stage 2 and        *)
(* nothing where stage 2 has no block.                                     *)
MenuWhole ==
  LET n == disk.banner
      Stage2(k) == IF k \in DOMAIN disk.stage2 THEN disk.stage2[k] ELSE 0
  IN step = "menu" =>
       s2 = [prev |-> Stage2(n - 1), cur |-> Stage2(n), next |-> Stage2(n + 1)]

(* Every sound disk of every layout boots: the chains end, no assertion    *)
(* fails and no layout is taken for another.  Only an entry that is not    *)
(* there stops it.                                                         *)
SoundDisksBoot ==
  disk.sound =>
    <>(step = "jump" \/ (step = "panic" /\ index \notin DOMAIN disk.programs))
===============================================================================
