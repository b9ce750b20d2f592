-------------------------------- MODULE NetBoot --------------------------------
(***************************************************************************)
(* The network boot loader (pc-bios/s390-ccw/netmain.c): find the network  *)
(* device, get an address, load what the boot file is or names, fall back  *)
(* to a pxelinux configuration, give the address back and enter the kernel *)
(* (JumpToIpl).  DHCP, TFTP and the search for a pxelinux configuration    *)
(* are external (SLOF's libnet): any answer they may give is given, and a  *)
(* transfer that fails may have stored any part of the file.               *)
(*                                                                         *)
(* Memory counts coarse words: 0 the PSW, up to KERNEL_MAX_SIZE what may   *)
(* be loaded, from there on the loader itself.  Files are sequences of     *)
(* such words; their sizes are compared with MinSize (8 bytes) and         *)
(* CfgSize (the buffer for a configuration).                               *)
(***************************************************************************)
EXTENDS Integers, Sequences

CONSTANTS
  Networks,         \* see MCNetBoot: devices, files and what they contain
  Names, NoName,    \* of files
  RETRIES,          \* DHCP attempts
  Words, KERNEL_MAX_SIZE, LoadAddr, MinSize, CfgSize, PageWords,
  SubchannelId, S390EP, KERN_IMAGE_START, ConsoleWords,  \* of JumpToIpl
  InitrdParams, CommandLine  \* words of a Linux kernel that are patched

NoEntry == [kernel |-> NoName, initrd |-> NoName, append |-> FALSE]
NoCfg == [lines |-> <<>>, entry |-> NoEntry]
Configurations ==
  [lines : Seq([file : Names, at : Nat]),
   entry : [kernel : Names, initrd : Names, append : BOOLEAN]]

(* What is loaded and patched lies below the loader, above the PSW.        *)
ASSUME MemoryAssumption ==
  /\ RETRIES \in Nat /\ MinSize \in Nat /\ CfgSize \in Nat
  /\ PageWords \in Nat \ {0}
  /\ Words \in Nat /\ KERNEL_MAX_SIZE \in 1..Words
  /\ LoadAddr \in 0..KERNEL_MAX_SIZE
  /\ {SubchannelId, InitrdParams, CommandLine, S390EP} \subseteq 1..KERNEL_MAX_SIZE - 1
  /\ ConsoleWords \subseteq 1..KERNEL_MAX_SIZE - 1

(* The words that are patched or printed over, and the magic, are words of *)
(* their own; the kernel is not entered at 0.                              *)
ASSUME LayoutAssumption ==
  /\ SubchannelId \notin {InitrdParams, CommandLine, S390EP}
  /\ InitrdParams \notin {CommandLine, S390EP} /\ CommandLine # S390EP
  /\ {SubchannelId, InitrdParams, CommandLine, S390EP} \cap ConsoleWords = {}
  /\ KERN_IMAGE_START # 0

ASSUME NetworksAssumption ==
  NoName \in Names /\ \A n \in Networks :
    /\ n.bootfile \in Names
    /\ n.pxelinux \subseteq Configurations
    /\ \A f \in DOMAIN n.files :
         /\ Len(n.files[f].words) \in Nat
         /\ n.files[f].cfg \in Configurations
         /\ n.files[f].text = "ins" => n.files[f].cfg.entry = NoEntry

VARIABLES
  net,       \* what is there to boot from
  pc,
  schid,     \* the network device: [ssid, no]
  i,         \* DHCP attempts left
  fn_ip,     \* [filename, ip_version]
  lease,     \* an IPv4 lease is held
  mem, jump,
  rc,        \* of the last step
  cfg,       \* the .INS lines left, or the pxelinux entry
  pxe,       \* the pxelinux configuration was searched for
  program,   \* history: what this attempt has loaded, [file, at]
  old        \* history: memory has words that are not this attempt's files

vars == <<net, pc, schid, i, fn_ip, lease, mem, jump, rc, cfg, pxe, program, old>>

Jump == INSTANCE JumpToIpl

Firmware == Jump!Firmware

(* No file holds the PSW that leads into the loader.                       *)
ASSUME WordsAssumption ==
  \A n \in Networks : \A f \in DOMAIN n.files :
    \A k \in 1..Len(n.files[f].words) : n.files[f].words[k] # Jump!RESET_PSW

Init ==
  /\ net \in Networks
  /\ pc = "virtio_setup"
  /\ schid = [ssid |-> 0, no |-> 0]
  /\ i = RETRIES + 1
  /\ fn_ip = [filename |-> NoName, ip_version |-> 0]
  /\ lease = FALSE
  /\ mem = [a \in 0..Words - 1 |->
              IF a < KERNEL_MAX_SIZE THEN [kind |-> "zero"] ELSE Firmware]
  /\ jump = Jump!JumpIdle
  /\ rc = 0
  /\ cfg = NoCfg
  /\ pxe = FALSE
  /\ program = <<>>
  /\ old = FALSE

-----------------------------------------------------------------------------
(* The device: the first network device, or the one the machine names.     *)

Candidates(ssid) ==
  {n \in DOMAIN net.subchannels[ssid] :
     LET s == net.subchannels[ssid][n]
     IN s.valid /\ s.net /\ (net.devno = -1 \/ s.devno = net.devno)}
SsidsTried == IF net.devno = -1 THEN 0..2 ELSE {net.ssid}
FirstOf(S) == CHOOSE n \in S : \A m \in S : n <= m

virtio_setup ==
  /\ pc = "virtio_setup"
  /\ LET found == {ssid \in SsidsTried : Candidates(ssid) # {}}
     IN IF found = {} THEN pc' = "panic" /\ UNCHANGED schid
        ELSE /\ schid' = [ssid |-> FirstOf(found),
                          no |-> FirstOf(Candidates(FirstOf(found)))]
             /\ pc' = "dhcp"
  /\ UNCHANGED <<net, i, fn_ip, lease, mem, jump, rc, cfg, pxe, program, old>>

(* One turn of dhcp, and what net_init makes of its result.  -1 is no      *)
(* answer, which IPv6 may still give; -2 to -4 that the server for TFTP    *)
(* cannot be reached, when the lease is there already: every negative      *)
(* result ends in the panic.                                               *)
DhcpResults == {0, -1, -2, -4}
Answer(v4, v6) ==
  /\ rc' = IF v4 = -1 THEN v6 ELSE v4
  /\ lease' = (v4 # -1)
  /\ fn_ip' = [filename |-> IF rc' = 0 THEN net.bootfile ELSE NoName,
               ip_version |-> IF v4 = -1 THEN 6 ELSE 4]
  /\ pc' = CASE rc' = 0 -> "boot" [] rc' = -1 -> "dhcp" [] OTHER -> "panic"
GiveUp == pc' = "panic" /\ UNCHANGED <<rc, lease, fn_ip>>
dhcp ==
  /\ pc = "dhcp"
  /\ i' = i - 1
  /\ \/ i' = 0 /\ GiveUp
     \/ i' # 0 /\ \E v4 \in DhcpResults, v6 \in {0, -1, -2} : Answer(v4, v6)
  /\ UNCHANGED <<net, schid, mem, jump, cfg, pxe, program, old>>

-----------------------------------------------------------------------------
(* tftp_load of a file to an address, with room for len words: everything  *)
(* or, if it fails, any part.  The name is in fn_ip from now on.           *)

Store(m, words, n, address) ==
  [a \in DOMAIN m |-> IF a \in address..address + n - 1
                      THEN words[a - address + 1] ELSE m[a]]
FileWords(name) == IF name \in DOMAIN net.files THEN net.files[name].words ELSE <<>>

Received(name, address, len) ==
  LET words == FileWords(name) IN
  /\ name \in DOMAIN net.files /\ Len(words) <= len
  /\ rc' = Len(words)
  /\ mem' = Store(mem, words, Len(words), address)
  /\ program' = Append(program, [file |-> name, at |-> address])
Failed(name, address, len) ==
  /\ rc' = -1
  /\ \E n \in 0..Len(FileWords(name)) :
       /\ n = 0 \/ n <= len
       /\ mem' = Store(mem, FileWords(name), n, address)
  /\ UNCHANGED program
tftp_load(name, address, len) ==
  Received(name, address, len) \/ Failed(name, address, len)

(* The next attempt starts over what the last one left in memory.          *)
Attempt ==
  /\ program' = <<>>
  /\ old' = (\E a \in 0..KERNEL_MAX_SIZE - 1 : mem[a].kind # "zero")
AfterLoad == IF rc' <= 0 /\ ~ pxe THEN "pxelinux" ELSE "release"

(* main: a boot file that is a name, not a directory.                      *)
TryBootFile ==
  /\ pc = "boot"
  /\ pc' = IF fn_ip.filename # NoName /\ ~ net.directory THEN "direct"
                                                         ELSE "pxelinux"
  /\ UNCHANGED <<net, schid, i, fn_ip, lease, mem, jump, rc, cfg, pxe, program,
                 old>>

-----------------------------------------------------------------------------
(* net_try_direct_tftp_load.  A configuration is copied out of the memory  *)
(* that what it names is loaded to.                                        *)

LoadBootFile ==
  /\ pc = "direct"
  /\ tftp_load(fn_ip.filename, LoadAddr, KERNEL_MAX_SIZE - LoadAddr)
  /\ pc' = IF rc' < MinSize THEN "pxelinux"
           ELSE IF rc' < CfgSize /\ net.files[fn_ip.filename].text = "ins"
           THEN "ins"
           ELSE IF rc' < CfgSize /\ net.files[fn_ip.filename].text = "pxelinux"
           THEN "kernel" ELSE "move"
  /\ cfg' = IF pc' \in {"ins", "kernel"} THEN net.files[fn_ip.filename].cfg ELSE cfg
  /\ UNCHANGED <<net, schid, i, fn_ip, lease, jump, pxe, old>>

(* The memmove to address 0.  The part of the file that is past what it is *)
(* moved to stays behind.                                                  *)
MoveKernel ==
  /\ pc = "move"
  /\ mem' = [a \in DOMAIN mem |-> IF a < rc THEN mem[LoadAddr + a] ELSE mem[a]]
  /\ program' = <<[program[1] EXCEPT !.at = 0]>>
  /\ old' = (\E a \in rc..LoadAddr + rc - 1 : mem[a].kind # "zero")
  /\ pc' = "release"
  /\ UNCHANGED <<net, schid, i, fn_ip, lease, jump, rc, cfg, pxe>>

(* handle_ins_cfg: a line names a file and an address, or is broken.       *)
(* The last result counts; no line at all is a failure.                    *)
handle_ins_cfg ==
  /\ pc = "ins"
  /\ IF cfg.lines = <<>> \/ Head(cfg.lines).file = NoName
     THEN /\ rc' = IF cfg.lines = <<>> /\ Len(program) > 1 THEN rc ELSE -1
          /\ pc' = AfterLoad
          /\ UNCHANGED <<fn_ip, mem, cfg, program>>
     ELSE LET line == Head(cfg.lines) IN
          /\ fn_ip' = [fn_ip EXCEPT !.filename = line.file]
          /\ tftp_load(line.file, line.at, KERNEL_MAX_SIZE - line.at)
          /\ cfg' = [cfg EXCEPT !.lines = Tail(@)]
          /\ pc' = IF rc' <= 0 THEN AfterLoad ELSE "ins"
  /\ UNCHANGED <<net, schid, i, lease, jump, pxe, old>>

-----------------------------------------------------------------------------
(* net_try_pxelinux_cfg: the search is external.  Whatever was loaded      *)
(* before stays where it is.                                               *)
net_try_pxelinux_cfg ==
  /\ pc = "pxelinux"
  /\ pxe' = TRUE
  /\ Attempt
  /\ \/ /\ cfg' \in net.pxelinux
        /\ pc' = "kernel"
        /\ UNCHANGED rc
     \/ /\ rc' = -1
        /\ pc' = "release"
        /\ UNCHANGED cfg
  /\ UNCHANGED <<net, schid, i, fn_ip, lease, mem, jump>>

(* load_kernel_with_initrd.  A kernel of no bytes counts as loaded.        *)
AfterKernel ==
  IF rc' < 0 THEN AfterLoad
  ELSE IF cfg.entry.initrd # NoName THEN "initrd"
  ELSE IF cfg.entry.append THEN "append" ELSE AfterLoad
LoadKernel ==
  /\ pc = "kernel"
  /\ IF cfg.entry.kernel = NoName
     THEN rc' = -1 /\ pc' = AfterLoad /\ UNCHANGED <<fn_ip, mem, program>>
     ELSE /\ fn_ip' = [fn_ip EXCEPT !.filename = cfg.entry.kernel]
          /\ tftp_load(cfg.entry.kernel, 0, KERNEL_MAX_SIZE)
          /\ pc' = AfterKernel
  /\ UNCHANGED <<net, schid, i, lease, jump, cfg, pxe, old>>

(* The initrd goes to the page after the kernel, and gets what room is     *)
(* left.  Faults: all the room; not the next page.                         *)
PageOf(n) == (n \div PageWords) * PageWords
PageAfter(n) == ((n + PageWords - 1) \div PageWords) * PageWords
AllRoom(iaddr) == KERNEL_MAX_SIZE
Room(iaddr) == KERNEL_MAX_SIZE - iaddr

LoadInitrd ==
  /\ pc = "initrd"
  /\ fn_ip' = [fn_ip EXCEPT !.filename = cfg.entry.initrd]
  /\ LET iaddr == PageAfter(rc)
         size  == Len(FileWords(cfg.entry.initrd))
     IN \/ /\ Failed(cfg.entry.initrd, iaddr, Room(iaddr))
           /\ pc' = AfterLoad
        \/ /\ cfg.entry.initrd \in DOMAIN net.files /\ size <= Room(iaddr)
           /\ program' = Append(program, [file |-> cfg.entry.initrd, at |-> iaddr])
           /\ mem' = [Store(mem, FileWords(cfg.entry.initrd), size, iaddr)
                        EXCEPT ![InitrdParams] =
                          [kind |-> "params", at |-> iaddr, size |-> size]]
           /\ rc' = size + iaddr
           /\ pc' = IF cfg.entry.append THEN "append" ELSE AfterLoad
  /\ UNCHANGED <<net, schid, i, lease, jump, cfg, pxe, old>>

AppendCommandLine ==
  /\ pc = "append"
  /\ mem' = [mem EXCEPT ![CommandLine] = [kind |-> "cmdline"]]
  /\ rc' = rc
  /\ pc' = AfterLoad
  /\ UNCHANGED <<net, schid, i, fn_ip, lease, jump, cfg, pxe, program, old>>

-----------------------------------------------------------------------------
(* main, after loading: net_release, then the kernel or the panic.  Fault: *)
(* the address is only given back when nothing was loaded.                 *)
ReleaseLate ==
  /\ pc = "release"
  /\ lease' = (lease /\ rc > 0)
  /\ pc' = IF rc > 0 THEN "start" ELSE "panic"
  /\ UNCHANGED <<net, schid, i, fn_ip, mem, jump, rc, cfg, pxe, program, old>>
net_release ==
  /\ pc = "release"
  /\ lease' = (lease /\ fn_ip.ip_version # 4)
  /\ pc' = IF rc > 0 THEN "start" ELSE "panic"
  /\ UNCHANGED <<net, schid, i, fn_ip, mem, jump, rc, cfg, pxe, program, old>>

(* A line is printed once more, over the low core of what was loaded, as   *)
(* lines before it were.                                                   *)
StartKernel ==
  /\ pc = "start"
  /\ LET m == Jump!sclp_print(mem)
     IN Jump!jump_to_IPL_code(m, Jump!LowKernel(m))
  /\ pc' = "jump"
  /\ UNCHANGED <<net, schid, i, fn_ip, lease, rc, cfg, pxe, program, old>>

Entering ==
  /\ Jump!JumpNext
  /\ UNCHANGED <<net, pc, schid, i, fn_ip, lease, rc, cfg, pxe, program, old>>

Next ==
  \/ virtio_setup \/ dhcp \/ TryBootFile
  \/ LoadBootFile \/ MoveKernel \/ handle_ins_cfg
  \/ net_try_pxelinux_cfg \/ LoadKernel \/ LoadInitrd \/ AppendCommandLine
  \/ net_release \/ StartKernel \/ Entering

Spec == Init /\ [][Next]_vars

(* The loader is one thread, and every external call has a timeout.        *)
FairSpec == Spec /\ WF_vars(Next)
-----------------------------------------------------------------------------
(* Properties.                                                             *)

(* The variables of main.                                                  *)
TypeOK ==
  /\ pc \in {"virtio_setup", "dhcp", "boot", "direct", "move", "ins", "pxelinux",
            "kernel", "initrd", "append", "release", "start", "jump", "panic"}
  /\ i \in 0..RETRIES + 1
  /\ lease \in BOOLEAN /\ pxe \in BOOLEAN /\ old \in BOOLEAN
  /\ rc \in -4..KERNEL_MAX_SIZE
  /\ fn_ip \in [filename : Names, ip_version : {0, 4, 6}]
  /\ DOMAIN mem = 0..Words - 1

(* No file, no parameter of a kernel and no jump is ever stored over the   *)
(* loader itself, wherever a file is to go and however long it is.         *)
FirmwareKept == \A a \in KERNEL_MAX_SIZE..Words - 1 : mem[a] = Firmware

(* Address a of the file that was loaded there last, if any.               *)
WritersOf(a) ==
  {k \in DOMAIN program :
     a \in program[k].at..program[k].at + Len(FileWords(program[k].file)) - 1}
Promised(a) ==
  LET k == CHOOSE w \in WritersOf(a) : \A v \in WritersOf(a) : v <= w
  IN FileWords(program[k].file)[a - program[k].at + 1]
HasInitrd == cfg.entry.initrd # NoName
Patched(a) ==
  \/ a = SubchannelId \/ a \in ConsoleWords
  \/ a = InitrdParams /\ HasInitrd
  \/ a = CommandLine /\ cfg.entry.append

(* What is started is whole, whatever was tried before: each word is that  *)
(* of the file loaded over it last, word 0 included (the jump borrows it), *)
(* except for those that are patched and the words of the low core that    *)
(* printing stores over; the initrd is where the kernel is told it is, and *)
(* clear of the kernel.                                                    *)
StartsWhole ==
  jump.at = "guest" =>
    /\ program # <<>>
    /\ \A a \in DOMAIN mem :
         WritersOf(a) # {} /\ ~ Patched(a) => mem[a] = Promised(a)
    /\ HasInitrd =>
         LET kernel == program[Len(program) - 1]
             initrd == program[Len(program)]
         IN /\ initrd.file = cfg.entry.initrd /\ kernel.file = cfg.entry.kernel
            /\ initrd.at >= kernel.at + Len(FileWords(kernel.file))
            /\ mem[InitrdParams] =
                 [kind |-> "params", at |-> initrd.at,
                  size |-> Len(FileWords(initrd.file))]

(* It is entered the way its own words ask for: at the kernel image with   *)
(* the magic, else by its PSW if that is one.  A magic an attempt before,  *)
(* or the move, left behind is taken for the program's own where it has no *)
(* word there.                                                             *)
EnteredAsItAsks ==
  jump.at = "guest" /\ (WritersOf(S390EP) # {} \/ ~ old) =>
    LET magic == WritersOf(S390EP) # {} /\ Promised(S390EP).kind = "S390EP"
        psw   == WritersOf(0) # {} /\ Jump!HasResetBits(Promised(0))
    IN jump.entered = IF psw /\ ~ magic THEN Promised(0)
                      ELSE Jump!PSW(KERN_IMAGE_START, TRUE, TRUE, TRUE)

(* The network boot ends, in the panic or in the system; the system does   *)
(* not find the address of the loader still leased (net_release).          *)
EndsReleased == <>(pc = "panic" \/ (jump.at = "guest" /\ ~ lease))
===============================================================================
