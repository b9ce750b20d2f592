--------------------------- MODULE NetBoot_proofs ---------------------------
(***************************************************************************)
(* The network boot loader, for every network, every file and every result *)
(* of DHCP and TFTP: it keeps out of its own way (no step stores over the  *)
(* loader, FirmwareKept of NetBoot), what it starts is whole (StartsWhole) *)
(* and is entered as its own words ask for (EnteredAsItAsks).              *)
(***************************************************************************)
EXTENDS NetBoot, SequenceTheorems, TLAPS

(* What they rest on: an attempt is left while the address is asked         *)
(* for, a kernel that is to be moved fits where it was loaded, an initrd   *)
(* follows a kernel that was loaded.                                       *)
IInv ==
  /\ TypeOK /\ FirmwareKept
  /\ net \in Networks
  /\ cfg \in Configurations
  /\ pc \in {"virtio_setup", "dhcp"} => i >= 1
  /\ pc = "move" => rc \in 0..KERNEL_MAX_SIZE - LoadAddr
  /\ pc = "initrd" => rc >= 0

(* Memory as a step leaves it: its domain, and the loader in it.           *)
LoaderKept(m) ==
  /\ DOMAIN m = 0..Words - 1
  /\ \A a \in KERNEL_MAX_SIZE..Words - 1 : m[a] = Firmware

(* A file that is stored within the room it was given spares the loader.   *)
LEMMA StoreKeeps ==
  ASSUME NEW m, LoaderKept(m), NEW words, NEW address \in Nat, NEW n \in Nat,
         n = 0 \/ n <= KERNEL_MAX_SIZE - address
  PROVE  LoaderKept(Store(m, words, n, address))
  BY MemoryAssumption DEF LoaderKept, Store

(* A word below the loader may be patched.                                 *)
LEMMA PatchKeeps ==
  ASSUME NEW m, LoaderKept(m), NEW a \in 0..KERNEL_MAX_SIZE - 1, NEW w
  PROVE  LoaderKept([m EXCEPT ![a] = w])
  BY MemoryAssumption DEF LoaderKept

(* Every file has a length.                                                *)
LEMMA FileLength ==
  ASSUME net \in Networks, NEW name
  PROVE  Len(FileWords(name)) \in Nat
  <1>1. CASE name \in DOMAIN net.files
    BY <1>1, NetworksAssumption DEF FileWords
  <1>2. CASE name \notin DOMAIN net.files
    BY <1>2 DEF FileWords
  <1> QED BY <1>1, <1>2

(* A transfer, whatever comes of it, spares the loader and reports no more *)
(* than the room it had.                                                   *)
LEMMA TransferKeeps ==
  ASSUME net \in Networks, LoaderKept(mem), NEW name, NEW address \in Nat,
         NEW len \in Int,
         len <= KERNEL_MAX_SIZE - address,
         tftp_load(name, address, len)
  PROVE  /\ LoaderKept(mem')
         /\ rc' = -1 \/ (rc' \in Nat /\ rc' <= len)
  <1>0. Len(FileWords(name)) \in Nat
    BY FileLength
  <1>1. CASE Received(name, address, len)
    <2>1. Len(FileWords(name)) <= KERNEL_MAX_SIZE - address
      BY <1>0, <1>1, MemoryAssumption DEF Received
    <2>2. LoaderKept(Store(mem, FileWords(name), Len(FileWords(name)), address))
      BY <1>0, <2>1, StoreKeeps
    <2> QED BY <1>0, <1>1, <2>2 DEF Received
  <1>2. CASE Failed(name, address, len)
    <2>1. PICK n \in 0..Len(FileWords(name)) :
            (n = 0 \/ n <= len) /\ mem' = Store(mem, FileWords(name), n, address)
      BY <1>2 DEF Failed
    <2>2. n \in Nat /\ (n = 0 \/ n <= KERNEL_MAX_SIZE - address)
      BY <1>0, <2>1, MemoryAssumption
    <2>3. LoaderKept(Store(mem, FileWords(name), n, address))
      BY <2>2, StoreKeeps
    <2> QED BY <1>2, <2>1, <2>3 DEF Failed
  <1> QED BY <1>1, <1>2 DEF tftp_load

-----------------------------------------------------------------------------
(* The machine starts with the loader in place.                            *)
LEMMA InitIInv == Init => IInv
  <1> SUFFICES ASSUME Init PROVE IInv
    OBVIOUS
  <1>1. TypeOK /\ FirmwareKept
    <2>1. /\ i \in 0..RETRIES + 1
          /\ rc \in -4..KERNEL_MAX_SIZE
      BY MemoryAssumption DEF Init
    <2>2. fn_ip \in [filename : Names, ip_version : {0, 4, 6}]
      BY NetworksAssumption DEF Init
    <2>3. DOMAIN mem = 0..Words - 1
      BY DEF Init
    <2>4. \A a \in KERNEL_MAX_SIZE..Words - 1 : mem[a] = Firmware
      BY MemoryAssumption DEF Init
    <2>5. lease \in BOOLEAN /\ pxe \in BOOLEAN /\ old \in BOOLEAN
      BY DEF Init
    <2> QED BY <2>1, <2>2, <2>3, <2>4, <2>5 DEF Init, TypeOK, FirmwareKept
  <1>2. NoCfg \in Configurations
    BY NetworksAssumption DEF NoCfg, NoEntry, Configurations
  <1> QED BY <1>1, <1>2, MemoryAssumption DEF Init, IInv

(* A step of the device search or of DHCP.                                 *)
LEMMA SetUpKeeps == IInv /\ (virtio_setup \/ dhcp \/ TryBootFile) => IInv'
  <1> SUFFICES ASSUME IInv, virtio_setup \/ dhcp \/ TryBootFile PROVE IInv'
    OBVIOUS
  <1> USE DEF IInv, TypeOK, FirmwareKept
  <1>1. CASE virtio_setup
    BY <1>1 DEF virtio_setup
  <1>2. CASE dhcp
    <2>0. i' = i - 1 /\ i >= 1 /\ UNCHANGED <<net, mem, cfg, pxe, old>>
      BY <1>2 DEF dhcp
    <2>1. CASE i' = 0 /\ GiveUp
      BY <2>0, <2>1, MemoryAssumption DEF GiveUp
    <2>2. CASE i' # 0 /\ \E v4 \in DhcpResults, v6 \in {0, -1, -2} : Answer(v4, v6)
      <3>1. PICK v4 \in DhcpResults, v6 \in {0, -1, -2} : Answer(v4, v6)
        BY <2>2
      <3>2. rc' \in -4..KERNEL_MAX_SIZE
        <4>1. rc' \in {0, -1, -2, -4}
          BY <3>1 DEF DhcpResults, Answer
        <4> QED BY <4>1, MemoryAssumption
      <3>3. fn_ip' \in [filename : Names, ip_version : {0, 4, 6}]
        BY <3>1, NetworksAssumption DEF Answer
      <3>4. pc' \in {"boot", "dhcp", "panic"}
        BY <3>1 DEF Answer
      <3>5. lease' \in BOOLEAN
        BY <3>1, Zenon DEF Answer
      <3>6. i' \in 1..RETRIES + 1
        BY <2>0, <2>2, MemoryAssumption
      <3> QED BY <2>0, <3>2, <3>3, <3>4, <3>5, <3>6
    <2> QED BY <1>2, <2>1, <2>2 DEF dhcp
  <1>3. CASE TryBootFile
    BY <1>3 DEF TryBootFile
  <1> QED BY <1>1, <1>2, <1>3

(* The boot file, as a kernel that is moved or as a configuration.         *)
LEMMA DirectKeeps == IInv /\ (LoadBootFile \/ MoveKernel) => IInv'
  <1> SUFFICES ASSUME IInv, LoadBootFile \/ MoveKernel PROVE IInv'
    OBVIOUS
  <1>1. CASE LoadBootFile
    <2>1. /\ LoaderKept(mem')
          /\ rc' = -1 \/ (rc' \in Nat /\ rc' <= KERNEL_MAX_SIZE - LoadAddr)
      <3>1. LoaderKept(mem)
        BY DEF IInv, TypeOK, FirmwareKept, LoaderKept
      <3>2. KERNEL_MAX_SIZE - LoadAddr \in Int /\ LoadAddr \in Nat
        BY MemoryAssumption
      <3>3. tftp_load(fn_ip.filename, LoadAddr, KERNEL_MAX_SIZE - LoadAddr)
        BY <1>1 DEF LoadBootFile
      <3> QED BY <3>1, <3>2, <3>3, TransferKeeps DEF IInv
    <2>2. pc' \in {"pxelinux", "ins", "kernel", "move"}
      BY <1>1 DEF LoadBootFile
    <2>3. pc' = "move" => rc' \in 0..KERNEL_MAX_SIZE - LoadAddr
      BY <1>1, <2>1, MemoryAssumption DEF LoadBootFile
    <2>4. cfg' \in Configurations
      <3>1. CASE cfg' = cfg
        BY <3>1 DEF IInv
      <3>2. CASE cfg' = net.files[fn_ip.filename].cfg /\ rc' # -1
        <4>1. fn_ip.filename \in DOMAIN net.files
          BY <1>1, <3>2 DEF LoadBootFile, tftp_load, Received, Failed
        <4> QED BY <3>2, <4>1, NetworksAssumption DEF IInv
      <3> QED BY <1>1, <2>1, <3>1, <3>2, MemoryAssumption DEF LoadBootFile
    <2>5. rc' \in -4..KERNEL_MAX_SIZE
      BY <2>1, MemoryAssumption
    <2> QED BY <1>1, <2>1, <2>2, <2>3, <2>4, <2>5
        DEF LoadBootFile, IInv, TypeOK, FirmwareKept, LoaderKept
  <1>2. CASE MoveKernel
    <2>1. rc \in 0..KERNEL_MAX_SIZE - LoadAddr
      BY <1>2 DEF IInv, MoveKernel
    <2>2. LoaderKept(mem')
      <3>1. mem' = [a \in DOMAIN mem |-> IF a < rc THEN mem[LoadAddr + a] ELSE mem[a]]
        BY <1>2 DEF MoveKernel
      <3>2. rc \in Int /\ rc <= KERNEL_MAX_SIZE /\ KERNEL_MAX_SIZE \in Nat /\ Words \in Nat
        BY <2>1, MemoryAssumption
      <3> QED BY <3>1, <3>2 DEF IInv, TypeOK, FirmwareKept, LoaderKept
    <2>3. old' \in BOOLEAN
      BY <1>2, Zenon DEF MoveKernel
    <2> QED BY <1>2, <2>2, <2>3
        DEF MoveKernel, IInv, TypeOK, FirmwareKept, LoaderKept
  <1> QED BY <1>1, <1>2

(* The lines of an INS file, each with an address of its own.              *)
LEMMA InsKeeps == IInv /\ handle_ins_cfg => IInv'
  <1> SUFFICES ASSUME IInv, handle_ins_cfg PROVE IInv'
    OBVIOUS
  <1>1. CASE cfg.lines = <<>> \/ Head(cfg.lines).file = NoName
    <2>1. rc' \in -4..KERNEL_MAX_SIZE /\ pc' \in {"pxelinux", "release"}
      <3>1. (rc' = rc \/ rc' = -1) /\ pc' = AfterLoad
        BY <1>1 DEF handle_ins_cfg
      <3> QED BY <3>1, MemoryAssumption DEF AfterLoad, IInv, TypeOK, FirmwareKept
    <2> QED BY <1>1, <2>1 DEF handle_ins_cfg, IInv, TypeOK, FirmwareKept
  <1>2. CASE ~ (cfg.lines = <<>> \/ Head(cfg.lines).file = NoName)
    <2> DEFINE line == Head(cfg.lines)
    <2>0. cfg.lines \in Seq([file : Names, at : Nat])
      BY DEF IInv, Configurations
    <2>1. line \in [file : Names, at : Nat]
      BY <1>2, <2>0, HeadTailProperties
    <2>2. /\ fn_ip' = [fn_ip EXCEPT !.filename = line.file]
          /\ tftp_load(line.file, line.at, KERNEL_MAX_SIZE - line.at)
          /\ cfg' = [cfg EXCEPT !.lines = Tail(@)]
          /\ pc' = IF rc' <= 0 THEN AfterLoad ELSE "ins"
      BY <1>2 DEF handle_ins_cfg
    <2>3. /\ LoaderKept(mem')
          /\ rc' = -1 \/ (rc' \in Nat /\ rc' <= KERNEL_MAX_SIZE - line.at)
      <3>1. LoaderKept(mem)
        BY DEF IInv, TypeOK, FirmwareKept, LoaderKept
      <3>2. line.at \in Nat /\ KERNEL_MAX_SIZE - line.at \in Int
        BY <2>1, MemoryAssumption
      <3> HIDE DEF line
      <3> QED BY <2>2, <3>1, <3>2, TransferKeeps DEF IInv
    <2>4. rc' \in -4..KERNEL_MAX_SIZE
      BY <2>1, <2>3, MemoryAssumption
    <2>5. cfg' \in Configurations
      <3>1. Tail(cfg.lines) \in Seq([file : Names, at : Nat])
        BY <1>2, <2>0
      <3> QED BY <2>2, <3>1 DEF IInv, Configurations
    <2>6. fn_ip' \in [filename : Names, ip_version : {0, 4, 6}]
      BY <2>1, <2>2 DEF IInv, TypeOK, FirmwareKept
    <2>7. pc' \in {"pxelinux", "release", "ins"}
      BY <2>2 DEF AfterLoad
    <2> QED BY <2>3, <2>4, <2>5, <2>6, <2>7
        DEF handle_ins_cfg, IInv, TypeOK, FirmwareKept, LoaderKept
  <1> QED BY <1>1, <1>2

(* A pxelinux configuration and the kernel it names.                       *)
LEMMA KernelKeeps == IInv /\ (net_try_pxelinux_cfg \/ LoadKernel) => IInv'
  <1> SUFFICES ASSUME IInv, net_try_pxelinux_cfg \/ LoadKernel PROVE IInv'
    OBVIOUS
  <1>1. CASE net_try_pxelinux_cfg
    <2>1. old' \in BOOLEAN
      BY <1>1, Zenon DEF net_try_pxelinux_cfg, Attempt
    <2>2. cfg' \in Configurations
      BY <1>1, NetworksAssumption DEF net_try_pxelinux_cfg, IInv
    <2>3. rc' \in -4..KERNEL_MAX_SIZE
      BY <1>1, MemoryAssumption DEF net_try_pxelinux_cfg, IInv, TypeOK, FirmwareKept
    <2>4. pc' \in {"kernel", "release"} /\ pxe' = TRUE
      BY <1>1 DEF net_try_pxelinux_cfg
    <2> QED BY <1>1, <2>1, <2>2, <2>3, <2>4
        DEF net_try_pxelinux_cfg, IInv, TypeOK, FirmwareKept
  <1>2. CASE LoadKernel
    <2>1. CASE cfg.entry.kernel = NoName
      <3>1. rc' = -1 /\ pc' = AfterLoad
        BY <1>2, <2>1 DEF LoadKernel
      <3>2. rc' \in -4..KERNEL_MAX_SIZE /\ pc' \in {"pxelinux", "release"}
        BY <3>1, MemoryAssumption DEF AfterLoad
      <3> QED BY <1>2, <2>1, <3>2 DEF LoadKernel, IInv, TypeOK, FirmwareKept
    <2>2. CASE cfg.entry.kernel # NoName
      <3>1. /\ fn_ip' = [fn_ip EXCEPT !.filename = cfg.entry.kernel]
            /\ tftp_load(cfg.entry.kernel, 0, KERNEL_MAX_SIZE)
            /\ pc' = AfterKernel
        BY <1>2, <2>2 DEF LoadKernel
      <3>2. /\ LoaderKept(mem')
            /\ rc' = -1 \/ (rc' \in Nat /\ rc' <= KERNEL_MAX_SIZE)
        <4>1. LoaderKept(mem)
          BY DEF IInv, TypeOK, FirmwareKept, LoaderKept
        <4>2. KERNEL_MAX_SIZE \in Int /\ KERNEL_MAX_SIZE <= KERNEL_MAX_SIZE - 0
          BY MemoryAssumption
        <4> QED BY <3>1, <4>1, <4>2, TransferKeeps DEF IInv
      <3>3. rc' \in -4..KERNEL_MAX_SIZE
        BY <3>2, MemoryAssumption
      <3>4. /\ pc' \in {"pxelinux", "release", "initrd", "append"}
            /\ pc' = "initrd" => rc' >= 0
        BY <3>1, <3>3 DEF AfterKernel, AfterLoad
      <3>5. fn_ip' \in [filename : Names, ip_version : {0, 4, 6}]
        BY <3>1 DEF IInv, TypeOK, FirmwareKept, Configurations
      <3> QED BY <1>2, <3>2, <3>3, <3>4, <3>5
          DEF LoadKernel, IInv, TypeOK, FirmwareKept, LoaderKept
    <2> QED BY <2>1, <2>2
  <1> QED BY <1>1, <1>2

(* The initrd: the room is what is left above the page it starts on, so    *)
(* neither it nor the parameters reach the loader.                         *)
LEMMA PageAfterIsNat == ASSUME NEW n \in Nat PROVE PageAfter(n) \in Nat
  <1>1. (n + PageWords - 1) \div PageWords \in Nat
    BY MemoryAssumption
  <1> DEFINE q == (n + PageWords - 1) \div PageWords
  <1>2. ASSUME NEW k \in Nat PROVE k * PageWords \in Nat
    BY MemoryAssumption
  <1> HIDE DEF q
  <1>3. q * PageWords \in Nat
    BY <1>1, <1>2 DEF q
  <1> QED BY <1>3 DEF PageAfter, q

LEMMA InitrdKeeps == IInv /\ LoadInitrd => IInv'
  <1> SUFFICES ASSUME IInv, LoadInitrd PROVE IInv'
    OBVIOUS
  <1> DEFINE iaddr == PageAfter(rc)
             size  == Len(FileWords(cfg.entry.initrd))
  <1>1. rc \in Nat /\ LoaderKept(mem)
    BY MemoryAssumption DEF IInv, TypeOK, FirmwareKept, LoadInitrd, LoaderKept
  <1>2. iaddr \in Nat /\ size \in Nat
    BY <1>1, PageAfterIsNat, FileLength DEF IInv
  <1>3. fn_ip' \in [filename : Names, ip_version : {0, 4, 6}]
    BY DEF IInv, TypeOK, FirmwareKept, Configurations, LoadInitrd
  <1>4. CASE Failed(cfg.entry.initrd, iaddr, Room(iaddr)) /\ pc' = AfterLoad
    <2> HIDE DEF iaddr
    <2>1. tftp_load(cfg.entry.initrd, iaddr, Room(iaddr)) /\ rc' = -1
      BY <1>4 DEF tftp_load, Failed
    <2>2. Room(iaddr) \in Int /\ Room(iaddr) <= KERNEL_MAX_SIZE - iaddr
      BY <1>2, MemoryAssumption DEF Room
    <2>3. LoaderKept(mem')
      BY <1>1, <1>2, <2>1, <2>2, TransferKeeps DEF IInv
    <2>4. rc' \in -4..KERNEL_MAX_SIZE /\ pc' \in {"pxelinux", "release"}
      BY <1>4, <2>1, MemoryAssumption DEF AfterLoad
    <2> QED BY <1>3, <2>3, <2>4 DEF LoadInitrd, IInv, TypeOK, FirmwareKept, LoaderKept
  <1>5. CASE /\ size <= Room(iaddr)
             /\ mem' = [Store(mem, FileWords(cfg.entry.initrd), size, iaddr)
                          EXCEPT ![InitrdParams] =
                            [kind |-> "params", at |-> iaddr, size |-> size]]
             /\ rc' = size + iaddr
             /\ pc' = IF cfg.entry.append THEN "append" ELSE AfterLoad
    <2> HIDE DEF iaddr, size
    <2>1. size <= KERNEL_MAX_SIZE - iaddr
      BY <1>5 DEF Room
    <2>2. LoaderKept(Store(mem, FileWords(cfg.entry.initrd), size, iaddr))
      BY <1>1, <1>2, <2>1, StoreKeeps
    <2>3. InitrdParams \in 0..KERNEL_MAX_SIZE - 1
      BY MemoryAssumption
    <2>4. LoaderKept(mem')
      BY <1>5, <2>2, <2>3, PatchKeeps
    <2>5. rc' \in -4..KERNEL_MAX_SIZE
      BY <1>2, <1>5, <2>1, MemoryAssumption
    <2>6. pc' \in {"pxelinux", "release", "append"}
      BY <1>5 DEF AfterLoad
    <2> QED BY <1>3, <2>4, <2>5, <2>6 DEF LoadInitrd, IInv, TypeOK, FirmwareKept, LoaderKept
  <1> QED BY <1>4, <1>5 DEF LoadInitrd

(* So does printing.                                                       *)
LEMMA PrintKeeps ==
  ASSUME NEW m, LoaderKept(m)
  PROVE  LoaderKept(Jump!Store(m, ConsoleWords))
  <1>1. \A a \in KERNEL_MAX_SIZE..Words - 1 : a \notin ConsoleWords
    BY MemoryAssumption
  <1>2. DOMAIN Jump!Store(m, ConsoleWords) = DOMAIN m
    BY DEF Jump!Store
  <1>3. \A a \in DOMAIN m \ ConsoleWords : Jump!Store(m, ConsoleWords)[a] = m[a]
    BY DEF Jump!Store
  <1>4. \A a \in KERNEL_MAX_SIZE..Words - 1 : a \in DOMAIN m
    BY MemoryAssumption DEF LoaderKept
  <1> QED BY <1>1, <1>2, <1>3, <1>4 DEF LoaderKept

(* The command line, the address given back, and the jump.                 *)
LEMMA EndKeeps ==
  IInv /\ (AppendCommandLine \/ net_release \/ StartKernel \/ Entering) => IInv'
  <1> SUFFICES ASSUME IInv,
                      AppendCommandLine \/ net_release \/ StartKernel \/ Entering
               PROVE  IInv'
    OBVIOUS
  <1>0. LoaderKept(mem)
    BY DEF IInv, TypeOK, FirmwareKept, LoaderKept
  <1>1. CASE AppendCommandLine
    <2>1. LoaderKept(mem')
      <3>1. mem' = [mem EXCEPT ![CommandLine] = [kind |-> "cmdline"]]
        BY <1>1 DEF AppendCommandLine
      <3>2. CommandLine \in 0..KERNEL_MAX_SIZE - 1
        BY MemoryAssumption
      <3> QED BY <1>0, <3>1, <3>2, PatchKeeps
    <2>2. pc' \in {"pxelinux", "release"}
      BY <1>1 DEF AppendCommandLine, AfterLoad
    <2> QED BY <1>1, <2>1, <2>2 DEF AppendCommandLine, IInv, TypeOK, FirmwareKept, LoaderKept
  <1>2. CASE net_release
    <2>1. lease' \in BOOLEAN
      BY <1>2, Zenon DEF net_release, IInv, TypeOK, FirmwareKept
    <2>2. pc' \in {"start", "panic"}
      BY <1>2 DEF net_release
    <2> QED BY <1>2, <2>1, <2>2 DEF net_release, IInv, TypeOK, FirmwareKept
  <1>3. CASE StartKernel
    <2> DEFINE m == Jump!Store(mem, ConsoleWords)
    <2>1. PICK w : mem' = Jump!Store([m EXCEPT ![SubchannelId] = [kind |-> "schid"],
                                               ![0] = w], ConsoleWords)
      BY <1>3 DEF StartKernel, Jump!jump_to_IPL_code, Jump!sclp_print
    <2> DEFINE n == [m EXCEPT ![SubchannelId] = [kind |-> "schid"], ![0] = w]
    <2>2. LoaderKept(m)
      BY <1>0, PrintKeeps
    <2> HIDE DEF m
    <2>3. LoaderKept(n)
      BY <2>2, MemoryAssumption DEF LoaderKept
    <2>4. mem' = Jump!Store(n, ConsoleWords)
      BY <2>1
    <2> HIDE DEF n
    <2>5. LoaderKept(mem')
      BY <2>3, <2>4, PrintKeeps
    <2> QED BY <1>3, <2>5 DEF StartKernel, IInv, TypeOK, FirmwareKept, LoaderKept
  <1>4. CASE Entering
    <2>1. mem' = mem \/ mem' = [mem EXCEPT ![0] = jump.save]
      BY <1>4 DEF Entering, Jump!JumpNext, Jump!Reset, Jump!jump_to_IPL_addr
    <2>2. LoaderKept(mem')
      BY <1>0, <2>1, MemoryAssumption DEF LoaderKept
    <2> QED BY <1>4, <2>2 DEF Entering, IInv, TypeOK, FirmwareKept, LoaderKept
  <1> QED BY <1>1, <1>2, <1>3, <1>4

-----------------------------------------------------------------------------
(* Every step keeps the invariant.                                         *)
LEMMA StepKeeps == IInv /\ [Next]_vars => IInv'
  <1> SUFFICES ASSUME IInv, [Next]_vars PROVE IInv'
    OBVIOUS
  <1>1. CASE Next
    BY <1>1, SetUpKeeps, DirectKeeps, InsKeeps, KernelKeeps, InitrdKeeps,
       EndKeeps DEF Next
  <1>2. CASE UNCHANGED vars
    BY <1>2 DEF vars, IInv, TypeOK, FirmwareKept
  <1> QED BY <1>1, <1>2

(* Type correctness of the variables of main and all it calls.             *)
THEOREM TypeCorrect == Spec => []TypeOK
  <1>1. IInv => TypeOK
    BY DEF IInv
  <1> QED BY InitIInv, StepKeeps, <1>1, PTL DEF Spec

(* No transfer, patch or jump of the network boot ever stores over the     *)
(* loader, whatever is on the network (tftp_load and its callers,          *)
(* netmain.c, and jump2ipl.c).                                             *)
THEOREM LoaderUntouched == Spec => []FirmwareKept
  <1>1. IInv => FirmwareKept
    BY DEF IInv
  <1> QED BY InitIInv, StepKeeps, <1>1, PTL DEF Spec

-----------------------------------------------------------------------------
(* What is started is whole.  A word of memory is that of the last file    *)
(* loaded over it; there is one, as the number of an entry of "program".   *)
Loads == [file : Names, at : Nat]
Started == pc = "jump"
Borrowed == jump.at \in {"reset", "jump_to_IPL_addr"} /\ jump.ipl_continue # 0
TheWord(a) == IF a = 0 /\ Borrowed THEN jump.save ELSE mem[a]
Covered(a) ==
  \E k \in WritersOf(a) :
    /\ \A v \in WritersOf(a) : v <= k
    /\ ~ Patched(a) =>
         TheWord(a) = FileWords(program[k].file)[a - program[k].at + 1]
Intact == \A a \in DOMAIN mem : WritersOf(a) # {} => Covered(a)

(* Words that no file of the attempt wrote are untouched, if no earlier    *)
(* attempt wrote them; the kernel of a later one begins at 0.              *)
PatchedWords == {SubchannelId, InitrdParams, CommandLine} \cup ConsoleWords
Untouched ==
  ~ old => \A a \in 0..KERNEL_MAX_SIZE - 1 :
             WritersOf(a) = {} /\ a \notin PatchedWords => TheWord(a).kind = "zero"
NothingStored ==
  /\ program = <<>> /\ ~ old /\ cfg = NoCfg
  /\ \A a \in 0..KERNEL_MAX_SIZE - 1 : mem[a].kind = "zero"

(* A failed transfer spoils the memory, and is not followed by a start.    *)
Loaded == pc \in {"append", "start", "jump"} \/ (pc = "release" /\ rc > 0)
Loading == pc \in {"move", "ins", "kernel", "initrd"}

KernelLoaded(k) ==
  /\ k \in DOMAIN program
  /\ program[k] = [file |-> cfg.entry.kernel, at |-> 0]
InitrdLoaded ==
  LET n == Len(program) IN
  /\ n > 1 /\ KernelLoaded(n - 1)
  /\ program[n].file = cfg.entry.initrd
  /\ program[n].at >= Len(FileWords(cfg.entry.kernel))
  /\ mem[InitrdParams] = [kind |-> "params", at |-> program[n].at,
                          size |-> Len(FileWords(program[n].file))]

Sources ==
  /\ program \in Seq(Loads)
  /\ pc \in {"virtio_setup", "dhcp", "boot", "direct"} => NothingStored
  /\ pc = "move" => /\ program = <<[file |-> fn_ip.filename, at |-> LoadAddr]>>
                    /\ rc = Len(FileWords(fn_ip.filename))
                    /\ \A a \in LoadAddr..LoadAddr + rc - 1 :
                         mem[a] = FileWords(fn_ip.filename)[a - LoadAddr + 1]
  /\ pc \in {"ins", "move"} => cfg.entry = NoEntry /\ ~ old
  /\ pc = "initrd" => /\ HasInitrd /\ KernelLoaded(Len(program))
                      /\ rc = Len(FileWords(cfg.entry.kernel))
  /\ pc = "append" => cfg.entry.append
  /\ Loaded /\ HasInitrd => InitrdLoaded
  /\ Loaded => program # <<>>
  /\ pc \in {"start", "jump"} => rc > 0
  /\ (Loaded \/ pc = "initrd") /\ rc > 0 /\ old => WritersOf(0) # {}

(* The jump: word 0 is the program's, or lent and kept in "save".          *)
ByPsw == TheWord(S390EP).kind # "S390EP" /\ Jump!HasResetBits(TheWord(0))
Jumping ==
  /\ ~ Started => /\ jump = Jump!JumpIdle
                  /\ \A a \in DOMAIN mem : mem[a] # Jump!RESET_PSW
  /\ Started =>
       /\ DOMAIN jump = DOMAIN Jump!JumpIdle
       /\ jump.at \in {"reset", "jump_to_IPL_addr", "guest"}
       /\ jump.ipl_continue = IF ByPsw THEN 0 ELSE KERN_IMAGE_START
       /\ jump.at = "jump_to_IPL_addr" => jump.ipl_continue # 0
       /\ jump.at = "reset" =>
            (mem[0] = Jump!RESET_PSW <=> jump.ipl_continue # 0)
       /\ jump.at = "guest" =>
            jump.entered = IF jump.ipl_continue = 0 THEN mem[0]
                           ELSE Jump!PSW(KERN_IMAGE_START, TRUE, TRUE, TRUE)

WholeInv ==
  /\ Sources /\ Jumping
  /\ Loading \/ Loaded => Intact /\ Untouched

LEMMA Idle ==
  ASSUME WholeInv, ~ Started
  PROVE  \A a : TheWord(a) = mem[a]
  BY DEF WholeInv, Jumping, Started, TheWord, Borrowed, Jump!JumpIdle

LEMMA IdleNext ==
  ASSUME jump' = Jump!JumpIdle
  PROVE  \A a : TheWord(a)' = mem'[a]
  BY DEF TheWord, Borrowed, Jump!JumpIdle

(* Another file is loaded: it is the last one where it is.                 *)
LEMMA WritersAppend ==
  ASSUME program \in Seq(Loads), net \in Networks, net' = net,
         NEW e \in Loads, program' = Append(program, e), NEW a
  PROVE  /\ WritersOf(a) \subseteq 1..Len(program)
         /\ WritersOf(a)' = IF a \in e.at..e.at + Len(FileWords(e.file)) - 1
                            THEN WritersOf(a) \cup {Len(program) + 1}
                            ELSE WritersOf(a)
         /\ program'[Len(program) + 1] = e
         /\ \A k \in 1..Len(program) : program'[k] = program[k]
  <1>1. /\ DOMAIN program' = 1..Len(program) + 1
        /\ program'[Len(program) + 1] = e
        /\ \A k \in 1..Len(program) : program'[k] = program[k]
    OBVIOUS
  <1>2. DOMAIN program = 1..Len(program) /\ Len(program) \in Nat
    OBVIOUS
  <1>3. \A name : FileWords(name)' = FileWords(name)
    BY DEF FileWords
  <1> QED BY <1>1, <1>2, <1>3 DEF WritersOf

LEMMA IntactAppend ==
  ASSUME program \in Seq(Loads), net \in Networks, net' = net,
         NEW e \in Loads, program' = Append(program, e),
         DOMAIN mem' = DOMAIN mem,
         program = <<>> \/ (Intact /\ cfg'.entry = cfg.entry),
         \A a : TheWord(a) = mem[a], \A a : TheWord(a)' = mem'[a],
         \A a \in DOMAIN mem :
           ~ Patched(a)' =>
             mem'[a] = IF a \in e.at..e.at + Len(FileWords(e.file)) - 1
                       THEN FileWords(e.file)[a - e.at + 1] ELSE mem[a]
  PROVE  Intact'
  <1> SUFFICES ASSUME NEW a \in DOMAIN mem, (WritersOf(a) # {})'
               PROVE  Covered(a)'
    BY DEF Intact
  <1> DEFINE n == Len(program)
  <1>0. n \in Nat /\ WritersOf(a) \subseteq 1..n
    BY WritersAppend
  <1>1. \A name : FileWords(name)' = FileWords(name)
    BY DEF FileWords
  <1>2. CASE a \in e.at..e.at + Len(FileWords(e.file)) - 1
    <2>1. WritersOf(a)' = WritersOf(a) \cup {n + 1} /\ program'[n + 1] = e
      BY <1>2, WritersAppend
    <2>2. \A v \in WritersOf(a)' : v <= n + 1
      BY <1>0, <2>1
    <2>3. ~ Patched(a)' => TheWord(a)' = FileWords(e.file)'[a - e.at + 1]
      BY <1>1, <1>2
    <2> QED BY <2>1, <2>2, <2>3 DEF Covered
  <1>3. CASE a \notin e.at..e.at + Len(FileWords(e.file)) - 1
    <2>1. WritersOf(a)' = WritersOf(a) /\ \A k \in 1..n : program'[k] = program[k]
      BY <1>3, WritersAppend
    <2>2. program # <<>>
      BY <1>0, <2>1
    <2>3. Covered(a) /\ (~ Patched(a)' => ~ Patched(a))
      BY <2>1, <2>2 DEF Intact, Patched, HasInitrd
    <2>4. PICK k \in WritersOf(a) :
            /\ \A v \in WritersOf(a) : v <= k
            /\ ~ Patched(a) =>
                 TheWord(a) = FileWords(program[k].file)[a - program[k].at + 1]
      BY <2>3 DEF Covered
    <2>5. program'[k] = program[k]
      BY <1>0, <2>1
    <2>6. (FileWords(program[k].file))' = FileWords(program[k].file)
      BY <2>5 DEF FileWords
    <2>7. ~ Patched(a)' => TheWord(a)' = FileWords(program[k].file)[a - program[k].at + 1]
      BY <1>3, <2>3, <2>4
    <2>8. ~ Patched(a)' =>
            TheWord(a)' = (FileWords(program[k].file))'[a - program'[k].at + 1]
      BY <2>5, <2>6, <2>7
    <2> QED BY <2>1, <2>4, <2>8 DEF Covered
  <1> QED BY <1>2, <1>3

(* Where it is not, nothing new is stored.                                 *)
LEMMA UntouchedAppend ==
  ASSUME program \in Seq(Loads), net \in Networks, net' = net,
         NEW e \in Loads, program' = Append(program, e),
         Untouched, old' = old,
         \A a : TheWord(a) = mem[a], \A a : TheWord(a)' = mem'[a],
         \A a \in 0..KERNEL_MAX_SIZE - 1 :
           a \notin PatchedWords => 
             a \in e.at..e.at + Len(FileWords(e.file)) - 1 \/ mem'[a] = mem[a]
  PROVE  Untouched'
  <1> SUFFICES ASSUME ~ old, NEW a \in 0..KERNEL_MAX_SIZE - 1,
                      WritersOf(a)' = {}, a \notin PatchedWords
               PROVE  mem'[a].kind = "zero"
    BY DEF Untouched, PatchedWords
  <1>1. a \notin e.at..e.at + Len(FileWords(e.file)) - 1 /\ WritersOf(a) = {}
    BY WritersAppend
  <1> QED BY <1>1 DEF Untouched

(* A step that loads nothing and stores at most over words that are        *)
(* patched.                                                                *)
LEMMA IntactStable ==
  ASSUME Intact, net' = net, program' = program, cfg'.entry = cfg.entry,
         DOMAIN mem' = DOMAIN mem,
         \A a \in DOMAIN mem : ~ Patched(a) => TheWord(a)' = TheWord(a)
  PROVE  Intact'
  <1> SUFFICES ASSUME NEW a \in DOMAIN mem, (WritersOf(a) # {})'
               PROVE  Covered(a)'
    BY DEF Intact
  <1>1. WritersOf(a)' = WritersOf(a) /\ (Patched(a)' <=> Patched(a))
    BY DEF WritersOf, FileWords, Patched, HasInitrd
  <1>2. PICK k \in WritersOf(a) :
          /\ \A v \in WritersOf(a) : v <= k
          /\ ~ Patched(a) =>
               TheWord(a) = FileWords(program[k].file)[a - program[k].at + 1]
    BY <1>1 DEF Intact, Covered
  <1>3. (FileWords(program[k].file))' = FileWords(program[k].file)
    BY DEF FileWords
  <1> QED BY <1>1, <1>2, <1>3 DEF Covered

LEMMA UntouchedStable ==
  ASSUME Untouched, net' = net, program' = program, old' = old,
         \A a \in 0..KERNEL_MAX_SIZE - 1 :
           a \notin PatchedWords => TheWord(a)' = TheWord(a)
  PROVE  Untouched'
  <1>1. \A a : WritersOf(a)' = WritersOf(a)
    BY DEF WritersOf, FileWords
  <1> QED BY <1>1 DEF Untouched, PatchedWords

(* No transfer stores the PSW that leads into the loader.                  *)
LEMMA TransferSafe ==
  ASSUME net \in Networks, NEW name, NEW address \in Nat, NEW len,
         \A a \in DOMAIN mem : mem[a] # Jump!RESET_PSW,
         tftp_load(name, address, len),
         name \in Names, program \in Seq(Loads)
  PROVE  /\ DOMAIN mem' = DOMAIN mem
         /\ \A a \in DOMAIN mem : mem'[a] # Jump!RESET_PSW
         /\ program' \in Seq(Loads)
  <1> DEFINE words == FileWords(name)
  <1>1. Len(words) \in Nat
    BY FileLength
  <1>2. PICK n \in 0..Len(words) : mem' = Store(mem, words, n, address)
    BY <1>1 DEF tftp_load, Received, Failed
  <1>3. \A k \in 1..Len(words) : words[k] # Jump!RESET_PSW
    BY WordsAssumption DEF FileWords
  <1> HIDE DEF words
  <1>4. ASSUME NEW a \in DOMAIN mem, a \in address..address + n - 1
        PROVE  a - address + 1 \in 1..Len(words)
    BY <1>1, <1>4
  <1>5. program' \in Seq(Loads)
    <2>1. [file |-> name, at |-> address] \in Loads
      BY DEF Loads
    <2>2. program' = program \/ program' = Append(program, [file |-> name, at |-> address])
      BY DEF tftp_load, Received, Failed
    <2> QED BY <2>1, <2>2
  <1> QED BY <1>2, <1>3, <1>4, <1>5 DEF Store

-----------------------------------------------------------------------------
LEMMA InitWhole == Init => WholeInv
  <1> SUFFICES ASSUME Init PROVE WholeInv
    OBVIOUS
  <1>1. Sources
    <2>1. program \in Seq(Loads)
      BY DEF Init
    <2>2. NothingStored
      BY MemoryAssumption DEF Init, NothingStored
    <2> QED BY <2>1, <2>2 DEF Init, Sources, Loaded
  <1>2. \A a \in DOMAIN mem : mem[a] # Jump!RESET_PSW
    BY DEF Init, Firmware, Jump!Firmware, Jump!RESET_PSW, Jump!PSW
  <1> QED BY <1>1, <1>2 DEF Init, WholeInv, Jumping, Started, Loading, Loaded

LEMMA SetUpWhole ==
  ASSUME WholeInv, virtio_setup \/ dhcp \/ TryBootFile
  PROVE  WholeInv'
  <1>1. /\ pc \in {"virtio_setup", "dhcp", "boot"}
        /\ pc' \in {"dhcp", "boot", "direct", "pxelinux", "panic"}
        /\ UNCHANGED <<net, mem, jump, cfg, program, old>>
    BY DEF virtio_setup, dhcp, Answer, GiveUp, TryBootFile
  <1>2. Sources'
    BY <1>1 DEF WholeInv, Sources, NothingStored, Loaded
  <1> QED BY <1>1, <1>2 DEF WholeInv, Jumping, Started, Loading, Loaded

LEMMA LoadBootFileWhole ==
  ASSUME IInv, WholeInv, LoadBootFile
  PROVE  WholeInv'
  <1> DEFINE name == fn_ip.filename
             e == [file |-> name, at |-> LoadAddr]
  <1>0. /\ pc = "direct" /\ NothingStored /\ net \in Networks /\ net' = net
        /\ tftp_load(name, LoadAddr, KERNEL_MAX_SIZE - LoadAddr)
        /\ LoadAddr \in Nat /\ name \in Names /\ e \in Loads
        /\ UNCHANGED <<fn_ip, jump, old>>
        /\ pc' \in {"pxelinux", "ins", "kernel", "move"}
        /\ jump = Jump!JumpIdle
    BY MemoryAssumption DEF LoadBootFile, IInv, TypeOK, WholeInv, Sources, Jumping,
       Started, Loads
  <1>1. Jumping'
    BY <1>0, TransferSafe DEF WholeInv, Sources, Jumping, Started
  <1>2. CASE pc' = "pxelinux"
    <2>1. program' \in Seq(Loads)
      BY <1>0, TransferSafe DEF WholeInv, Sources, Jumping, Started
    <2> QED BY <1>1, <1>2, <2>1 DEF WholeInv, Sources, Loading, Loaded
  <1>3. CASE pc' # "pxelinux"
    <2>1. Received(name, LoadAddr, KERNEL_MAX_SIZE - LoadAddr)
      BY <1>0, <1>3, MemoryAssumption DEF LoadBootFile, tftp_load, Failed
    <2>2. /\ program' = Append(program, e) /\ program \in Seq(Loads)
          /\ program' = <<e>> /\ program' \in Seq(Loads)
          /\ rc' = Len(FileWords(name))
          /\ mem' = Store(mem, FileWords(name), Len(FileWords(name)), LoadAddr)
      BY <1>0, <2>1 DEF Received, NothingStored
    <2>3. \A a \in DOMAIN mem :
            mem'[a] = IF a \in LoadAddr..LoadAddr + Len(FileWords(name)) - 1
                      THEN FileWords(name)[a - LoadAddr + 1] ELSE mem[a]
      BY <2>2 DEF Store
    <2>4. \A a : TheWord(a) = mem[a] /\ TheWord(a)' = mem'[a]
      BY <1>0, Idle, IdleNext DEF Started
    <2>5. DOMAIN mem' = DOMAIN mem
      BY <2>2 DEF Store
    <2>6. Intact'
      BY <1>0, <2>2, <2>3, <2>4, <2>5, IntactAppend DEF NothingStored
    <2>7. Untouched'
      <3>1. Untouched
        BY <1>0, <2>4 DEF NothingStored, Untouched
      <3>2. 0..KERNEL_MAX_SIZE - 1 \subseteq DOMAIN mem
        BY MemoryAssumption DEF IInv, TypeOK
      <3> QED BY <1>0, <2>2, <2>3, <2>4, <3>1, <3>2, UntouchedAppend
    <2>8. Sources'
      <3>1. pc' = "ins" => cfg'.entry = NoEntry
        BY <1>0, <2>1, NetworksAssumption DEF LoadBootFile, Received
      <3>2. pc' = "move" => cfg'.entry = NoEntry
        BY <1>0 DEF LoadBootFile, NothingStored, NoCfg
      <3>3. ASSUME NEW a \in LoadAddr..LoadAddr + rc' - 1
            PROVE  mem'[a] = FileWords(name)[a - LoadAddr + 1]
        <4>1. rc' <= KERNEL_MAX_SIZE - LoadAddr /\ rc' \in Nat
          BY <1>0, <2>1, FileLength DEF Received
        <4>2. a \in DOMAIN mem
          BY <1>0, <4>1, MemoryAssumption DEF IInv, TypeOK
        <4> QED BY <2>2, <2>3, <4>2
      <3>4. FileWords(name)' = FileWords(name)
        BY <1>0 DEF FileWords
      <3> QED BY <1>0, <1>3, <2>2, <3>1, <3>2, <3>3, <3>4
          DEF Sources, Loaded, NothingStored
    <2> QED BY <1>1, <2>6, <2>7, <2>8 DEF WholeInv
  <1> QED BY <1>2, <1>3

LEMMA MoveKernelWhole ==
  ASSUME IInv, WholeInv, MoveKernel
  PROVE  WholeInv'
  <1> DEFINE name == fn_ip.filename
             e == [file |-> name, at |-> 0]
             words == FileWords(name)
  <1>0. /\ pc = "move" /\ pc' = "release"
        /\ net \in Networks /\ net' = net /\ jump = Jump!JumpIdle
        /\ program = <<[file |-> name, at |-> LoadAddr]>>
        /\ program' = <<e>> /\ e \in Loads /\ program' \in Seq(Loads)
        /\ rc = Len(words) /\ cfg.entry = NoEntry /\ ~ old
        /\ UNCHANGED <<jump, rc, cfg>>
        /\ DOMAIN mem' = DOMAIN mem
    BY DEF MoveKernel, IInv, TypeOK, WholeInv, Sources, Jumping, Started, Loads
  <1>1. /\ rc \in Nat /\ rc <= KERNEL_MAX_SIZE - LoadAddr
        /\ LoadAddr \in Nat /\ Words \in Nat /\ KERNEL_MAX_SIZE \in 1..Words
        /\ DOMAIN mem = 0..Words - 1
    BY <1>0, MemoryAssumption DEF IInv, TypeOK
  <1>2. \A a \in DOMAIN mem :
          mem'[a] = IF a < rc THEN mem[LoadAddr + a] ELSE mem[a]
    BY DEF MoveKernel
  <1>3. \A a \in 0..rc - 1 : LoadAddr + a \in DOMAIN mem /\ mem'[a] = words[a + 1]
    <2>1. SUFFICES ASSUME NEW a \in 0..rc - 1
                   PROVE  LoadAddr + a \in DOMAIN mem /\ mem'[a] = words[a + 1]
      OBVIOUS
    <2>2. mem[LoadAddr + a] = words[LoadAddr + a - LoadAddr + 1]
      BY <1>0, <1>1 DEF WholeInv, Sources
    <2>3. LoadAddr + a - LoadAddr + 1 = a + 1
      BY <1>1
    <2> QED BY <1>1, <1>2, <2>2, <2>3
  <1>4. \A a : TheWord(a) = mem[a] /\ TheWord(a)' = mem'[a]
    BY <1>0, Idle, IdleNext DEF Started
  <1>5. \A a \in DOMAIN mem : WritersOf(a)' = IF a \in 0..rc - 1 THEN {1} ELSE {}
    <2>1. DOMAIN program' = {1} /\ program'[1] = e
      BY <1>0
    <2>2. (FileWords(program[1].file))' = words
      BY <1>0, <2>1 DEF FileWords
    <2> HIDE DEF words
    <2> QED BY <1>0, <1>1, <2>1, <2>2 DEF WritersOf
  <1>6. Jumping'
    <2>1. \A a \in DOMAIN mem : mem'[a] # Jump!RESET_PSW
      <3>1. \A a \in DOMAIN mem : mem[a] # Jump!RESET_PSW
        BY <1>0 DEF WholeInv, Jumping, Started
      <3>2. \A a \in DOMAIN mem : a < rc => LoadAddr + a \in DOMAIN mem
        BY <1>1
      <3> QED BY <1>2, <3>1, <3>2
    <2> QED BY <1>0, <2>1 DEF Jumping, Started
  <1>7. Intact'
    <2> SUFFICES ASSUME NEW a \in DOMAIN mem, (WritersOf(a) # {})'
                 PROVE  Covered(a)'
      BY <1>0 DEF Intact
    <2>1. a \in 0..rc - 1 /\ WritersOf(a)' = {1}
      BY <1>5
    <2>2. (FileWords(program[1].file))' = words /\ program'[1].at = 0
      BY <1>0 DEF FileWords
    <2>3. TheWord(a)' = words[a - 0 + 1]
      BY <1>1, <1>3, <1>4, <2>1
    <2> HIDE DEF words
    <2>4. TheWord(a)' = (FileWords(program[1].file))'[a - program'[1].at + 1]
      BY <2>2, <2>3
    <2> QED BY <2>1, <2>4 DEF Covered
  <1>8. Untouched'
    <2> SUFFICES ASSUME ~ old', NEW a \in 0..KERNEL_MAX_SIZE - 1,
                        WritersOf(a)' = {}, a \notin PatchedWords
                 PROVE  TheWord(a)'.kind = "zero"
      BY DEF Untouched, PatchedWords
    <2>1. a \in DOMAIN mem /\ a >= rc /\ mem'[a] = mem[a]
      <3>1. a \in DOMAIN mem
        BY <1>1
      <3>2. a \notin 0..rc - 1
        <4>1. a \in 0..rc - 1 => WritersOf(a)' = {1}
          BY <1>5, <3>1
        <4>2. {1} # {}
          OBVIOUS
        <4> QED BY <4>1, <4>2
      <3> QED BY <1>1, <1>2, <3>1, <3>2
    <2>2. CASE a \in rc..LoadAddr + rc - 1
      BY <1>4, <2>1, <2>2 DEF MoveKernel
    <2>3. CASE a \notin rc..LoadAddr + rc - 1
      <3>1. WritersOf(a) = {}
        BY <1>0, <1>1, <2>1, <2>3 DEF WritersOf
      <3> QED BY <1>0, <1>4, <2>1, <3>1 DEF WholeInv, Untouched, Loading
    <2> QED BY <2>2, <2>3
  <1>9. Sources'
    <2>1. rc > 0 => WritersOf(0)' # {}
      <3>1. rc > 0 => 0 \in DOMAIN mem /\ 0 \in 0..rc - 1
        BY <1>1
      <3>2. rc > 0 => WritersOf(0)' = {1}
        BY <1>5, <3>1
      <3>3. {1} # {}
        OBVIOUS
      <3> QED BY <3>2, <3>3
    <2>2. HasInitrd' = FALSE
      BY <1>0 DEF HasInitrd, NoEntry
    <2> QED BY <1>0, <2>1, <2>2 DEF Sources, Loaded
  <1> QED BY <1>6, <1>7, <1>8, <1>9 DEF WholeInv

(* A line of an INS file, or the last one done.                            *)
LEMMA InsWhole ==
  ASSUME IInv, WholeInv, handle_ins_cfg
  PROVE  WholeInv'
  <1>0. /\ pc = "ins" /\ net \in Networks /\ net' = net /\ jump = Jump!JumpIdle
        /\ cfg.entry = NoEntry /\ ~ old /\ UNCHANGED <<jump, old>>
        /\ program \in Seq(Loads) /\ Intact /\ Untouched
        /\ \A a \in DOMAIN mem : mem[a] # Jump!RESET_PSW
    BY DEF handle_ins_cfg, IInv, WholeInv, Sources, Jumping, Started, Loading
  <1>1. CASE cfg.lines = <<>> \/ Head(cfg.lines).file = NoName
    <2>1. /\ UNCHANGED <<fn_ip, mem, cfg, program>>
          /\ pc' \in {"pxelinux", "release"}
          /\ rc' > 0 => program # <<>>
      BY <1>1 DEF handle_ins_cfg, AfterLoad
    <2>2. HasInitrd' = FALSE
      BY <1>0, <2>1 DEF HasInitrd, NoEntry
    <2>3. Sources'
      BY <1>0, <2>1, <2>2 DEF Sources, Loaded
    <2>4. Jumping'
      BY <1>0, <2>1 DEF Jumping, Started
    <2>5. \A a : TheWord(a) = mem[a] /\ TheWord(a)' = mem'[a]
      BY <1>0, Idle, IdleNext DEF Started
    <2>6. Intact' /\ Untouched'
      BY <1>0, <2>1, <2>5, IntactStable, UntouchedStable
    <2> QED BY <2>3, <2>4, <2>6 DEF WholeInv
  <1>2. CASE ~ (cfg.lines = <<>> \/ Head(cfg.lines).file = NoName)
    <2> DEFINE line == Head(cfg.lines)
    <2>0. cfg.lines \in Seq([file : Names, at : Nat])
      BY DEF IInv, Configurations
    <2>1. line \in [file : Names, at : Nat]
      BY <1>2, <2>0, HeadTailProperties
    <2>2. /\ tftp_load(line.file, line.at, KERNEL_MAX_SIZE - line.at)
          /\ cfg' = [cfg EXCEPT !.lines = Tail(@)]
          /\ pc' = IF rc' <= 0 THEN AfterLoad ELSE "ins"
      BY <1>2 DEF handle_ins_cfg
    <2>3. line.file \in Names /\ line.at \in Nat
      BY <2>1
    <2>4. cfg'.entry = NoEntry
      BY <1>0, <2>2 DEF IInv, Configurations
    <2> HIDE DEF line
    <2>5. /\ DOMAIN mem' = DOMAIN mem
          /\ \A a \in DOMAIN mem : mem'[a] # Jump!RESET_PSW
          /\ program' \in Seq(Loads)
      BY <1>0, <2>2, <2>3, TransferSafe
    <2>6. Sources' /\ Jumping'
      <3>1. pc' \in {"ins", "pxelinux"} \/ (pc' = "release" /\ ~ (rc' > 0))
        <4>1. rc' = -1 \/ rc' \in Nat
          BY <1>0, <2>2, FileLength DEF tftp_load, Received, Failed
        <4> QED BY <2>2, <4>1 DEF AfterLoad
      <3> QED BY <1>0, <2>4, <2>5, <3>1 DEF Sources, Loaded, Jumping, Started
    <2>7. CASE pc' = "ins"
      <3>1. Received(line.file, line.at, KERNEL_MAX_SIZE - line.at)
        BY <2>2, <2>7 DEF tftp_load, Failed, AfterLoad
      <3> DEFINE e == [file |-> line.file, at |-> line.at]
      <3>2. e \in Loads /\ program' = Append(program, e)
        BY <2>3, <3>1 DEF Loads, Received
      <3>3. \A a \in DOMAIN mem :
              mem'[a] = IF a \in e.at..e.at + Len(FileWords(e.file)) - 1
                        THEN FileWords(e.file)[a - e.at + 1] ELSE mem[a]
        BY <3>1 DEF Received, Store
      <3> HIDE DEF e
      <3>4. \A a : TheWord(a) = mem[a] /\ TheWord(a)' = mem'[a]
        BY <1>0, Idle, IdleNext DEF Started
      <3>5. Intact'
        BY <1>0, <2>4, <2>5, <3>2, <3>3, <3>4, IntactAppend
      <3>6. Untouched'
        <4>1. 0..KERNEL_MAX_SIZE - 1 \subseteq DOMAIN mem
          BY MemoryAssumption DEF IInv, TypeOK
        <4> QED BY <1>0, <3>2, <3>3, <3>4, <4>1, UntouchedAppend
      <3> QED BY <2>6, <3>5, <3>6 DEF WholeInv
    <2>8. CASE pc' # "ins"
      <3>1. ~ Loading' /\ ~ Loaded'
        <4>1. rc' = -1 \/ rc' \in Nat
          BY <1>0, <2>2, FileLength DEF tftp_load, Received, Failed
        <4> QED BY <2>2, <2>8, <4>1 DEF AfterLoad, Loading, Loaded
      <3> QED BY <2>6, <3>1 DEF WholeInv
    <2> QED BY <2>7, <2>8
  <1> QED BY <1>1, <1>2

(* The next attempt begins with nothing loaded.                            *)
LEMMA PxelinuxWhole ==
  ASSUME IInv, WholeInv, net_try_pxelinux_cfg
  PROVE  WholeInv'
  <1>0. /\ pc = "pxelinux" /\ jump = Jump!JumpIdle /\ program' = <<>>
        /\ UNCHANGED <<net, mem, jump>>
        /\ pc' = "kernel" \/ (pc' = "release" /\ rc' = -1)
    BY DEF net_try_pxelinux_cfg, Attempt, WholeInv, Jumping, Started
  <1>1. Sources' /\ Jumping'
    <2>1. Jumping'
      BY <1>0 DEF WholeInv, Jumping, Started
    <2>2. program' \in Seq(Loads) /\ ~ Loaded'
      BY <1>0 DEF Loaded
    <2>3. Sources'
      BY <1>0, <2>2 DEF Sources
    <2> QED BY <2>1, <2>3
  <1>2. \A a : WritersOf(a)' = {}
    BY <1>0 DEF WritersOf
  <1>3. Untouched'
    <2>1. \A a : TheWord(a)' = mem'[a]
      BY <1>0, IdleNext
    <2>2. ~ old' => \A a \in 0..KERNEL_MAX_SIZE - 1 : mem[a].kind = "zero"
      BY DEF net_try_pxelinux_cfg, Attempt
    <2> QED BY <1>0, <2>1, <2>2 DEF Untouched
  <1> QED BY <1>1, <1>2, <1>3 DEF WholeInv, Intact

(* The kernel, from address 0.                                             *)
LEMMA LoadKernelWhole ==
  ASSUME IInv, WholeInv, LoadKernel
  PROVE  WholeInv'
  <1> DEFINE name == cfg.entry.kernel
             e == [file |-> name, at |-> 0]
  <1>0. /\ pc = "kernel" /\ net \in Networks /\ net' = net /\ jump = Jump!JumpIdle
        /\ UNCHANGED <<jump, cfg, pxe, old>>
        /\ program \in Seq(Loads) /\ Intact /\ Untouched
        /\ \A a \in DOMAIN mem : mem[a] # Jump!RESET_PSW
    BY DEF LoadKernel, IInv, WholeInv, Sources, Jumping, Started, Loading
  <1>1. name \in Names /\ 0 \in Nat /\ e \in Loads
    BY DEF IInv, Configurations, Loads
  <1>2. CASE rc' = -1
    <2>1. /\ pc' \in {"pxelinux", "release"}
          /\ ~ Loading' /\ ~ Loaded'
      <3>1. pc' \in {"pxelinux", "release"}
        BY <1>2 DEF LoadKernel, AfterKernel, AfterLoad
      <3> QED BY <1>2, <3>1 DEF Loading, Loaded
    <2>2. /\ DOMAIN mem' = DOMAIN mem
          /\ \A a \in DOMAIN mem : mem'[a] # Jump!RESET_PSW
          /\ program' \in Seq(Loads)
      <3>1. \/ mem' = mem /\ program' = program
            \/ tftp_load(name, 0, KERNEL_MAX_SIZE)
        BY DEF LoadKernel
      <3> QED BY <1>0, <1>1, <3>1, TransferSafe
    <2>3. Sources'
      BY <2>1, <2>2 DEF Sources
    <2>4. Jumping'
      BY <1>0, <2>1, <2>2 DEF Jumping, Started
    <2> QED BY <2>1, <2>3, <2>4 DEF WholeInv
  <1>3. CASE rc' # -1
    <2>1. name # NoName /\ Received(name, 0, KERNEL_MAX_SIZE) /\ pc' = AfterKernel
      BY <1>3 DEF LoadKernel, tftp_load, Failed
    <2>2. /\ program' = Append(program, e)
          /\ rc' = Len(FileWords(name)) /\ rc' \in Nat
          /\ mem' = Store(mem, FileWords(name), Len(FileWords(name)), 0)
      BY <1>0, <2>1, FileLength DEF Received
    <2>3. \A a \in DOMAIN mem :
            mem'[a] = IF a \in e.at..e.at + Len(FileWords(e.file)) - 1
                      THEN FileWords(e.file)[a - e.at + 1] ELSE mem[a]
      BY <2>2 DEF Store
    <2>4. \A a : TheWord(a) = mem[a] /\ TheWord(a)' = mem'[a]
      BY <1>0, Idle, IdleNext DEF Started
    <2>5. /\ DOMAIN mem' = DOMAIN mem
          /\ \A a \in DOMAIN mem : mem'[a] # Jump!RESET_PSW
          /\ program' \in Seq(Loads)
      BY <1>0, <1>1, <2>1, TransferSafe DEF tftp_load
    <2>6. (FileWords(name))' = FileWords(name)
      BY <1>0 DEF FileWords
    <2>7. pc' \in {"initrd", "append", "pxelinux", "release"}
      BY <2>1 DEF AfterKernel, AfterLoad
    <2>8. Sources'
      <3>1. DOMAIN program' = 1..Len(program') /\ Len(program') = Len(program) + 1
        BY <1>0, <1>1, <2>2
      <3>2. program'[Len(program')] = e
        BY <1>0, <1>1, <2>2
      <3>3. /\ pc' = "initrd" => HasInitrd'
            /\ pc' # "initrd" => ~ HasInitrd' \/ pc' = "pxelinux"
            /\ pc' = "append" => cfg'.entry.append
        BY <1>0, <2>1, <2>2 DEF AfterKernel, AfterLoad, HasInitrd
      <3>4. KernelLoaded(Len(program))'
        BY <1>0, <3>1, <3>2 DEF KernelLoaded
      <3>5. rc' > 0 => WritersOf(0)' # {}
        <4> HIDE DEF e
        <4>1. e.at = 0 /\ e.file = name
          BY DEF e
        <4>2. rc' > 0 => 0 \in e.at..e.at + Len(FileWords(e.file)) - 1
          BY <2>2, <4>1
        <4>3. rc' > 0 => Len(program) + 1 \in WritersOf(0)'
          BY <1>0, <1>1, <2>2, <4>2, WritersAppend
        <4> QED BY <4>3
      <3>6. program' # <<>>
        BY <1>0, <3>1
      <3> QED BY <1>0, <2>2, <2>5, <2>6, <2>7, <3>3, <3>4, <3>5, <3>6
          DEF Sources, Loaded
    <2>9. Jumping'
      BY <1>0, <2>5, <2>7 DEF Jumping, Started
    <2>10. Intact'
      <3> HIDE DEF e
      <3> QED BY <1>0, <1>1, <2>2, <2>3, <2>4, <2>5, IntactAppend
    <2>11. Untouched'
      <3> HIDE DEF e
      <3>1. 0..KERNEL_MAX_SIZE - 1 \subseteq DOMAIN mem
        BY MemoryAssumption DEF IInv, TypeOK
      <3> QED BY <1>0, <1>1, <2>2, <2>3, <2>4, <3>1, UntouchedAppend
    <2> QED BY <2>8, <2>9, <2>10, <2>11 DEF WholeInv
  <1> QED BY <1>2, <1>3

(* Rounding up to a page.                                                  *)
LEMMA PageAfterBeyond ==
  ASSUME NEW n \in Nat
  PROVE  PageAfter(n) >= n /\ PageAfter(0) = 0
  <1> DEFINE q == (n + PageWords - 1) \div PageWords
  <1>1. PageWords \in Nat /\ PageWords > 0
    BY MemoryAssumption
  <1>2. PageAfter(n) >= n
    BY <1>1, SMTT(30) DEF PageAfter
  <1>3. PageAfter(0) = 0
    BY <1>1, SMTT(30) DEF PageAfter
  <1> QED BY <1>2, <1>3

(* The initrd, on the page after it.                                       *)
LEMMA LoadInitrdWhole ==
  ASSUME IInv, WholeInv, LoadInitrd
  PROVE  WholeInv'
  <1> DEFINE name == cfg.entry.initrd
             iaddr == PageAfter(rc)
             size == Len(FileWords(name))
             e == [file |-> name, at |-> iaddr]
             params == [kind |-> "params", at |-> iaddr, size |-> size]
  <1>0. /\ pc = "initrd" /\ net \in Networks /\ net' = net /\ jump = Jump!JumpIdle
        /\ UNCHANGED <<jump, cfg, pxe, old>>
        /\ program \in Seq(Loads) /\ Intact /\ Untouched
        /\ \A a \in DOMAIN mem : mem[a] # Jump!RESET_PSW
        /\ HasInitrd /\ KernelLoaded(Len(program))
        /\ rc = Len(FileWords(cfg.entry.kernel))
        /\ rc > 0 /\ old => WritersOf(0) # {}
    BY DEF LoadInitrd, IInv, WholeInv, Sources, Jumping, Started, Loading
  <1>1. /\ name \in Names /\ rc \in Nat /\ iaddr \in Nat /\ size \in Nat
        /\ iaddr >= rc /\ (rc = 0 => iaddr = 0)
        /\ e \in Loads
    <2>1. name \in Names
      BY DEF IInv, Configurations
    <2>2. rc \in Nat /\ size \in Nat
      BY <1>0, FileLength
    <2>3. iaddr \in Nat /\ iaddr >= rc /\ PageAfter(0) = 0
      BY <2>2, PageAfterIsNat, PageAfterBeyond
    <2> HIDE DEF iaddr
    <2>4. e \in Loads
      BY <2>1, <2>3 DEF Loads
    <2> QED BY <2>1, <2>2, <2>3, <2>4 DEF iaddr
  <1>2. (FileWords(name))' = FileWords(name)
    BY <1>0 DEF FileWords
  <1> HIDE DEF iaddr
  <1>3. CASE Failed(name, iaddr, Room(iaddr)) /\ pc' = AfterLoad
    <2>1. rc' = -1 /\ pc' \in {"pxelinux", "release"}
      BY <1>3 DEF Failed, AfterLoad
    <2>2. ~ Loading' /\ ~ Loaded'
      BY <2>1 DEF Loading, Loaded
    <2>3. /\ DOMAIN mem' = DOMAIN mem
          /\ \A a \in DOMAIN mem : mem'[a] # Jump!RESET_PSW
          /\ program' \in Seq(Loads)
      BY <1>0, <1>1, <1>3, TransferSafe DEF tftp_load
    <2>4. Sources'
      BY <2>1, <2>2, <2>3 DEF Sources
    <2>5. Jumping'
      BY <1>0, <2>1, <2>3 DEF Jumping, Started
    <2> QED BY <2>2, <2>4, <2>5 DEF WholeInv
  <1>4. CASE /\ name \in DOMAIN net.files /\ size <= Room(iaddr)
             /\ program' = Append(program, e)
             /\ mem' = [Store(mem, FileWords(name), size, iaddr)
                          EXCEPT ![InitrdParams] = params]
             /\ rc' = size + iaddr
             /\ pc' = IF cfg.entry.append THEN "append" ELSE AfterLoad
    <2>1. /\ InitrdParams \in DOMAIN mem /\ InitrdParams # 0
          /\ 0..KERNEL_MAX_SIZE - 1 \subseteq DOMAIN mem
      BY MemoryAssumption DEF IInv, TypeOK
    <2>2. /\ DOMAIN mem' = DOMAIN mem /\ mem'[InitrdParams] = params
          /\ \A a \in DOMAIN mem : a # InitrdParams =>
               mem'[a] = IF a \in e.at..e.at + Len(FileWords(e.file)) - 1
                         THEN FileWords(e.file)[a - e.at + 1] ELSE mem[a]
      BY <1>4, <2>1 DEF Store
    <2>3. \A a : TheWord(a) = mem[a] /\ TheWord(a)' = mem'[a]
      BY <1>0, Idle, IdleNext DEF Started
    <2>4. \A a \in DOMAIN mem : mem'[a] # Jump!RESET_PSW
      <3>1. \A k \in 1..size : FileWords(name)[k] # Jump!RESET_PSW
        BY <1>0, <1>4, WordsAssumption DEF FileWords
      <3>2. params # Jump!RESET_PSW
        BY DEF Jump!RESET_PSW, Jump!PSW
      <3>3. ASSUME NEW a \in DOMAIN mem,
                   a \in e.at..e.at + Len(FileWords(e.file)) - 1
            PROVE  a - e.at + 1 \in 1..size
        BY <1>1, <3>3
      <3> HIDE DEF params, size
      <3> QED BY <1>0, <2>2, <3>1, <3>2, <3>3 DEF size
    <2>5. program' \in Seq(Loads)
      BY <1>0, <1>1, <1>4
    <2>6. pc' \in {"append", "pxelinux", "release"}
      BY <1>4 DEF AfterLoad
    <2>7. Intact'
      <3>1. \A a \in DOMAIN mem : ~ Patched(a)' => a # InitrdParams
        BY <1>0 DEF Patched, HasInitrd
      <3> HIDE DEF e
      <3> QED BY <1>0, <1>1, <1>4, <2>2, <2>3, <3>1, IntactAppend
    <2>8. Untouched'
      <3> HIDE DEF e
      <3> QED BY <1>0, <1>1, <1>4, <2>1, <2>2, <2>3, UntouchedAppend DEF PatchedWords
    <2>9. InitrdLoaded'
      <3> DEFINE n == Len(program)
      <3>1. n \in Nat /\ n \in 1..n /\ program[n] = [file |-> cfg.entry.kernel, at |-> 0]
        BY <1>0 DEF KernelLoaded
      <3>2. /\ Len(program') = n + 1 /\ DOMAIN program' = 1..n + 1
            /\ program'[n + 1] = e /\ program'[n] = program[n]
        BY <1>0, <1>1, <1>4, <3>1
      <3>3. Len(program') - 1 = n /\ n \in 1..n + 1 /\ Len(program') > 1
        BY <3>1, <3>2
      <3>4. KernelLoaded(Len(program) - 1)'
        BY <1>0, <3>1, <3>2, <3>3 DEF KernelLoaded
      <3>5. /\ (FileWords(cfg.entry.kernel))' = FileWords(cfg.entry.kernel)
            /\ cfg' = cfg /\ program'[Len(program')] = e
        BY <1>0, <3>2 DEF FileWords
      <3>6. (FileWords(program[Len(program)].file))' = FileWords(name)
        BY <1>0, <3>5 DEF FileWords
      <3> QED BY <1>0, <1>1, <2>2, <3>3, <3>4, <3>5, <3>6 DEF InitrdLoaded
    <2>10. Sources'
      <3>1. rc' > 0 /\ old' => WritersOf(0)' # {}
        <4>1. e.at = iaddr /\ e.file = name
          OBVIOUS
        <4> HIDE DEF e
        <4>2. rc' > 0 => rc > 0 \/ 0 \in e.at..e.at + Len(FileWords(e.file)) - 1
          BY <1>1, <1>4, <4>1
        <4>3. /\ WritersOf(0) \subseteq WritersOf(0)'
              /\ 0 \in e.at..e.at + Len(FileWords(e.file)) - 1 =>
                   Len(program) + 1 \in WritersOf(0)'
          BY <1>0, <1>1, <1>4, WritersAppend
        <4> QED BY <1>0, <4>2, <4>3
      <3>2. program' # <<>>
        BY <1>0, <1>1, <1>4
      <3>3. pc' = "append" => cfg'.entry.append
        BY <1>0, <1>4 DEF AfterLoad
      <3> HIDE DEF e, size, name, params
      <3> QED BY <2>5, <2>6, <2>9, <3>1, <3>2, <3>3 DEF Sources
    <2>11. Jumping'
      BY <1>0, <2>2, <2>4, <2>6 DEF Jumping, Started
    <2> QED BY <2>7, <2>8, <2>10, <2>11 DEF WholeInv
  <1> QED BY <1>3, <1>4 DEF LoadInitrd, iaddr

-----------------------------------------------------------------------------
(* Nothing is loaded any more.                                             *)
LEMMA LoadedStable ==
  ASSUME UNCHANGED <<net, cfg, program, old>>,
         mem'[InitrdParams] = mem[InitrdParams]
  PROVE  /\ InitrdLoaded' = InitrdLoaded
         /\ WritersOf(0)' = WritersOf(0)
         /\ HasInitrd' = HasInitrd
  <1>1. InitrdLoaded' = InitrdLoaded
    BY DEF InitrdLoaded, KernelLoaded, FileWords
  <1> QED BY <1>1 DEF WritersOf, FileWords, HasInitrd

LEMMA AppendWhole ==
  ASSUME IInv, WholeInv, AppendCommandLine
  PROVE  WholeInv'
  <1>0. /\ pc = "append" /\ pc' \in {"release", "pxelinux"} /\ jump = Jump!JumpIdle
        /\ UNCHANGED <<net, cfg, program, old, jump, rc>>
        /\ cfg.entry.append /\ Loaded
        /\ Intact /\ Untouched
        /\ CommandLine # InitrdParams
    BY LayoutAssumption
       DEF AppendCommandLine, AfterLoad, WholeInv, Sources, Jumping, Started, Loaded
  <1>1. /\ DOMAIN mem' = DOMAIN mem
        /\ \A a \in DOMAIN mem :
             mem'[a] = IF a = CommandLine THEN [kind |-> "cmdline"] ELSE mem[a]
        /\ InitrdParams \in DOMAIN mem /\ 0..KERNEL_MAX_SIZE - 1 \subseteq DOMAIN mem
    BY MemoryAssumption DEF AppendCommandLine, IInv, TypeOK
  <1>2. \A a : TheWord(a) = mem[a] /\ TheWord(a)' = mem'[a]
    BY <1>0, Idle, IdleNext DEF Started
  <1>3. Intact'
    <2>1. \A a \in DOMAIN mem : ~ Patched(a) => a # CommandLine
      BY <1>0 DEF Patched
    <2> QED BY <1>0, <1>1, <1>2, <2>1, IntactStable
  <1>4. Untouched'
    BY <1>0, <1>1, <1>2, UntouchedStable DEF PatchedWords
  <1>5. Jumping'
    <2>1. [kind |-> "cmdline"] # Jump!RESET_PSW
      BY DEF Jump!RESET_PSW, Jump!PSW
    <2> QED BY <1>0, <1>1, <2>1 DEF WholeInv, Jumping, Started
  <1>6. Sources'
    <2>1. mem'[InitrdParams] = mem[InitrdParams]
      BY <1>0, <1>1
    <2>2. /\ InitrdLoaded' = InitrdLoaded /\ WritersOf(0)' = WritersOf(0)
          /\ HasInitrd' = HasInitrd
      BY <1>0, <2>1, LoadedStable
    <2> QED BY <1>0, <2>2 DEF WholeInv, Sources, Loaded
  <1> QED BY <1>3, <1>4, <1>5, <1>6 DEF WholeInv

LEMMA ReleaseWhole ==
  ASSUME IInv, WholeInv, net_release
  PROVE  WholeInv'
  <1>0. /\ pc = "release" /\ pc' = IF rc > 0 THEN "start" ELSE "panic"
        /\ UNCHANGED <<net, cfg, program, old, jump, rc, mem>>
        /\ jump = Jump!JumpIdle
    BY DEF net_release, WholeInv, Jumping, Started
  <1>1. \A a : TheWord(a) = mem[a] /\ TheWord(a)' = mem'[a]
    BY <1>0, Idle, IdleNext DEF Started
  <1>2. Jumping'
    BY <1>0 DEF WholeInv, Jumping, Started
  <1>3. Sources'
    <2>1. /\ InitrdLoaded' = InitrdLoaded /\ WritersOf(0)' = WritersOf(0)
          /\ HasInitrd' = HasInitrd
      BY <1>0, LoadedStable
    <2> QED BY <1>0, <2>1 DEF WholeInv, Sources, Loaded
  <1>4. (Loading \/ Loaded)' => Intact' /\ Untouched'
    <2> SUFFICES ASSUME (Loading \/ Loaded)' PROVE Intact' /\ Untouched'
      OBVIOUS
    <2>1. Intact /\ Untouched
      BY <1>0 DEF Loading, Loaded, WholeInv
    <2> QED BY <1>0, <1>1, <2>1, IntactStable, UntouchedStable
  <1> QED BY <1>2, <1>3, <1>4 DEF WholeInv

(* Word 0 is borrowed, if the program is not entered by it.                *)
LEMMA StartWhole ==
  ASSUME IInv, WholeInv, StartKernel
  PROVE  WholeInv'
  <1> DEFINE m == Jump!Store(mem, ConsoleWords)
             address == Jump!LowKernel(m)
  <1>0. /\ pc = "start" /\ pc' = "jump" /\ jump = Jump!JumpIdle
        /\ UNCHANGED <<net, cfg, program, old, rc>>
        /\ Intact /\ Untouched /\ Loaded
        /\ \A a \in DOMAIN mem : mem[a] # Jump!RESET_PSW
    BY DEF StartKernel, WholeInv, Jumping, Started, Loading, Loaded
  <1>1. /\ 0 \in DOMAIN mem /\ SubchannelId # 0 /\ InitrdParams # SubchannelId
        /\ InitrdParams # 0 /\ S390EP # 0 /\ S390EP # SubchannelId
        /\ SubchannelId \in DOMAIN mem /\ S390EP \in DOMAIN mem
        /\ InitrdParams \in DOMAIN mem /\ 0..KERNEL_MAX_SIZE - 1 \subseteq DOMAIN mem
    BY MemoryAssumption, LayoutAssumption DEF IInv, TypeOK
  <1>2. /\ 0 \notin ConsoleWords /\ InitrdParams \notin ConsoleWords
        /\ S390EP \notin ConsoleWords /\ SubchannelId \notin ConsoleWords
    BY MemoryAssumption, LayoutAssumption
  <1>3. /\ DOMAIN m = DOMAIN mem
        /\ \A a \in DOMAIN mem \ ConsoleWords : m[a] = mem[a]
    BY DEF Jump!Store
  <1>4. m[0] = mem[0] /\ m[S390EP] = mem[S390EP]
    BY <1>1, <1>3, <1>2
  <1> DEFINE n == [m EXCEPT ![SubchannelId] = [kind |-> "schid"],
                            ![0] = IF address # 0 THEN Jump!RESET_PSW ELSE m[0]]
  <1>5. /\ mem' = Jump!Store(n, ConsoleWords)
        /\ jump' = [Jump!JumpIdle EXCEPT !.at = "reset",
                               !.save = IF address # 0 THEN m[0] ELSE @,
                               !.ipl_continue = address]
    BY DEF StartKernel, Jump!jump_to_IPL_code, Jump!sclp_print
  <1> HIDE DEF m, address
  <1>6. /\ DOMAIN n = DOMAIN mem
        /\ \A a \in DOMAIN mem \ ({0, SubchannelId} \cup ConsoleWords) : n[a] = mem[a]
        /\ n[0] = IF address # 0 THEN Jump!RESET_PSW ELSE mem[0]
    BY <1>1, <1>3, <1>4
  <1> HIDE DEF n
  <1>7. /\ DOMAIN mem' = DOMAIN n
        /\ \A a \in DOMAIN n \ ConsoleWords : mem'[a] = n[a]
    BY <1>5 DEF Jump!Store
  <1>8. /\ DOMAIN mem' = DOMAIN mem
        /\ \A a \in DOMAIN mem \ ({0, SubchannelId} \cup ConsoleWords) :
             mem'[a] = mem[a]
        /\ mem'[0] = IF address # 0 THEN Jump!RESET_PSW ELSE mem[0]
        /\ jump'.at = "reset" /\ jump'.ipl_continue = address
        /\ address # 0 => jump'.save = mem[0]
        /\ DOMAIN jump' = DOMAIN Jump!JumpIdle
    BY <1>1, <1>4, <1>5, <1>6, <1>7, <1>2 DEF Jump!JumpIdle
  <1>9. \A a : TheWord(a) = mem[a]
    BY <1>0, Idle DEF Started
  <1>10. \A a \in DOMAIN mem \ ({SubchannelId} \cup ConsoleWords) :
          TheWord(a)' = TheWord(a)
    BY <1>8, <1>9 DEF TheWord, Borrowed
  <1>11. Intact'
    BY <1>0, <1>8, <1>10, IntactStable DEF Patched
  <1>12. Untouched'
    BY <1>0, <1>1, <1>10, UntouchedStable DEF PatchedWords
  <1>13. Sources'
    <2>1. mem'[InitrdParams] = mem[InitrdParams]
      BY <1>1, <1>8, <1>2
    <2>2. /\ InitrdLoaded' = InitrdLoaded /\ WritersOf(0)' = WritersOf(0)
          /\ HasInitrd' = HasInitrd
      BY <1>0, <2>1, LoadedStable
    <2> QED BY <1>0, <2>2 DEF WholeInv, Sources, Loaded
  <1>14. Jumping'
    <2>1. address = IF ByPsw THEN 0 ELSE KERN_IMAGE_START
      BY <1>9, <1>4 DEF address, ByPsw, Jump!LowKernel, Jump!HasResetBits
    <2>2. ByPsw' = ByPsw
      BY <1>1, <1>10, <1>2 DEF ByPsw, Jump!HasResetBits
    <2>3. mem'[0] = Jump!RESET_PSW <=> address # 0
      BY <1>0, <1>1, <1>8
    <2> QED BY <1>0, <1>8, <2>1, <2>2, <2>3 DEF Jumping, Started
  <1> QED BY <1>11, <1>12, <1>13, <1>14 DEF WholeInv

(* And given back before it is entered.                                    *)
LEMMA EnteringWhole ==
  ASSUME IInv, WholeInv, Entering
  PROVE  WholeInv'
  <1>0. /\ UNCHANGED <<net, pc, cfg, program, old, rc>>
        /\ Started /\ Intact /\ Untouched /\ Loaded
        /\ Jump!Reset \/ Jump!jump_to_IPL_addr
    BY DEF Entering, Jump!JumpNext, Jump!Reset, Jump!jump_to_IPL_addr,
       WholeInv, Jumping, Started, Loaded, Jump!JumpIdle
  <1>1. /\ 0 \in DOMAIN mem /\ InitrdParams # 0 /\ S390EP # 0
        /\ S390EP \in DOMAIN mem /\ InitrdParams \in DOMAIN mem
        /\ 0..KERNEL_MAX_SIZE - 1 \subseteq DOMAIN mem
    BY MemoryAssumption DEF IInv, TypeOK
  <1>2. /\ DOMAIN mem' = DOMAIN mem
        /\ \A a \in DOMAIN mem \ {0} : mem'[a] = mem[a]
        /\ TheWord(0)' = TheWord(0)
        /\ jump'.ipl_continue = jump.ipl_continue /\ DOMAIN jump' = DOMAIN jump
        /\ jump'.at \in {"jump_to_IPL_addr", "guest"}
        /\ jump'.at = "jump_to_IPL_addr" => jump.ipl_continue # 0
        /\ jump'.at = "guest" =>
             jump'.entered = IF jump.ipl_continue = 0 THEN mem'[0]
                             ELSE Jump!PSW(KERN_IMAGE_START, TRUE, TRUE, TRUE)
    <2>0. DOMAIN jump = {"at", "save", "ipl_continue", "entered"}
      BY <1>0 DEF WholeInv, Jumping, Jump!JumpIdle
    <2>1. CASE Jump!Reset
      BY <1>0, <2>0, <2>1 DEF Jump!Reset, WholeInv, Jumping, TheWord, Borrowed
    <2>2. CASE Jump!jump_to_IPL_addr
      BY <1>0, <1>1, <2>0, <2>2
         DEF Jump!jump_to_IPL_addr, WholeInv, Jumping, TheWord, Borrowed
    <2> QED BY <1>0, <2>1, <2>2
  <1>3. \A a \in DOMAIN mem : TheWord(a)' = TheWord(a)
    BY <1>2 DEF TheWord
  <1>4. Intact'
    BY <1>0, <1>2, <1>3, IntactStable
  <1>5. Untouched'
    BY <1>0, <1>1, <1>3, UntouchedStable
  <1>6. Sources'
    <2>1. /\ InitrdLoaded' = InitrdLoaded /\ WritersOf(0)' = WritersOf(0)
          /\ HasInitrd' = HasInitrd
      BY <1>0, <1>1, <1>2, LoadedStable
    <2> QED BY <1>0, <2>1 DEF WholeInv, Sources, Loaded
  <1>7. Jumping'
    <2>1. ByPsw' = ByPsw
      BY <1>1, <1>3 DEF ByPsw, Jump!HasResetBits
    <2> QED BY <1>0, <1>2, <2>1 DEF WholeInv, Jumping, Started
  <1> QED BY <1>4, <1>5, <1>6, <1>7 DEF WholeInv

LEMMA StepWhole == IInv /\ WholeInv /\ [Next]_vars => WholeInv'
  <1> SUFFICES ASSUME IInv, WholeInv, [Next]_vars PROVE WholeInv'
    OBVIOUS
  <1>1. CASE UNCHANGED vars
    <2>1. /\ WritersOf(0)' = WritersOf(0) /\ HasInitrd' = HasInitrd
          /\ InitrdLoaded' = InitrdLoaded
      BY <1>1, LoadedStable DEF vars
    <2>2. \A a : TheWord(a)' = TheWord(a)
      BY <1>1 DEF vars, TheWord, Borrowed
    <2>3. Sources'
      BY <1>1, <2>1 DEF vars, WholeInv, Sources, Loaded, NothingStored, KernelLoaded,
         FileWords, NoCfg
    <2>4. Jumping'
      BY <1>1, <2>2 DEF vars, WholeInv, Jumping, Started, ByPsw, Jump!HasResetBits,
         Jump!JumpIdle, Jump!RESET_PSW
    <2>5. (Loading \/ Loaded)' => Intact' /\ Untouched'
      <3> SUFFICES ASSUME (Loading \/ Loaded)' PROVE Intact' /\ Untouched'
        OBVIOUS
      <3>1. Intact /\ Untouched
        BY <1>1 DEF vars, Loading, Loaded, WholeInv
      <3> QED BY <1>1, <2>2, <3>1, IntactStable, UntouchedStable DEF vars
    <2> QED BY <2>3, <2>4, <2>5 DEF WholeInv
  <1> QED BY <1>1, SetUpWhole, LoadBootFileWhole, MoveKernelWhole, InsWhole,
             PxelinuxWhole, LoadKernelWhole, LoadInitrdWhole, AppendWhole,
             ReleaseWhole, StartWhole, EnteringWhole DEF Next

LEMMA Invariance == Spec => [](IInv /\ WholeInv)
  <1>1. IInv /\ [Next]_vars => IInv'
    BY StepKeeps
  <1> QED BY InitIInv, InitWhole, <1>1, StepWhole, PTL DEF Spec

(* The file loaded over a word last is the one the word is of.             *)
LEMMA CoveredIsPromised ==
  ASSUME NEW a, Covered(a), ~ Patched(a), program \in Seq(Loads)
  PROVE  TheWord(a) = Promised(a)
  <1>1. PICK k \in WritersOf(a) :
          /\ \A v \in WritersOf(a) : v <= k
          /\ TheWord(a) = FileWords(program[k].file)[a - program[k].at + 1]
    BY DEF Covered
  <1> DEFINE last == CHOOSE w \in WritersOf(a) : \A v \in WritersOf(a) : v <= w
  <1>2. last \in WritersOf(a) /\ \A v \in WritersOf(a) : v <= last
    BY <1>1
  <1>3. WritersOf(a) \subseteq Nat
    BY DEF WritersOf
  <1> HIDE DEF last
  <1>4. last = k
    BY <1>1, <1>2, <1>3
  <1> QED BY <1>1, <1>4 DEF Promised, last

(* In the system, every word is its own again.                             *)
LEMMA GuestWords ==
  ASSUME IInv, WholeInv, jump.at = "guest"
  PROVE  /\ pc = "jump" /\ Loaded /\ rc > 0 /\ Untouched
         /\ \A a : TheWord(a) = mem[a]
         /\ \A a \in DOMAIN mem :
              WritersOf(a) # {} /\ ~ Patched(a) => mem[a] = Promised(a)
  <1>1. pc = "jump"
    BY DEF WholeInv, Jumping, Started, Jump!JumpIdle
  <1>2. Loaded /\ rc > 0 /\ Intact /\ Untouched /\ program \in Seq(Loads)
    BY <1>1 DEF WholeInv, Sources, Loaded
  <1>3. \A a : TheWord(a) = mem[a]
    BY DEF TheWord, Borrowed
  <1> QED BY <1>1, <1>2, <1>3, CoveredIsPromised DEF Intact

(* What is started is whole: for every network and every failure before    *)
(* it, each word is that of the file loaded over it last, but for those    *)
(* that are patched or printed over, and the initrd is where the kernel is *)
(* told it is (StartsWhole of NetBoot).                                    *)
THEOREM StartedWhole == Spec => []StartsWhole
  <1>1. IInv /\ WholeInv => StartsWhole
    <2>1. SUFFICES ASSUME IInv, WholeInv, jump.at = "guest"
                   PROVE  StartsWhole
      BY DEF StartsWhole
    <2>2. program # <<>> /\ (HasInitrd => InitrdLoaded)
      BY <2>1, GuestWords DEF WholeInv, Sources
    <2>3. HasInitrd =>
            LET kernel == program[Len(program) - 1]
                initrd == program[Len(program)]
            IN /\ initrd.file = cfg.entry.initrd /\ kernel.file = cfg.entry.kernel
               /\ initrd.at >= kernel.at + Len(FileWords(kernel.file))
               /\ mem[InitrdParams] =
                    [kind |-> "params", at |-> initrd.at,
                     size |-> Len(FileWords(initrd.file))]
      <3>1. Len(FileWords(cfg.entry.kernel)) \in Nat
        BY FileLength DEF IInv
      <3> QED BY <2>2, <3>1 DEF InitrdLoaded, KernelLoaded
    <2> QED BY <2>1, <2>2, <2>3, GuestWords DEF StartsWhole
  <1> QED BY Invariance, <1>1, PTL

(* It is entered as its own words ask for, by its PSW or at the image, if  *)
(* it has a word where the magic would be or nothing was loaded before it: *)
(* the jump, which borrows word 0, decides by what the program has there.  *)
(* Otherwise a magic that an earlier attempt left is taken for its own     *)
(* (EnteredAsItAsks of NetBoot).                                           *)
THEOREM EnteredRight == Spec => []EnteredAsItAsks
  <1>1. IInv /\ WholeInv => EnteredAsItAsks
    <2> DEFINE magic == WritersOf(S390EP) # {} /\ Promised(S390EP).kind = "S390EP"
               psw == WritersOf(0) # {} /\ Jump!HasResetBits(Promised(0))
    <2>1. SUFFICES ASSUME IInv, WholeInv, jump.at = "guest",
                          WritersOf(S390EP) # {} \/ ~ old
                   PROVE  jump.entered = IF psw /\ ~ magic THEN Promised(0)
                                         ELSE Jump!PSW(KERN_IMAGE_START, TRUE, TRUE, TRUE)
      BY DEF EnteredAsItAsks
    <2>2. /\ 0 \in DOMAIN mem /\ S390EP \in DOMAIN mem
          /\ 0 \in 0..KERNEL_MAX_SIZE - 1 /\ S390EP \in 0..KERNEL_MAX_SIZE - 1
          /\ 0 \notin PatchedWords /\ S390EP \notin PatchedWords
          /\ ~ Patched(0) /\ ~ Patched(S390EP)
      BY <2>1, MemoryAssumption, LayoutAssumption
         DEF IInv, TypeOK, PatchedWords, Patched
    <2>3. magic <=> TheWord(S390EP).kind = "S390EP"
      <3>1. WritersOf(S390EP) # {} => mem[S390EP] = Promised(S390EP)
        BY <2>1, <2>2, GuestWords
      <3>2. WritersOf(S390EP) = {} => mem[S390EP].kind = "zero"
        BY <2>1, <2>2, GuestWords DEF Untouched
      <3> QED BY <2>1, <3>1, <3>2, GuestWords
    <2>4. /\ psw <=> Jump!HasResetBits(TheWord(0))
          /\ psw => mem[0] = Promised(0)
      <3>1. WritersOf(0) # {} => mem[0] = Promised(0)
        BY <2>1, <2>2, GuestWords
      <3>2. WritersOf(0) = {} => mem[0].kind = "zero"
        <4>1. WritersOf(0) = {} => ~ old
          BY <2>1, GuestWords DEF WholeInv, Sources
        <4> QED BY <2>1, <2>2, <4>1, GuestWords DEF Untouched
      <3> QED BY <2>1, <3>1, <3>2, GuestWords DEF Jump!HasResetBits
    <2> HIDE DEF magic, psw
    <2>5. jump.entered = IF ByPsw THEN mem[0]
                         ELSE Jump!PSW(KERN_IMAGE_START, TRUE, TRUE, TRUE)
      BY <2>1, GuestWords, LayoutAssumption DEF WholeInv, Jumping, Started
    <2> QED BY <2>3, <2>4, <2>5 DEF ByPsw
  <1> QED BY Invariance, <1>1, PTL
===============================================================================
