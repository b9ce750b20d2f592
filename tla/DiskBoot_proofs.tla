--------------------------- MODULE DiskBoot_proofs ----------------------------
(***************************************************************************)
(* Proofs about the boot from a disk.  The search for the device: however  *)
(* many subchannels, geometries and limits there are, what is read and     *)
(* booted does not go by what a device that was tried before has left in   *)
(* the one vdev.  The boot map: a chain of any length and shape, on a disk *)
(* of any layout, is loaded whole before it is started.                    *)
(***************************************************************************)
EXTENDS BootDevice, BootMap, TLAPS

Searched == {"ipl", "locate", "ready", "inquire", "load", "scsi", "iso", "cdrom",
             "eckd", "next"}
InUse == SettingUp \/ Reading \/ pc = "load"
Geometry == Nat \X Nat \X Nat \X Nat

(* Where the search is, and what may be found there: a network device only *)
(* where one was asked for.                                                *)
Place ==
  /\ pc \in Searched => schid.sch < MaxSch
  /\ pc = "find" => iplb # "none"
  /\ pc = "ipl" /\ cutype = "virtio" /\ vdev.model = "net" => iplb # "none"
  /\ via # "none" => pc = "booted"

(* vdev is about the device at schid; its model may only be unknown.       *)
Described ==
  /\ DeviceSensed
  /\ pc = "ipl" => vdev.model \in {dev.model, "other"}
  /\ InUse => cutype = "virtio"
  /\ SettingUp => dev.model = "scsi"
  /\ Reading => dev.model \in {"block", "scsi"}
  /\ pc = "load" => dev.model \in {"net", "block", "scsi"}

(* What is asked of a device before it is used.  That a device is a CD-ROM *)
(* is never taken back, but none is left behind either.                    *)
Known ==
  /\ vdev.isCdrom => pc \in {"load", "cdrom", "booted", "panic"} /\ dev.cdrom
  /\ pc = "cdrom" => vdev.isCdrom
  /\ vdev.model = "scsi" /\ (pc = "load" \/ Reading) =>
       /\ vdev.scsiBlockSize = dev.blocklen
       /\ vdev.maxTransfer \in 1 .. MAX_SECTORS
       /\ dev.page => vdev.maxTransfer = MinNonZero(MAX_SECTORS, dev.limit)
  /\ (pc = "load" /\ vdev.model = "net") \/ via = "net" => vdev.netboot

(* The guess in force where the boot schemes are tried.  The block factor  *)
(* leaves 1 for the search for an ISO image alone: every way to the next   *)
(* device takes it back.                                                   *)
Guessed ==
  /\ InUse /\ vdev.model # "net" /\ vdev.nature # "none" => guessedFor = schid
  /\ vdev.factor # 1 =>
       \/ pc = "iso" /\ vdev.nature = "scsi" /\ vdev.model = "block"
       \/ pc \in {"booted", "panic"}
  /\ SettingUp => vdev.nature = "none"
  /\ pc \in {"load", "scsi", "iso", "cdrom"} /\ vdev.model = "scsi" =>
       vdev.nature = "none"
  /\ pc \in {"load", "scsi"} /\ vdev.model = "block" /\ vdev.nature # "none" =>
       vdev.nature = "scsi" /\ vdev.geometry[3] = 512 /\ vdev.geometry[4] = 0
  /\ pc = "iso" /\ vdev.model = "block" /\ vdev.nature # "none" =>
       /\ vdev.nature = "scsi" /\ vdev.geometry[3] = 2048 /\ vdev.geometry[4] = 0
       /\ vdev.factor = 4
  /\ pc = "eckd" /\ vdev.nature # "none" =>
       /\ vdev.nature = "dasd"
       /\ vdev.geometry =
            EckdGeometry(IF vdev.model = "block" THEN 4096 ELSE vdev.scsiBlockSize)

IInv == TypeOK /\ Place /\ Described /\ Known /\ Guessed

-----------------------------------------------------------------------------
(* What the operators on a VDev give.                                      *)

Sound(d) ==
  /\ d.cu \in {"none", "invalid", "dasd", "virtio", "unknown"}
  /\ d.model \in Models /\ d.geometry \in Geometry
  /\ d.cdrom \in BOOLEAN /\ d.page \in BOOLEAN /\ d.limit \in Nat
  /\ d.blocklen \in Nat
  /\ d.cdrom => d.model = "scsi"
  /\ d.cu = "dasd" => d.model = "other"

LEMMA DeviceFields == ASSUME NEW d \in Devices \cup {NoDevice} PROVE Sound(d)
  <1> DEFINE Zeros == <<0, 0, 0, 0>>
  <1>1. Zeros \in Geometry
    BY DEF Geometry
  <1> HIDE DEF Zeros
  <1>2. NoDevice = [cu |-> "none", model |-> "other", geometry |-> Zeros, cdrom |-> FALSE,
                    page |-> FALSE, limit |-> 0, blocklen |-> 0]
    BY DEF NoDevice, Zeros
  <1>3. CASE d = NoDevice
    BY <1>1, <1>2, <1>3 DEF Sound, Models
  <1>4. CASE d \in Plain
    <2>1. PICK c \in {"invalid", "dasd", "unknown"} : d = [NoDevice EXCEPT !.cu = c]
      BY <1>4 DEF Plain
    <2> QED BY <2>1, <1>1, <1>2 DEF Sound, Models
  <1>5. CASE d \in NoDisks
    <2>1. PICK m \in {"net", "other"} : d = [NoDevice EXCEPT !.cu = "virtio", !.model = m]
      BY <1>5 DEF NoDisks
    <2> QED BY <2>1, <1>1, <1>2 DEF Sound, Models
  <1>6. CASE d \in Disks
    <2>1. PICK g \in Geometries :
            d = [NoDevice EXCEPT !.cu = "virtio", !.model = "block", !.geometry = g]
      BY <1>6 DEF Disks
    <2>2. g \in Geometry
      BY BootAssumption DEF Geometry
    <2> QED BY <2>1, <2>2, <1>2 DEF Sound, Models
  <1>7. CASE d \in ScsiDevices
    <2>1. d.geometry = NoDevice.geometry /\ d.limit \in Limits
      BY <1>7 DEF ScsiDevices
    <2>2. NoDevice.geometry = Zeros
      BY <1>2
    <2>3. d.geometry = Zeros /\ d.limit \in Nat
      BY <2>1, <2>2, BootAssumption
    <2>4. d.cu = "virtio" /\ d.model = "scsi" /\ d.blocklen \in Nat
      BY <1>7, BootAssumption DEF ScsiDevices
    <2>5. d.cdrom \in BOOLEAN /\ d.page \in BOOLEAN
      BY <1>7 DEF ScsiDevices
    <2> QED BY <2>3, <2>4, <2>5, <1>1 DEF Sound, Models
  <1> QED BY <1>3, <1>4, <1>5, <1>6, <1>7 DEF Devices

LEMMA EckdSectors ==
  ASSUME NEW size
  PROVE  virtio_eckd_sectors_for_block_size(size) \in Nat
  BY DEF virtio_eckd_sectors_for_block_size

LEMMA BlockSizeKept == \A n \in Nat : n * 2^0 = n
  OBVIOUS

(* A guess is about the disk alone.                                        *)
Same(v, w) ==
  /\ w.schid = v.schid /\ w.model = v.model /\ w.isCdrom = v.isCdrom
  /\ w.scsiBlockSize = v.scsiBlockSize /\ w.maxTransfer = v.maxTransfer
  /\ w.netboot = v.netboot

Guess(v, n, f, g) == [v EXCEPT !.nature = n, !.factor = f, !.geometry = g]

LEMMA Guesses ==
  ASSUME NEW v \in VDevs, NEW n \in Natures, NEW f \in {1, 4}, NEW g \in Geometry
  PROVE  /\ Guess(v, n, f, g) \in VDevs /\ Same(v, Guess(v, n, f, g))
         /\ Guess(v, n, f, g).nature = n /\ Guess(v, n, f, g).factor = f
         /\ Guess(v, n, f, g).geometry = g
  BY DEF VDevs, Same, Geometry, Guess

LEMMA Assumed ==
  ASSUME NEW v \in VDevs, v.model = "block"
  PROVE  LET w == virtio_assume_scsi(v)
             x == virtio_assume_iso9660(v)
         IN /\ w \in VDevs /\ Same(v, w) /\ w.nature = "scsi" /\ w.factor = 1
            /\ w.geometry[3] = 512 /\ w.geometry[4] = 0
            /\ x \in VDevs /\ Same(v, x) /\ x.nature = "scsi" /\ x.factor = 4
            /\ x.geometry[3] = 2048 /\ x.geometry[4] = 0
  <1> DEFINE G(size) == <<heads(v), sectors(v), size, 0>>
  <1>1. v.geometry \in Geometry
    BY DEF VDevs, Geometry
  <1>2. v.geometry[1] \in Nat /\ v.geometry[2] \in Nat
    BY <1>1 DEF Geometry
  <1>3. \A size \in Nat : G(size) \in Geometry /\ G(size)[3] = size /\ G(size)[4] = 0
    BY <1>2 DEF heads, sectors, Geometry
  <1>4. "scsi" \in Natures /\ 1 \in {1, 4} /\ 4 \in {1, 4}
    BY DEF Natures
  <1>5. virtio_assume_scsi(v) = Guess(v, "scsi", 1, G(512))
    BY Zenon DEF virtio_assume_scsi, Guess
  <1>6. virtio_assume_iso9660(v) = Guess(v, "scsi", 4, G(2048))
    BY DEF virtio_assume_iso9660, Guess
  <1>7. G(512) \in Geometry /\ G(2048) \in Geometry
    BY <1>3
  <1>8. /\ G(512)[3] = 512 /\ G(512)[4] = 0 /\ G(2048)[3] = 2048 /\ G(2048)[4] = 0
    BY <1>3
  <1> HIDE DEF G
  <1>9. LET w == Guess(v, "scsi", 1, G(512))
        IN w \in VDevs /\ Same(v, w) /\ w.nature = "scsi" /\ w.factor = 1
             /\ w.geometry = G(512)
    BY <1>4, <1>7, Guesses
  <1>10. LET w == Guess(v, "scsi", 4, G(2048))
         IN w \in VDevs /\ Same(v, w) /\ w.nature = "scsi" /\ w.factor = 4
              /\ w.geometry = G(2048)
    BY <1>4, <1>7, Guesses
  <1> QED BY <1>5, <1>6, <1>8, <1>9, <1>10

LEMMA AssumedEckd ==
  ASSUME NEW v \in VDevs
  PROVE  LET w == virtio_assume_eckd(v)
         IN /\ w \in VDevs /\ Same(v, w) /\ w.nature = "dasd" /\ w.factor = 1
            /\ w.geometry = EckdGeometry(IF v.model = "block" THEN 4096 ELSE v.scsiBlockSize)
  <1> DEFINE size == IF v.model = "block" THEN 4096 ELSE v.scsiBlockSize
             g == EckdGeometry(size)
  <1>1. size \in Nat
    BY DEF VDevs
  <1>2. g \in Geometry
    <2> HIDE DEF size
    <2> QED BY <1>1, EckdSectors DEF EckdGeometry, Geometry
  <1>3. "dasd" \in Natures /\ 1 \in {1, 4}
    BY DEF Natures
  <1>4. virtio_assume_eckd(v) = Guess(v, "dasd", 1, g)
    BY Zenon DEF virtio_assume_eckd, Guess
  <1> HIDE DEF g
  <1>5. LET w == Guess(v, "dasd", 1, g)
        IN w \in VDevs /\ Same(v, w) /\ w.nature = "dasd" /\ w.factor = 1 /\ w.geometry = g
    BY <1>2, <1>3, Guesses
  <1> QED BY <1>4, <1>5 DEF g

LEMMA LimitBounds ==
  ASSUME NEW v \in VDevs, dev \in Devices \cup {NoDevice}
  PROVE  /\ Limit(v) \in 1 .. MAX_SECTORS
         /\ dev.page => Limit(v) = MinNonZero(MAX_SECTORS, dev.limit)
  <1>1. Sound(dev) /\ v.maxTransfer \in Nat /\ v.maxTransfer <= MAX_SECTORS
    BY DeviceFields, BootAssumption DEF VDevs
  <1> QED BY <1>1, BootAssumption DEF Limit, MinNonZero, Sound

-----------------------------------------------------------------------------
LEMMA InitIInv == Init => IInv
  <1> SUFFICES ASSUME Init PROVE IInv
    OBVIOUS
  <1>1. schid \in SchIds
    BY BootAssumption DEF Init, SchIds
  <1>2. vdev \in VDevs
    BY <1>1, BootAssumption DEF Init, VDevs, Models, Natures
  <1>3. TypeOK
    BY <1>1, <1>2 DEF Init, TypeOK, PCs
  <1>4. Place /\ Described /\ Known /\ Guessed
    BY DEF Init, Place, Described, Known, Guessed, DeviceSensed, InUse, SettingUp,
       Reading, Searched
  <1> QED BY <1>3, <1>4 DEF IInv

(* The device looked at is one of the devices.                             *)
LEMMA Sensing ==
  ASSUME vdev \in VDevs, schid \in SchIds, NEW m \in Models
  PROVE  LET w == [vdev EXCEPT !.schid = schid, !.model = m]
         IN /\ w \in VDevs /\ w.schid = schid /\ w.model = m
            /\ w.nature = vdev.nature /\ w.factor = vdev.factor
            /\ w.isCdrom = vdev.isCdrom /\ w.netboot = vdev.netboot
            /\ w.scsiBlockSize = vdev.scsiBlockSize /\ w.geometry = vdev.geometry
            /\ w.maxTransfer = vdev.maxTransfer
  BY DEF VDevs

(* One subchannel is looked at: it is passed or, when it holds a device    *)
(* that was asked for or may be booted, found.                             *)
Looked(d, m) ==
  /\ dev' = d
  /\ schid.sch < MaxSch /\ pc \in {"find", "probe"}
  /\ \/ d.cu = "invalid" /\ UNCHANGED <<cutype, vdev>>
     \/ /\ d.cu # "invalid" /\ cutype' = d.cu
        /\ vdev' = [vdev EXCEPT !.schid = schid, !.model = m]
  /\ \/ Advance /\ UNCHANGED pc
     \/ /\ pc' = "ipl" /\ d.cu # "invalid" /\ UNCHANGED schid
        /\ pc = "find" \/ (m = d.model /\ PossiblyBootable(d))

LEMMA Looking ==
  ASSUME Examine \/ ExamineFails
  PROVE  /\ \E d \in Devices : Looked(d, d.model) \/ Looked(d, "other")
         /\ UNCHANGED <<iplb, retries, via, guessedFor>>
  <1>1. CASE Examine
    <2>1. PICK d \in Devices, wanted \in BOOLEAN :
            IF d.cu = "invalid"
            THEN Advance /\ dev' = d /\ UNCHANGED <<pc, cutype, vdev>>
            ELSE /\ dev' = d
                 /\ Sense(d)
                 /\ IF (pc = "find" /\ wanted) \/ (pc = "probe" /\ PossiblyBootable(d))
                    THEN pc' = "ipl" /\ UNCHANGED schid
                    ELSE Advance /\ UNCHANGED pc
      BY <1>1, Zenon DEF Examine
    <2>2. Looked(d, d.model)
      BY <1>1, <2>1 DEF Looked, Examine, Sense
    <2> QED BY <1>1, <2>2 DEF Examine
  <1>2. CASE ExamineFails
    <2>1. PICK d \in {e \in Devices : e.cu = "virtio"}, wanted \in BOOLEAN :
            /\ dev' = d
            /\ cutype' = d.cu
            /\ vdev' = [vdev EXCEPT !.schid = schid, !.model = "other"]
            /\ IF pc = "find" /\ wanted THEN pc' = "ipl" /\ UNCHANGED schid
                                        ELSE Advance /\ UNCHANGED pc
      BY <1>2, Zenon DEF ExamineFails
    <2>2. Looked(d, "other") /\ d \in Devices
      BY <1>2, <2>1 DEF Looked, ExamineFails
    <2> QED BY <1>2, <2>2 DEF ExamineFails
  <1> QED BY <1>1, <1>2

LEMMA ExamineStep ==
  ASSUME IInv, Examine \/ ExamineFails
  PROVE  IInv'
  <1>1. TypeOK /\ Place /\ Described /\ Known /\ Guessed
    BY DEF IInv
  <1>2. UNCHANGED <<iplb, retries, via, guessedFor>>
    BY Looking
  <1>3. PICK d \in Devices : Looked(d, d.model) \/ Looked(d, "other")
    BY Looking
  <1>4. PICK m : Looked(d, m) /\ m \in {d.model, "other"}
    BY <1>3
  <1>5. Sound(d) /\ m \in Models
    BY <1>4, DeviceFields DEF Models, Sound
  <1>6. /\ vdev' \in VDevs
        /\ vdev'.nature = vdev.nature /\ vdev'.factor = vdev.factor
        /\ vdev'.isCdrom = vdev.isCdrom
        /\ d.cu # "invalid" => vdev'.schid = schid /\ vdev'.model = m
    <2>1. vdev \in VDevs /\ schid \in SchIds
      BY <1>1 DEF TypeOK
    <2>2. CASE d.cu = "invalid" /\ UNCHANGED <<cutype, vdev>>
      BY <2>1, <2>2
    <2>3. CASE vdev' = [vdev EXCEPT !.schid = schid, !.model = m]
      BY <2>1, <2>3, <1>5, Sensing
    <2> QED BY <1>4, <2>2, <2>3 DEF Looked
  <1>7. schid' \in SchIds /\ pc \in {"find", "probe"} /\ pc' \in {pc, "ipl"}
        /\ (pc' = "ipl" => schid' = schid /\ schid.sch < MaxSch)
    BY <1>1, <1>4, BootAssumption DEF TypeOK, Looked, Advance, SchIds
  <1>8. cutype' \in {"none", "dasd", "virtio", "unknown"}
        /\ (pc' = "ipl" => cutype' = d.cu /\ d.cu # "invalid")
    BY <1>1, <1>4, <1>5 DEF TypeOK, Looked, Sound
  <1>9. TypeOK'
    BY <1>1, <1>2, <1>4, <1>6, <1>7, <1>8 DEF TypeOK, PCs, Looked
  <1>10. Place'
    <2>1. pc' = "ipl" /\ cutype' = "virtio" /\ vdev'.model = "net" => iplb' # "none"
      BY <1>1, <1>2, <1>4, <1>6, <1>8 DEF Looked, Place, PossiblyBootable, Supported
    <2> QED BY <1>1, <1>2, <1>7, <2>1 DEF Place, Searched
  <1>11. Described'
    BY <1>4, <1>6, <1>7, <1>8 DEF Described, DeviceSensed, InUse, SettingUp, Reading, Looked
  <1>12. Known' /\ Guessed'
    BY <1>1, <1>2, <1>6, <1>7 DEF Known, Guessed, Place, InUse, SettingUp, Reading
  <1> QED BY <1>9, <1>10, <1>11, <1>12 DEF IInv

(* Steps that leave vdev and what it describes as they are.                *)
LEMMA PlainStep ==
  ASSUME IInv, NoMore \/ Locate \/ Ready \/ Attention \/ NextDevice \/ Fails
  PROVE  IInv'
  <1>1. TypeOK /\ Place /\ Described /\ Known /\ Guessed
    BY DEF IInv
  <1>2. UNCHANGED <<iplb, cutype, vdev, dev, via, guessedFor>>
    BY DEF NoMore, Locate, Ready, Attention, NextDevice, Fails
  <1>3. /\ \/ pc' = pc \/ pc' = "panic"
           \/ pc = "locate" /\ pc' \in {"ready", "next"}
           \/ pc = "ready" /\ pc' = "inquire"
           \/ pc = "next" /\ pc' = "probe"
        /\ pc \in {"find", "probe", "ipl", "locate", "ready", "inquire", "next"}
        /\ pc' \in Searched => schid' = schid /\ pc \in Searched
    BY DEF NoMore, Locate, Ready, Attention, NextDevice, Fails, Panic, Searched
  <1>4. schid' \in SchIds /\ retries' \in 0 .. 3
    BY <1>1, BootAssumption DEF NoMore, Locate, Ready, Attention, NextDevice, Fails,
       TypeOK, SchIds, Advance, Place, Searched
  <1>5. TypeOK'
    BY <1>1, <1>2, <1>3, <1>4 DEF TypeOK, PCs
  <1>6. Place'
    BY <1>1, <1>2, <1>3 DEF Place, Searched
  <1>7. Described' /\ Known' /\ Guessed'
    BY <1>1, <1>2, <1>3 DEF Described, DeviceSensed, Known, Guessed, Place, InUse,
       SettingUp, Reading, Searched
  <1> QED BY <1>5, <1>6, <1>7 DEF IInv

LEMMA BootSetupStep ==
  ASSUME IInv, BootSetup
  PROVE  IInv'
  <1>1. TypeOK /\ Place /\ Described /\ Known /\ Guessed
    BY DEF IInv
  <1>2. PICK t \in {"none", "ccw", "scsi", "other"}, n \in 0 .. 3 :
          /\ iplb' = t
          /\ schid' = IF t \in {"ccw", "scsi"} THEN [schid EXCEPT !.ssid = n] ELSE schid
          /\ vdev' = [vdev EXCEPT !.selected = t = "scsi"]
          /\ pc' = CASE t = "none" -> "probe" [] t = "other" -> "panic" [] OTHER -> "find"
    BY Zenon DEF BootSetup
  <1>3. pc' \in {"probe", "panic", "find"} /\ (pc' = "find" => iplb' # "none")
    BY <1>2
  <1>4. schid' \in SchIds
    BY <1>1, <1>2 DEF TypeOK, SchIds
  <1>5. /\ vdev' \in VDevs /\ vdev'.nature = vdev.nature /\ vdev'.factor = vdev.factor
        /\ vdev'.isCdrom = vdev.isCdrom /\ vdev'.netboot = vdev.netboot
        /\ vdev'.model = vdev.model
    BY <1>1, <1>2 DEF TypeOK, VDevs
  <1>6. pc = "start" /\ UNCHANGED <<cutype, dev, retries, via, guessedFor>>
    BY DEF BootSetup
  <1>7. TypeOK'
    BY <1>1, <1>2, <1>3, <1>4, <1>5, <1>6 DEF TypeOK, PCs
  <1>8. Place' /\ Described' /\ Known' /\ Guessed'
    BY <1>1, <1>3, <1>5, <1>6 DEF Place, Described, DeviceSensed, Known, Guessed, InUse,
       SettingUp, Reading, Searched
  <1> QED BY <1>7, <1>8 DEF IInv

(* The set-up reads the configuration anew, whatever was there.            *)
LEMMA SetUp ==
  ASSUME IInv
  PROVE  LET v == virtio_setup_ccw([vdev EXCEPT !.schid = schid, !.model = dev.model])
             b == [v EXCEPT !.geometry = <<0, 0, 0, 0>>]
         IN /\ v \in VDevs /\ v.schid = schid /\ v.model = dev.model /\ v.nature = "none"
            /\ v.factor = vdev.factor /\ v.isCdrom = vdev.isCdrom
            /\ b \in VDevs /\ Same(v, b)
  <1>1. vdev \in VDevs /\ schid \in SchIds /\ Sound(dev)
    BY DeviceFields DEF IInv, TypeOK
  <1> DEFINE u == [vdev EXCEPT !.schid = schid, !.model = dev.model]
             g == IF u.model = "block" THEN dev.geometry ELSE <<0, 0, 0, 0>>
             z == <<0, 0, 0, 0>>
  <1>2. z \in Geometry
    BY DEF Geometry
  <1>3. /\ u \in VDevs /\ u.schid = schid /\ u.model = dev.model
        /\ u.factor = vdev.factor /\ u.isCdrom = vdev.isCdrom
    <2>1. dev.model \in Models
      BY <1>1 DEF Sound
    <2> QED BY <1>1, <2>1, Sensing
  <1>4. g \in Geometry
    BY <1>1, <1>2 DEF Sound
  <1>5. virtio_setup_ccw(u) = [u EXCEPT !.nature = "none", !.geometry = g]
    BY DEF virtio_setup_ccw
  <1> HIDE DEF u, g, z
  <1>6. LET v == [u EXCEPT !.nature = "none", !.geometry = g]
        IN /\ v \in VDevs /\ v.schid = u.schid /\ v.model = u.model /\ v.nature = "none"
           /\ v.factor = u.factor /\ v.isCdrom = u.isCdrom
    BY <1>3, <1>4 DEF VDevs, Natures, Geometry
  <1>7. ASSUME NEW v \in VDevs
        PROVE  [v EXCEPT !.geometry = z] \in VDevs /\ Same(v, [v EXCEPT !.geometry = z])
    BY <1>2 DEF VDevs, Geometry, Same
  <1> QED BY <1>3, <1>5, <1>6, <1>7 DEF u, z

LEMMA SetupDiskStep ==
  ASSUME IInv, IplBootDevice, cutype = "virtio", SetupDisk
  PROVE  IInv'
  <1>1. TypeOK /\ Place /\ Described /\ Known /\ Guessed /\ pc = "ipl"
    BY DEF IInv, IplBootDevice
  <1>2. UNCHANGED <<iplb, schid, cutype, dev, retries>> /\ via' = via
    BY DEF IplBootDevice, SetupDisk
  <1>3. vdev.factor = 1 /\ ~ vdev.isCdrom
    BY <1>1 DEF Guessed, Known
  <1>4. schid.sch < MaxSch /\ cutype = dev.cu /\ via = "none"
    BY <1>1 DEF Place, Searched, Described, DeviceSensed, TypeOK
  <1> DEFINE v == virtio_setup_ccw([vdev EXCEPT !.schid = schid, !.model = dev.model])
             b == [v EXCEPT !.geometry = <<0, 0, 0, 0>>]
  <1>5. /\ v \in VDevs /\ v.schid = schid /\ v.model = dev.model /\ v.nature = "none"
        /\ v.factor = 1 /\ ~ v.isCdrom
        /\ b \in VDevs /\ Same(v, b)
    BY <1>3, SetUp
  <1>6. \/ /\ dev.model = "block"
           /\ vdev' = IF virtio_ipl_disk_is_valid(v) THEN v ELSE virtio_assume_scsi(b)
           /\ guessedFor' = IF vdev'.nature # "none" THEN schid ELSE guessedFor
           /\ pc' = "load"
        \/ /\ dev.model = "scsi"
           /\ vdev' = v
           /\ pc' = "locate" /\ guessedFor' = guessedFor
        \/ /\ pc' = "panic" /\ UNCHANGED <<vdev, guessedFor>>
    BY Zenon DEF SetupDisk, Panic
  <1> HIDE DEF v, b
  <1>7. CASE /\ dev.model = "block"
             /\ vdev' = IF virtio_ipl_disk_is_valid(v) THEN v ELSE virtio_assume_scsi(b)
             /\ guessedFor' = IF vdev'.nature # "none" THEN schid ELSE guessedFor
             /\ pc' = "load"
    <2>1. /\ vdev' \in VDevs /\ Same(v, vdev') /\ vdev'.factor = 1
          /\ vdev'.nature # "none" =>
               /\ vdev'.nature = "scsi"
               /\ vdev'.geometry[3] = 512 /\ vdev'.geometry[4] = 0
      <3>1. CASE virtio_ipl_disk_is_valid(v)
        BY <1>5, <1>7, <3>1 DEF Same
      <3>2. CASE ~ virtio_ipl_disk_is_valid(v)
        <4>1. b.model = "block"
          BY <1>5, <1>7 DEF Same
        <4>2. LET w == virtio_assume_scsi(b)
              IN /\ w \in VDevs /\ Same(b, w) /\ w.nature = "scsi" /\ w.factor = 1
                 /\ w.geometry[3] = 512 /\ w.geometry[4] = 0
          BY <1>5, <4>1, Assumed
        <4> QED BY <1>5, <1>7, <3>2, <4>2 DEF Same
      <3> QED BY <3>1, <3>2
    <2>2. vdev'.schid = schid /\ vdev'.model = "block" /\ ~ vdev'.isCdrom
      BY <1>5, <1>7, <2>1 DEF Same
    <2>3. guessedFor' \in SchIds /\ (vdev'.nature # "none" => guessedFor' = schid)
      BY <1>1, <1>7 DEF TypeOK
    <2>4. TypeOK'
      BY <1>1, <1>2, <1>7, <2>1, <2>3 DEF TypeOK, PCs
    <2> QED BY <1>1, <1>2, <1>4, <1>7, <2>1, <2>2, <2>3, <2>4 DEF IInv, Place, Described,
            DeviceSensed, Known, Guessed, InUse, SettingUp, Reading, Searched
  <1>8. CASE dev.model = "scsi" /\ vdev' = v /\ pc' = "locate" /\ guessedFor' = guessedFor
    <2>1. TypeOK'
      BY <1>1, <1>2, <1>5, <1>8 DEF TypeOK, PCs
    <2> QED BY <1>1, <1>2, <1>4, <1>5, <1>8, <2>1 DEF IInv, Place, Described,
            DeviceSensed, Known, Guessed, InUse, SettingUp, Reading, Searched
  <1>9. CASE pc' = "panic" /\ UNCHANGED <<vdev, guessedFor>>
    <2>1. TypeOK'
      BY <1>1, <1>2, <1>9 DEF TypeOK, PCs
    <2> QED BY <1>1, <1>2, <1>3, <1>4, <1>9, <2>1 DEF IInv, Place, Described,
            DeviceSensed, Known, Guessed, InUse, SettingUp, Reading, Searched
  <1> QED BY <1>6, <1>7, <1>8, <1>9

LEMMA IplBootDeviceStep ==
  ASSUME IInv, IplBootDevice
  PROVE  IInv'
  <1>1. TypeOK /\ Place /\ Described /\ Known /\ Guessed /\ pc = "ipl"
    BY DEF IInv, IplBootDevice
  <1>2. UNCHANGED <<iplb, schid, cutype, dev, retries>>
    BY DEF IplBootDevice
  <1>3. schid.sch < MaxSch /\ vdev.schid = schid /\ cutype = dev.cu /\ via = "none"
    BY <1>1 DEF Place, Searched, Described, DeviceSensed, TypeOK
  <1>4. CASE cutype \in {"dasd", "unknown"}
    <2>1. /\ \/ cutype = "dasd" /\ pc' = "booted" /\ via' = "dasd"
             \/ pc' = "panic" /\ via' = via
          /\ UNCHANGED <<vdev, guessedFor>>
      BY <1>4 DEF IplBootDevice, Boot, Panic
    <2>2. TypeOK'
      BY <1>1, <1>2, <2>1 DEF TypeOK, PCs
    <2>3. cutype = "dasd" => vdev.model = dev.model
      <3>1. Sound(dev)
        BY <1>1, DeviceFields DEF TypeOK
      <3> QED BY <1>1, <1>3, <3>1 DEF Described, Sound
    <2>4. vdev.factor = 1 /\ ~ vdev.isCdrom
      BY <1>1 DEF Guessed, Known
    <2> QED BY <1>1, <1>2, <1>3, <2>1, <2>2, <2>3, <2>4 DEF IInv, Place, Described,
            DeviceSensed, Known, Guessed, InUse, SettingUp, Reading, Searched
  <1>5. CASE cutype = "virtio" /\ vdev.model = "net"
    <2>1. CASE SetupDisk
      BY <1>5, <2>1, SetupDiskStep
    <2>2. CASE ~ SetupDisk
      <3>1. /\ vdev' = [vdev EXCEPT !.netboot = iplb # "none"]
            /\ pc' = "load" /\ UNCHANGED <<via, guessedFor>>
        BY <1>5, <2>2 DEF IplBootDevice
      <3>2. iplb # "none" /\ dev.model = "net"
        BY <1>1, <1>5 DEF Place, Described
      <3>3. /\ vdev' \in VDevs /\ vdev'.schid = schid /\ vdev'.model = "net"
            /\ vdev'.netboot = TRUE
            /\ vdev'.isCdrom = vdev.isCdrom /\ vdev'.factor = vdev.factor
        BY <1>1, <1>3, <1>5, <3>1, <3>2 DEF TypeOK, VDevs
      <3>4. TypeOK'
        BY <1>1, <1>2, <3>1, <3>3 DEF TypeOK, PCs
      <3> QED BY <1>1, <1>2, <1>3, <1>5, <3>1, <3>2, <3>3, <3>4 DEF IInv, Place, Described,
              DeviceSensed, Known, Guessed, InUse, SettingUp, Reading, Searched
    <2> QED BY <2>1, <2>2
  <1>6. CASE cutype = "virtio" /\ vdev.model # "net"
    <2>1. SetupDisk
      BY <1>6 DEF IplBootDevice
    <2> QED BY <1>6, <2>1, SetupDiskStep
  <1>7. cutype \in {"dasd", "unknown", "virtio"}
    BY DEF IplBootDevice
  <1> QED BY <1>4, <1>5, <1>6, <1>7

LEMMA InquireStep ==
  ASSUME IInv, Inquire
  PROVE  IInv'
  <1>1. TypeOK /\ Place /\ Described /\ Known /\ Guessed /\ pc = "inquire" /\ pc' = "load"
    BY DEF IInv, Inquire
  <1>2. UNCHANGED <<iplb, schid, cutype, dev, retries, via, guessedFor>>
    BY DEF Inquire
  <1>3. vdev' = [vdev EXCEPT !.isCdrom = @ \/ dev.cdrom, !.maxTransfer = Limit(vdev),
                             !.scsiBlockSize = dev.blocklen]
    BY DEF Inquire
  <1>4. Sound(dev)
    BY <1>1, DeviceFields DEF TypeOK
  <1>5. /\ Limit(vdev) \in 1 .. MAX_SECTORS
        /\ dev.page => Limit(vdev) = MinNonZero(MAX_SECTORS, dev.limit)
    BY <1>1, LimitBounds DEF TypeOK
  <1>6. ~ vdev.isCdrom
    BY <1>1 DEF Known
  <1>7. /\ vdev' \in VDevs /\ vdev'.schid = vdev.schid /\ vdev'.model = vdev.model
        /\ vdev'.nature = vdev.nature /\ vdev'.factor = vdev.factor
        /\ vdev'.maxTransfer = Limit(vdev) /\ vdev'.scsiBlockSize = dev.blocklen
        /\ vdev'.netboot = vdev.netboot
    <2>1. Limit(vdev) \in 0 .. MAX_SECTORS /\ dev.blocklen \in Nat /\ dev.cdrom \in BOOLEAN
      BY <1>4, <1>5, BootAssumption DEF Sound
    <2> QED BY <1>1, <1>3, <2>1 DEF TypeOK, VDevs
  <1>8. vdev'.isCdrom => dev.cdrom
    BY <1>1, <1>3, <1>6 DEF TypeOK, VDevs
  <1>9. vdev.model = "scsi" /\ dev.model = "scsi"
    BY <1>1, <1>4 DEF Described, SettingUp, DeviceSensed, Sound
  <1>10. TypeOK'
    BY <1>1, <1>2, <1>7 DEF TypeOK, PCs
  <1>11. Known'
    BY <1>1, <1>2, <1>5, <1>7, <1>8, <1>9 DEF Known, Place
  <1>12. Place' /\ Described' /\ Guessed'
    BY <1>1, <1>2, <1>7, <1>9 DEF Place, Described, DeviceSensed, Guessed, InUse,
       SettingUp, Reading, Searched
  <1> QED BY <1>10, <1>11, <1>12 DEF IInv

(* The schemes that end in a program or in a panic, and what leaves vdev.  *)
LEMMA SchemeStep ==
  ASSUME IInv, Load \/ IplCdrom \/ IplEckd
  PROVE  IInv'
  <1>1. TypeOK /\ Place /\ Described /\ Known /\ Guessed
    BY DEF IInv
  <1>2. UNCHANGED <<iplb, schid, cutype, vdev, dev, retries, guessedFor>>
    BY DEF Load, IplCdrom, IplEckd
  <1>3. \/ pc = "load" /\ vdev.isCdrom /\ pc' = "cdrom" /\ via' = via
        \/ /\ pc = "load" /\ ~ vdev.isCdrom /\ vdev.model = "net"
           /\ pc' = "booted" /\ via' = "net"
        \/ pc = "load" /\ ~ vdev.isCdrom /\ vdev.model # "net" /\ pc' = "scsi" /\ via' = via
        \/ pc = "cdrom" /\ pc' = "booted" /\ via' = "iso"
        \/ pc = "eckd" /\ pc' = "booted" /\ via' = "eckd"
        \/ pc \in {"cdrom", "eckd"} /\ pc' = "panic" /\ via' = via
        \/ pc = "eckd" /\ pc' = "next" /\ via' = via
    BY DEF Load, IplCdrom, IplEckd, Boot, Panic
  <1>4. TypeOK'
    BY <1>1, <1>2, <1>3 DEF TypeOK, PCs
  <1>5. Place'
    BY <1>1, <1>2, <1>3 DEF Place, Searched
  <1>6. Described'
    <2>1. vdev.isCdrom => dev.model = "scsi"
      <3>1. Sound(dev)
        BY <1>1, DeviceFields DEF TypeOK
      <3> QED BY <1>1, <3>1 DEF Known, Sound
    <2> QED BY <1>1, <1>2, <1>3, <2>1 DEF Described, DeviceSensed, InUse, SettingUp, Reading
  <1>7. Known'
    BY <1>1, <1>2, <1>3 DEF Known, Reading, Place
  <1>8. Guessed'
    <2>1. vdev.isCdrom /\ pc = "load" => vdev.model = "scsi"
      <3>1. Sound(dev)
        BY <1>1, DeviceFields DEF TypeOK
      <3> QED BY <1>1, <3>1 DEF Known, Sound, Described, DeviceSensed
    <2> QED BY <1>1, <1>2, <1>3, <2>1 DEF Guessed, InUse, SettingUp, Reading
  <1> QED BY <1>4, <1>5, <1>6, <1>7, <1>8 DEF IInv

(* ipl_scsi and ipl_iso_el_torito, and the guess for what comes next.      *)
LEMMA GuessStep ==
  ASSUME IInv, IplScsi \/ IplIso
  PROVE  IInv'
  <1>1. TypeOK /\ Place /\ Described /\ Known /\ Guessed /\ pc \in {"scsi", "iso"}
    BY DEF IInv, IplScsi, IplIso
  <1>2. UNCHANGED <<iplb, schid, cutype, dev, retries>>
    BY DEF IplScsi, IplIso
  <1>3. vdev \in VDevs /\ vdev.model \in {"block", "scsi"} /\ via = "none" /\ ~ vdev.isCdrom
    BY <1>1 DEF TypeOK, Described, DeviceSensed, Reading, Place, Known
  <1>4. \/ pc' \in {"booted", "panic"} /\ via' \in {via, "zipl", "iso"}
           /\ (via' # "none" => pc' = "booted") /\ UNCHANGED <<vdev, guessedFor>>
        \/ /\ pc = "scsi" /\ pc' = "iso" /\ UNCHANGED <<via, guessedFor>>
           /\ vdev.model = "block"
           /\ vdev' = IF vdev.nature # "none" THEN virtio_assume_iso9660(vdev) ELSE vdev
        \/ /\ pc = "scsi" /\ pc' = "iso" /\ UNCHANGED <<vdev, via, guessedFor>>
           /\ vdev.model = "scsi"
        \/ /\ pc' = "eckd" /\ via' = via
           /\ pc = "iso" \/ vdev.model = "scsi"
           /\ \/ vdev' = virtio_assume_eckd(vdev) /\ guessedFor' = schid
              \/ /\ vdev.nature = "none" /\ vdev.model # "scsi"
                 /\ UNCHANGED <<vdev, guessedFor>>
    BY <1>3 DEF IplScsi, IplIso, Boot, Panic
  <1>5. CASE pc' \in {"booted", "panic"} /\ via' \in {via, "zipl", "iso"}
              /\ (via' # "none" => pc' = "booted") /\ UNCHANGED <<vdev, guessedFor>>
    <2>1. TypeOK'
      BY <1>1, <1>2, <1>5 DEF TypeOK, PCs
    <2> QED BY <1>1, <1>2, <1>3, <1>5, <2>1 DEF IInv, Place, Described, DeviceSensed,
            Known, Guessed, InUse, SettingUp, Reading, Searched
  <1>6. CASE /\ pc = "scsi" /\ pc' = "iso" /\ UNCHANGED <<via, guessedFor>>
             /\ vdev.model = "block"
             /\ vdev' = IF vdev.nature # "none" THEN virtio_assume_iso9660(vdev) ELSE vdev
    <2>1. LET w == virtio_assume_iso9660(vdev)
          IN /\ w \in VDevs /\ Same(vdev, w) /\ w.nature = "scsi" /\ w.factor = 4
             /\ w.geometry[3] = 2048 /\ w.geometry[4] = 0
      BY <1>3, <1>6, Assumed
    <2>2. /\ vdev' \in VDevs /\ Same(vdev, vdev')
          /\ IF vdev.nature = "none" THEN vdev' = vdev
             ELSE /\ vdev'.nature = "scsi" /\ vdev'.factor = 4
                  /\ vdev'.geometry[3] = 2048 /\ vdev'.geometry[4] = 0
      BY <1>3, <1>6, <2>1 DEF Same
    <2>3. TypeOK'
      BY <1>1, <1>2, <1>6, <2>2 DEF TypeOK, PCs
    <2>4. Place' /\ Described' /\ Known'
      BY <1>1, <1>2, <1>3, <1>6, <2>2 DEF Place, Described, DeviceSensed,
         Known, InUse, SettingUp, Reading, Searched, Same
    <2>5. Guessed'
      BY <1>1, <1>2, <1>3, <1>6, <2>2 DEF Guessed, InUse, SettingUp, Reading, Same
    <2> QED BY <2>3, <2>4, <2>5 DEF IInv
  <1>7. CASE /\ pc = "scsi" /\ pc' = "iso" /\ UNCHANGED <<vdev, via, guessedFor>>
             /\ vdev.model = "scsi"
    <2>1. TypeOK'
      BY <1>1, <1>2, <1>7 DEF TypeOK, PCs
    <2> QED BY <1>1, <1>2, <1>3, <1>7, <2>1 DEF IInv, Place, Described, DeviceSensed,
            Known, Guessed, InUse, SettingUp, Reading, Searched
  <1>8. CASE /\ pc' = "eckd" /\ via' = via
             /\ pc = "iso" \/ vdev.model = "scsi"
             /\ \/ vdev' = virtio_assume_eckd(vdev) /\ guessedFor' = schid
                \/ /\ vdev.nature = "none" /\ vdev.model # "scsi"
                   /\ UNCHANGED <<vdev, guessedFor>>
    <2>1. CASE vdev' = virtio_assume_eckd(vdev) /\ guessedFor' = schid
      <3>1. /\ vdev' \in VDevs /\ Same(vdev, vdev') /\ vdev'.nature = "dasd"
            /\ vdev'.factor = 1
            /\ vdev'.geometry =
                 EckdGeometry(IF vdev.model = "block" THEN 4096 ELSE vdev.scsiBlockSize)
        BY <1>3, <2>1, AssumedEckd
      <3>2. TypeOK'
        BY <1>1, <1>2, <1>8, <2>1, <3>1 DEF TypeOK, PCs
      <3>3. Place' /\ Described' /\ Known'
        BY <1>1, <1>2, <1>3, <1>8, <3>1 DEF Place, Described, DeviceSensed,
           Known, InUse, SettingUp, Reading, Searched, Same
      <3>4. Guessed'
        BY <1>1, <1>2, <1>3, <1>8, <2>1, <3>1 DEF Guessed, InUse, SettingUp, Reading, Same
      <3> QED BY <3>2, <3>3, <3>4 DEF IInv
    <2>2. CASE vdev.nature = "none" /\ vdev.model # "scsi" /\ UNCHANGED <<vdev, guessedFor>>
      <3>1. TypeOK'
        BY <1>1, <1>2, <1>8, <2>2 DEF TypeOK, PCs
      <3> QED BY <1>1, <1>2, <1>3, <1>8, <2>2, <3>1 DEF IInv, Place, Described,
              DeviceSensed, Known, Guessed, InUse, SettingUp, Reading, Searched
    <2> QED BY <1>8, <2>1, <2>2
  <1> QED BY <1>4, <1>5, <1>6, <1>7, <1>8

LEMMA Invariance == Spec => []IInv
  <1>1. ASSUME IInv, [Next]_vars PROVE IInv'
    <2>1. CASE UNCHANGED vars
      BY <1>1, <2>1 DEF vars, IInv, TypeOK, Place, Described, DeviceSensed, Known, Guessed,
         InUse, SettingUp, Reading
    <2> QED BY <1>1, <2>1, BootSetupStep, ExamineStep, PlainStep, IplBootDeviceStep,
            InquireStep, SchemeStep, GuessStep DEF Next
  <1> QED BY InitIInv, <1>1, PTL DEF Spec

(* Every field of vdev, the subchannel and the retries stay what they may  *)
(* be; no more than three sets of subchannels are searched on a probe.     *)
THEOREM TypeCorrect == Spec => []TypeOK
  BY Invariance, PTL DEF IInv

(* vdev serves one device after the other (virtio.c:22); what is set up,   *)
(* read and booted is the device at the subchannel that is reported, and   *)
(* nothing about it is left from another one; only the transfers to a SCSI *)
(* device that reports no limit may be as short as an earlier one asked    *)
(* for (virtio-scsi.c:397-423).                                            *)
THEOREM VdevIsFresh == Spec => []OnlyLimitInherited
  <1>1. IInv => OnlyLimitInherited
    <2> SUFFICES ASSUME IInv PROVE OnlyLimitInherited
      OBVIOUS
    <2>1. TypeOK /\ Place /\ Described /\ Known /\ Guessed
      BY DEF IInv
    <2>2. GuessIsForThis
      BY <2>1 DEF GuessIsForThis, Guessed, Described, DeviceSensed, InUse, Reading
    <2>3. DeviceSensed /\ CdromIsThis /\ NetBootHasLoader
      BY <2>1 DEF Described, CdromIsThis, NetBootHasLoader, Known
    <2>4. TransferFits
      BY <2>1 DEF TransferFits, Known
    <2> QED BY <2>2, <2>3, <2>4 DEF OnlyLimitInherited
  <1> QED BY Invariance, <1>1, PTL

(* A guess is whole: the block size, the factor and the geometry that      *)
(* virtio_assume_* leave behind belong together when a scheme reads.       *)
THEOREM GuessWhole == Spec => []GuessIsWhole
  <1>1. IInv => GuessIsWhole
    <2> SUFFICES ASSUME IInv, Reading PROVE GuessIsWhole
      BY DEF GuessIsWhole
    <2>1. TypeOK /\ Place /\ Described /\ Known /\ Guessed
      BY DEF IInv
    <2>2. vdev.model \in {"block", "scsi"}
      BY <2>1 DEF Described, DeviceSensed
    <2>3. pc = "cdrom" => vdev.model = "scsi"
      <3>1. Sound(dev)
        BY <2>1, DeviceFields DEF TypeOK
      <3> QED BY <2>1, <3>1 DEF Known, Sound, Described, DeviceSensed, Reading
    <2>4. vdev.model = "block" /\ vdev.geometry[4] = 0 /\ vdev.geometry[3] \in Nat =>
            virtio_get_block_size(vdev) = vdev.geometry[3]
      BY BlockSizeKept DEF virtio_get_block_size
    <2>5. vdev.model = "block" /\ vdev.nature = "scsi" =>
            virtio_get_block_size(vdev) = 512 * vdev.factor
      BY <2>1, <2>4, <2>3 DEF Guessed, Reading
    <2>6. vdev.nature # "none" /\ pc = "iso" /\ vdev.model = "block" =>
            virtio_get_block_size(vdev) = 2048
      BY <2>1, <2>4 DEF Guessed
    <2>7. vdev.nature = "dasd" =>
            /\ virtio_get_block_size(vdev) =
                 IF vdev.model = "block" THEN 4096 ELSE dev.blocklen
            /\ heads(vdev) = 15
            /\ sectors(vdev) =
                 virtio_eckd_sectors_for_block_size(virtio_get_block_size(vdev))
      <3> SUFFICES ASSUME vdev.nature = "dasd"
                   PROVE  /\ virtio_get_block_size(vdev) =
                               IF vdev.model = "block" THEN 4096 ELSE dev.blocklen
                          /\ heads(vdev) = 15
                          /\ sectors(vdev) = virtio_eckd_sectors_for_block_size(
                                               virtio_get_block_size(vdev))
        OBVIOUS
      <3> DEFINE size == IF vdev.model = "block" THEN 4096 ELSE vdev.scsiBlockSize
      <3>1. vdev.geometry = EckdGeometry(size)
        BY <2>1, <2>2, <2>3 DEF Guessed, Reading
      <3>2. /\ size = IF vdev.model = "block" THEN 4096 ELSE dev.blocklen
            /\ size \in Nat
        BY <2>1, <2>2 DEF Known, TypeOK, VDevs
      <3>3. virtio_get_block_size(vdev) = size
        <4>1. CASE vdev.model = "scsi"
          BY <4>1 DEF virtio_get_block_size
        <4>2. CASE vdev.model = "block"
          <5>1. vdev.geometry[3] = size /\ vdev.geometry[4] = 0
            BY <3>1 DEF EckdGeometry
          <5> QED BY <2>4, <3>2, <4>2, <5>1
        <4> QED BY <2>2, <4>1, <4>2
      <3> HIDE DEF size
      <3>4. heads(vdev) = 15 /\ sectors(vdev) = virtio_eckd_sectors_for_block_size(size)
        BY <3>1 DEF heads, sectors, EckdGeometry
      <3> QED BY <3>2, <3>3, <3>4
    <2>8. vdev.model = "scsi" => vdev.factor = 1
      BY <2>1 DEF Guessed, Reading
    <2> QED BY <2>5, <2>6, <2>7, <2>8 DEF GuessIsWhole
  <1> QED BY Invariance, <1>1, PTL

-----------------------------------------------------------------------------
(* The boot maps.  Numbers: the walk stays in its arrays, and each buffer  *)
(* holds a block of the disk, or nothing.                                  *)

Numbers ==
  /\ disk \in MapDisks /\ MapTypeOK /\ index \in Nat
  /\ boot = [scheme |-> boot.scheme, menu |-> boot.menu,
             bmt |-> boot.bmt, s1b |-> boot.s1b]
  /\ buf = [sec |-> buf.sec, bprs |-> buf.bprs, tmp |-> buf.tmp]
  /\ list = [blk |-> list.blk, j |-> list.j, address |-> list.address]
  /\ s2 = [prev |-> s2.prev, cur |-> s2.cur, next |-> s2.next]
  /\ BlockSound(buf.sec) /\ BlockSound(buf.bprs) /\ BlockSound(buf.tmp)
  /\ step = "ipl_scsi" => boot.scheme = "scsi" /\ list.j = 0

(* The layout: which scheme the disk is booted by, where its table is, and *)
(* that the script that is run is the one of the entry, although the       *)
(* buffer it is in held other blocks before.                               *)
EckdSteps == {"ipl_eckd", "cdl", "ldl", "unlabeled"}
ScriptSteps == {"stage1b", "stage2", "menu", "table"}
Running == {"script", "read", "walk"}
TheScript == ScriptOf(disk, index)
ScriptHeld == IF boot.scheme = "scsi" THEN buf.tmp ELSE buf.sec

Layout ==
  /\ step # "ipl_scsi" => boot.scheme = SchemeOf(disk)
  /\ step = "enum" => /\ boot.scheme = "scsi" /\ HasTable(disk)
                      /\ buf.sec = Read(disk, TableBlock(disk))
  /\ step \in EckdSteps \cup ScriptSteps => boot.scheme = "eckd"
  /\ step = "cdl" => Read(disk, 0).kind # "bootinfo"
  /\ step \in ScriptSteps => HasTable(disk) /\ boot.bmt = TableBlock(disk)
  /\ step \in Running =>
       HasTable(disk) /\ index < MAX_BOOT_ENTRIES /\ ScriptHeld = TheScript

(* Memory: the first n blocks of a component are in their places; nothing  *)
(* is written that is of no component; what the script has passed is       *)
(* loaded whole, and what it is at up to the slot that is looked at.       *)
InPlace(c, n) ==
  \A i \in 1..n :
    c.address + i - 1 \in 0..MEMORY - 1 => mem[c.address + i - 1] = c.blocks[i]
NothingElse ==
  \A a \in 0..MEMORY - 1 :
    mem[a] # 0 =>
      \E c \in Components(disk, index) : a - c.address + 1 \in DOMAIN c.blocks
Passed ==
  \A i \in 1..pos :
    /\ TheScript.kind = "script" /\ i \in DOMAIN TheScript.entries
    /\ ~ Refused(disk, TheScript.entries[i])
    /\ \A c \in Components(disk, index) :
         Loads(disk, TheScript.entries[i], c) => InPlace(c, Len(c.blocks))

LoadedOf(c) == list.address - c.address
AtList(c) == IsList(disk, list.blk) => Starts(c, list.blk, LoadedOf(c))
AtSlot(c) ==
  IsList(disk, list.blk) =>
    /\ list.blk \in DOMAIN c.before /\ list.j \in DOMAIN c.before[list.blk]
    /\ c.before[list.blk][list.j] = LoadedOf(c)
Loading ==
  LET e == TheScript.entries[pos + 1]
  IN /\ TheScript.kind = "script" /\ pos + 1 \in DOMAIN TheScript.entries
     /\ e.type = "load"
     /\ Refused(disk, e) => list.blk = BlockOf(SchemeOf(disk), e)
     /\ step = "walk" =>
          /\ Readable(disk, list.blk)
          /\ CurrentList = Read(disk, list.blk)
          /\ ~ IsList(disk, list.blk) => list.j = 0
     /\ \A c \in Components(disk, index) : Loads(disk, e, c) =>
          /\ InPlace(c, LoadedOf(c))
          /\ step = "read" => AtList(c)
          /\ step = "walk" => AtSlot(c)

Reached == InReach(disk, index)
Memory ==
  /\ step \in {"ipl_scsi", "enum"} \cup EckdSteps \cup ScriptSteps =>
       pos = 0 /\ \A a \in 0..MEMORY - 1 : mem[a] = 0
  /\ Reached => /\ step \in Running => NothingElse /\ Passed
                /\ step \in {"read", "walk"} => Loading
  /\ LoadedWhole

(* The menu: the scan has passed the blocks of stage 2 in order.           *)
Stage2At(k) == IF k \in DOMAIN disk.stage2 THEN disk.stage2[k] ELSE 0
Scan ==
  /\ step = "stage2" =>
       /\ buf.sec = Read(disk, boot.s1b)
       /\ s2.prev = 0 /\ s2.next = 0 /\ seek.prev = Stage2At(seek.i)
  /\ MenuWhole

-----------------------------------------------------------------------------
(* What the disks and the pointers give.                                   *)

LEMMA ReadIsSound == ASSUME NEW d \in MapDisks, NEW b PROVE BlockSound(Read(d, b))
<1>1. BlocksSound(d)
  BY DiskAssumption
<1>2. BlockSound([kind |-> "data"])
  BY DEF BlockSound
<1>3. QED
  BY <1>1, <1>2 DEF Read, BlocksSound

(* Arithmetic of the numbers that are truncated.                           *)
LEMMA SmallMod == ASSUME NEW w \in Nat \ {0}, NEW n \in 0..w - 1 PROVE n % w = n
OBVIOUS

LEMMA MinusOne == ASSUME NEW w \in Nat \ {0} PROVE (-1) % w = w - 1
OBVIOUS

LEMMA HalfWord ==
  /\ WORD \in Nat \ {0} /\ WORD \div 2 \in Nat
  /\ WORD = WORD \div 2 + WORD \div 2
BY WordAssumption

(* Block 0 can be read, and there is none before it.                       *)
LEMMA EndsOfDisk ==
  ASSUME NEW d \in MapDisks PROVE Readable(d, 0) /\ ~ Readable(d, -1)
<1>1. /\ d.blocks \in Nat \ 0..2
      /\ d.device = "scsi" => d.blocks < WORD
  BY DiskAssumption DEF BlocksSound
<1>2. 0 % WORD = 0 /\ (-1) % WORD = WORD - 1 /\ WORD \in Nat
  <2>1. WORD \in Nat \ {0} /\ 0 \in 0..WORD - 1
    BY HalfWord
  <2>2. QED
    BY <2>1, SmallMod, MinusOne
<1>3. QED
  BY <1>1, <1>2 DEF Readable, Sector

(* Below the largest int, what is loaded is what was asked for.            *)
LEMMA BelowInt ==
  ASSUME NEW d, NEW s, NEW n \in Nat, n < WORD \div 2
  PROVE  LoadBlock(d, s, n) = n
<1>1. n \in 0..WORD - 1 /\ n + WORD \div 2 \in 0..WORD - 1
  BY HalfWord
<1>2. n % WORD = n /\ (n + WORD \div 2) % WORD = n + WORD \div 2
  BY <1>1, HalfWord, SmallMod
<1>3. CInt(n) = n
  BY <1>2, HalfWord DEF CInt
<1>4. QED
  BY <1>2, <1>3 DEF LoadBlock, Sector

(* Unused space does not look like the end of a chain.                     *)
LEMMA FillerIsNoEnd == ASSUME NEW s PROVE BlockOf(s, Filler(s)) # NullBlock(s)
<1>1. CASE s = "scsi"
  BY <1>1 DEF BlockOf, Filler, NullBlock
<1>2. CASE s # "scsi"
  <2> DEFINE chs == [cylinder |-> 43690, head |-> 43690, sector |-> 170]
  <2>1. chs.cylinder = 43690 /\ chs.head = 43690 /\ chs.sector = 170
    OBVIOUS
  <2>2. SECTORS \in Nat /\ HEADS \in Nat
    BY GeometryAssumption
  <2>3. 43690 \div 16 = 2730 /\ 43690 % 16 = 10
    OBVIOUS
  <2>4. eckd_block_num(chs)
          = SECTORS * HEADS * (43690 + 2730 * 65536) + SECTORS * 10 + 170 - 1
    BY <2>1, <2>3 DEF eckd_block_num
  <2>5. SECTORS * HEADS \in Nat
    BY <2>2
  <2>6. \A a, b \in Nat : a * (43690 + 2730 * 65536) + b * 10 + 170 - 1 # -1
    OBVIOUS
  <2>7. eckd_block_num(chs) # -1
    BY <2>2, <2>4, <2>5, <2>6
  <2>8. BlockOf(s, Filler(s)) = eckd_block_num(chs)
    BY <1>2 DEF BlockOf, Filler
  <2>9. QED
    BY <1>2, <2>7, <2>8 DEF NullBlock
<1>3. QED
  BY <1>1, <1>2

(* A block that is no block of pointers is refused at its first slot.      *)
LEMMA NoList ==
  ASSUME NEW d, NEW s \in {"scsi", "eckd"}, NEW c, c.kind # "list"
  PROVE  /\ BlockOf(s, Slot(s, c, 0)) # NullBlock(s)
         /\ ~ ContinuesAt(s, c, 0)
         /\ ~ Loadable(d, s, Slot(s, c, 0))
<1>1. Slot(s, c, 0) = Filler(s)
  BY DEF Slot
<1>2. Filler(s).count = 170 /\ Filler(s).sized = FALSE
  BY DEF Filler
<1>3. MaxBprs[s] \in Nat \ 0..1
  BY GeometryAssumption
<1>4. ~ ContinuesAt(s, c, 0)
  BY <1>1, <1>2, <1>3 DEF ContinuesAt
<1>5. ~ Loadable(d, s, Filler(s))
  BY <1>2 DEF Loadable, SoundPointer
<1>6. QED
  BY <1>1, <1>4, <1>5, FillerIsNoEnd

LEMMA SlotCount ==
  ASSUME NEW c, BlockSound(c), NEW s, NEW j PROVE Slot(s, c, j).count \in Nat
<1>1. Filler(s).count = 170
  BY DEF Filler
<1>2. QED
  BY <1>1 DEF Slot, BlockSound

LEMMA EntryKnown ==
  ASSUME NEW c, BlockSound(c), NEW k \in Nat,
         ScriptEntry(c, k).type \in {"load", "signature"}
  PROVE  /\ c.kind = "script" /\ k + 1 \in DOMAIN c.entries
         /\ ScriptEntry(c, k) = c.entries[k + 1]
         /\ k + 1 \in 1..MAX_COMPONENTS
         /\ ScriptEntry(c, k).type = "load" => ScriptEntry(c, k).address \in Nat
<1>1. [type |-> "other"].type \notin {"load", "signature"}
  OBVIOUS
<1>2. c.kind = "script" /\ k + 1 \in DOMAIN c.entries
  BY <1>1 DEF ScriptEntry
<1>3. QED
  BY <1>2 DEF ScriptEntry, BlockSound
-----------------------------------------------------------------------------
(* Numbers *)

LEMMA InitNumbers == MapInit => Numbers
<1> SUFFICES ASSUME MapInit PROVE Numbers
  OBVIOUS
<1>1. disk \in MapDisks /\ disk.blocks \in Nat \ 0..2
  BY DiskAssumption DEF MapInit, BlocksSound
<1>2. boot.scheme = "scsi" /\ list.j = 0 /\ list.address = 0 /\ seek.i = 0
  BY DEF MapInit
<1>3. MaxBprs["scsi"] \in Nat \ 0..1
  BY GeometryAssumption
<1>4. BlockSound(Blank)
  BY DEF BlockSound, Blank
<1>5. mem \in [0..MEMORY - 1 -> 0..disk.blocks - 1]
  BY <1>1 DEF MapInit
<1>6. MapTypeOK
  BY <1>2, <1>3, <1>5, GeometryAssumption DEF MapInit, MapTypeOK, Steps
<1>7. buf = [sec |-> buf.sec, bprs |-> buf.bprs, tmp |-> buf.tmp]
       /\ buf.sec = Blank /\ buf.bprs = Blank /\ buf.tmp = Blank
  BY DEF MapInit
<1>8. /\ boot = [scheme |-> boot.scheme, menu |-> boot.menu,
                bmt |-> boot.bmt, s1b |-> boot.s1b]
      /\ list = [blk |-> list.blk, j |-> list.j, address |-> list.address]
      /\ s2 = [prev |-> s2.prev, cur |-> s2.cur, next |-> s2.next]
  BY DEF MapInit
<1>9. QED
  BY <1>1, <1>2, <1>4, <1>6, <1>7, <1>8, GeometryAssumption DEF MapInit, Numbers

(* What a step reads is a block of the disk.                               *)
LEMMA BuffersHold ==
  ASSUME Numbers, disk' = disk, NEW b,
         \/ buf' = [buf EXCEPT !.sec = Read(disk, b)]
         \/ buf' = [buf EXCEPT !.bprs = Read(disk, b)]
         \/ buf' = [buf EXCEPT !.tmp = Read(disk, b)]
         \/ buf' = buf
  PROVE  /\ buf' = [sec |-> buf'.sec, bprs |-> buf'.bprs, tmp |-> buf'.tmp]
         /\ BlockSound(buf'.sec) /\ BlockSound(buf'.bprs) /\ BlockSound(buf'.tmp)
<1>1. BlockSound(Read(disk, b))
  BY ReadIsSound DEF Numbers
<1>2. QED
  BY <1>1 DEF Numbers

LEMMA ListBuffered ==
  ASSUME Numbers, NEW c, buf' = [buf EXCEPT ![ListBuffer(boot.scheme)] = c]
  PROVE  /\ boot.scheme = "scsi" => buf' = [buf EXCEPT !.sec = c]
         /\ boot.scheme # "scsi" => buf' = [buf EXCEPT !.bprs = c]
BY DEF ListBuffer

LEMMA HeldScript ==
  ASSUME Numbers
  PROVE  /\ buf[ScriptBuffer(boot.scheme)] = ScriptHeld
         /\ CurrentList = IF boot.scheme = "scsi" THEN buf.sec ELSE buf.bprs
         /\ BlockSound(ScriptHeld) /\ BlockSound(CurrentList)
<1>1. buf[ScriptBuffer(boot.scheme)] = ScriptHeld
  BY DEF ScriptBuffer, ScriptHeld
<1>2. CurrentList = IF boot.scheme = "scsi" THEN buf.sec ELSE buf.bprs
  BY DEF CurrentList, ListBuffer
<1>3. QED
  BY <1>1, <1>2 DEF Numbers, ScriptHeld

(* The steps that only look for the script.                                *)
LEMMA TableEntries ==
  ASSUME NEW d \in MapDisks, HasTable(d)
  PROVE  /\ Read(d, TableBlock(d)).kind = "table"
         /\ DOMAIN Read(d, TableBlock(d)).entries = 0..MAX_BOOT_ENTRIES - 1
BY DiskAssumption DEF BlocksSound

FindingScript ==
  \/ ipl_scsi \/ zipl_run \/ ipl_eckd \/ ipl_eckd_ldl \/ ipl_eckd_cdl
  \/ ReadStage1b \/ ScanStage2 \/ MenuAnswers \/ ReadScript

LEMMA FindingKeepsNumbers == ASSUME Numbers, Layout, FindingScript PROVE Numbers'
<1> USE DEF FindingScript
<1>1. disk' = disk /\ pos' = pos /\ list' = list /\ mem' = mem
  BY DEF ipl_scsi, zipl_run, ipl_eckd, ipl_eckd_ldl, ipl_eckd_cdl, ReadStage1b,
         ScanStage2, MenuAnswers, ReadScript
<1>2. \E b : \/ buf' = [buf EXCEPT !.sec = Read(disk, b)]
             \/ buf' = [buf EXCEPT !.tmp = Read(disk, b)]
             \/ buf' = buf
  BY DEF ipl_scsi, zipl_run, ipl_eckd, ipl_eckd_ldl, ipl_eckd_cdl, ReadStage1b,
         ScanStage2, MenuAnswers, ReadScript
<1>3. step' \in Steps \ {"ipl_scsi", "read", "walk"}
  BY DEF ipl_scsi, zipl_run, ipl_eckd, ipl_eckd_ldl, ipl_eckd_cdl, ReadStage1b,
         ScanStage2, MenuAnswers, ReadScript, Steps
<1>4. /\ boot'.scheme \in {"scsi", "eckd"}
      /\ boot'.scheme = boot.scheme \/ step = "ipl_scsi"
      /\ boot' = [scheme |-> boot'.scheme, menu |-> boot'.menu,
                 bmt |-> boot'.bmt, s1b |-> boot'.s1b]
  BY DEF ipl_scsi, zipl_run, ipl_eckd, ipl_eckd_ldl, ipl_eckd_cdl, ReadStage1b,
         ScanStage2, MenuAnswers, ReadScript, Numbers, MapTypeOK
<1>5. /\ seek'.i \in 0..STAGE2_BLK_CNT_MAX
      /\ s2' = [prev |-> s2'.prev, cur |-> s2'.cur, next |-> s2'.next]
  <2>1. CASE ScanStage2
    <3>1. \/ s2' = s2
          \/ \E x, y, z : s2' = [prev |-> x, cur |-> y, next |-> z]
          \/ \E y : s2' = [s2 EXCEPT !.cur = y]
      BY <2>1 DEF ScanStage2
    <3>2. s2' = [prev |-> s2'.prev, cur |-> s2'.cur, next |-> s2'.next]
      BY <3>1 DEF Numbers
    <3>3. seek'.i \in 0..STAGE2_BLK_CNT_MAX
      BY <2>1, GeometryAssumption DEF ScanStage2, Numbers, MapTypeOK
    <3>4. QED
      BY <3>2, <3>3
  <2>2. CASE ReadStage1b
    <3>1. \/ s2' = s2 /\ seek' = seek
          \/ /\ s2' = [prev |-> 0, cur |-> 0, next |-> 0]
             /\ seek' = [i |-> 0, prev |-> 0]
      BY <2>2 DEF ReadStage1b
    <3>2. QED
      BY <3>1, GeometryAssumption DEF Numbers, MapTypeOK
  <2>3. CASE ~ ScanStage2 /\ ~ ReadStage1b
    <3>1. s2' = s2 /\ seek' = seek
      BY <2>3 DEF ipl_scsi, zipl_run, ipl_eckd, ipl_eckd_ldl, ipl_eckd_cdl,
                  MenuAnswers, ReadScript
    <3>2. QED
      BY <3>1 DEF Numbers, MapTypeOK
  <2>4. QED
    BY <2>1, <2>2, <2>3
<1>6. index' \in Nat
  <2>1. CASE zipl_run
    <3>1. index' = index \/ index' \in DOMAIN buf.sec.entries
      BY <2>1 DEF zipl_run, Entries
    <3>2. DOMAIN buf.sec.entries = 0..MAX_BOOT_ENTRIES - 1
      BY <2>1, TableEntries DEF zipl_run, Layout, Numbers
    <3>3. QED
      BY <3>1, <3>2, GeometryAssumption DEF Numbers
  <2>2. CASE ~ zipl_run
    BY <2>2, GeometryAssumption
       DEF ipl_scsi, ipl_eckd, ipl_eckd_ldl, ipl_eckd_cdl, ReadStage1b,
           ScanStage2, MenuAnswers, ReadScript, Numbers
  <2>3. QED
    BY <2>1, <2>2
<1>7. list'.j \in 0..MaxBprs[boot'.scheme] - 1
  BY <1>1, <1>4, GeometryAssumption DEF Numbers, MapTypeOK
<1>8. MapTypeOK'
  BY <1>1, <1>3, <1>4, <1>5, <1>7 DEF Numbers, MapTypeOK
<1>9. QED
  BY <1>1, <1>2, <1>3, <1>4, <1>5, <1>6, <1>8, BuffersHold DEF Numbers

LEMMA ScriptKeepsNumbers == ASSUME Numbers, ScriptStep PROVE Numbers'
<1> DEFINE e == ScriptEntry(ScriptHeld, pos)
<1>1. /\ step = "script" /\ buf[ScriptBuffer(boot.scheme)] = ScriptHeld
      /\ BlockSound(ScriptHeld)
  BY HeldScript DEF ScriptStep
<1>2. UNCHANGED <<disk, boot, buf, s2, seek, index, mem>>
  BY DEF ScriptStep
<1>3. pos \in Nat /\ pos <= MAX_COMPONENTS
  BY GeometryAssumption DEF Numbers, MapTypeOK
<1>4. e.type \in {"load", "signature"} =>
        pos < MAX_COMPONENTS /\ (e.type = "load" => e.address \in Nat)
  BY <1>1, <1>3, EntryKnown, GeometryAssumption
<1>5. MaxBprs[boot.scheme] \in Nat \ 0..1
  BY GeometryAssumption DEF Numbers, MapTypeOK
<1>6. /\ step' \in Steps /\ step' # "ipl_scsi"
      /\ pos' \in 0..MAX_COMPONENTS
      /\ step' \in {"read", "walk"} => pos' < MAX_COMPONENTS
      /\ list'.j \in 0..MaxBprs[boot.scheme] - 1 /\ list'.address \in Nat
      /\ list' = [blk |-> list'.blk, j |-> list'.j, address |-> list'.address]
  <2>1. /\ list.j \in 0..MaxBprs[boot.scheme] - 1 /\ list.address \in Nat
        /\ list = [blk |-> list.blk, j |-> list.j, address |-> list.address]
    BY DEF Numbers, MapTypeOK
  <2>2. CASE e.type = "load"
    <3>1. /\ list' = [blk |-> BlockOf(boot.scheme, e), j |-> 0,
                     address |-> e.address]
          /\ step' = "read" /\ pos' = pos
      BY <1>1, <2>2 DEF ScriptStep
    <3>2. list'.j = 0 /\ list'.address = e.address
      BY <3>1
    <3>3. list' = [blk |-> list'.blk, j |-> list'.j, address |-> list'.address]
      BY <3>1
    <3>4. QED
      BY <1>3, <1>4, <1>5, <2>2, <3>1, <3>2, <3>3, GeometryAssumption DEF Steps
  <2>3. CASE e.type # "load"
    <3>1. list' = list
      BY <1>1, <2>3 DEF ScriptStep
    <3>2. /\ step' \in {"script", "jump", "panic"}
          /\ pos' = pos \/ (pos' = pos + 1 /\ e.type = "signature")
      BY <1>1, <2>3 DEF ScriptStep
    <3>3. QED
      BY <1>3, <1>4, <2>1, <3>1, <3>2, GeometryAssumption DEF Steps
  <2>4. QED
    BY <2>2, <2>3
<1>7. QED
  BY <1>2, <1>6 DEF Numbers, MapTypeOK

LEMMA PastScriptKeeps ==
  ASSUME Numbers, Memory, RunPastScript PROVE Numbers' /\ Memory'
<1>1. /\ UNCHANGED <<disk, boot, buf, s2, seek, index, pos, list, mem, psw>>
      /\ step' \in {"panic", "wild"}
  BY DEF RunPastScript
<1>2. Numbers'
  BY <1>1 DEF Numbers, MapTypeOK, Steps
<1>3. Memory'
  BY <1>1 DEF Memory, Running, EckdSteps, ScriptSteps, LoadedWhole
<1>4. QED
  BY <1>2, <1>3

LEMMA ReadListKeepsNumbers == ASSUME Numbers, ReadList PROVE Numbers'
<1>1. UNCHANGED <<disk, boot, s2, seek, index, pos, mem>> /\ step = "read"
  BY DEF ReadList
<1>2. MaxBprs[boot.scheme] \in Nat \ 0..1
  BY GeometryAssumption DEF Numbers, MapTypeOK
<1>3. \E b : \/ buf' = [buf EXCEPT !.sec = Read(disk, b)]
             \/ buf' = [buf EXCEPT !.bprs = Read(disk, b)]
             \/ buf' = buf
  BY ListBuffered DEF ReadList
<1>4. /\ step' \in {"walk", "panic"}
      /\ list'.j \in 0..MaxBprs[boot.scheme] - 1 /\ list'.address \in Nat
      /\ list' = [blk |-> list'.blk, j |-> list'.j, address |-> list'.address]
  BY <1>2 DEF ReadList, Numbers, MapTypeOK
<1>5. MapTypeOK'
  BY <1>1, <1>4 DEF Numbers, MapTypeOK, Steps
<1>6. QED
  BY <1>1, <1>3, <1>4, <1>5, BuffersHold DEF Numbers

LEMMA WalkKeepsNumbers == ASSUME Numbers, WalkList PROVE Numbers'
<1> DEFINE s == boot.scheme
           p == Slot(s, CurrentList, list.j)
<1>1. UNCHANGED <<disk, boot, buf, s2, seek, index>> /\ step = "walk"
  BY DEF WalkList
<1>2. MaxBprs[s] \in Nat \ 0..1 /\ disk.blocks \in Nat
  BY GeometryAssumption, DiskAssumption DEF Numbers, MapTypeOK, BlocksSound
<1>3. p.count \in Nat
  BY HeldScript, SlotCount
<1>4. pos \in Nat /\ pos < MAX_COMPONENTS /\ list.address \in Nat
      /\ list.j \in 0..MaxBprs[s] - 1
      /\ list = [blk |-> list.blk, j |-> list.j, address |-> list.address]
      /\ mem \in [0..MEMORY - 1 -> 0..disk.blocks - 1]
  BY <1>1, GeometryAssumption DEF Numbers, MapTypeOK
<1>5. /\ step' \in {"script", "panic", "read", "walk"}
      /\ pos' \in 0..MAX_COMPONENTS
      /\ step' \in {"read", "walk"} => pos' = pos
  BY <1>1, <1>4, GeometryAssumption DEF WalkList
<1>6. CASE /\ list' = list \/ list' = [list EXCEPT !.blk = BlockOf(s, p)]
           /\ mem' = mem
  <2>1. /\ list' = [blk |-> list'.blk, j |-> list'.j, address |-> list'.address]
        /\ list'.j = list.j /\ list'.address = list.address
    BY <1>4, <1>6
  <2>2. QED
    BY <1>1, <1>4, <1>5, <1>6, <2>1, GeometryAssumption
       DEF Numbers, MapTypeOK, Steps
<1>7. CASE /\ ~ Continues /\ Loadable(disk, s, p)
           /\ mem' = LoadChunk(disk, s, mem, list.address, p)
           /\ list' = [list EXCEPT !.j = @ + 1, !.address = @ + p.count + 1]
  <2>1. /\ list' = [blk |-> list.blk, j |-> list.j + 1,
                   address |-> list.address + p.count + 1]
    BY <1>4, <1>7
  <2>2. list.j # MaxBprs[s] - 1
    BY <1>7 DEF Continues, ContinuesAt
  <2>3. list'.j \in 0..MaxBprs[s] - 1 /\ list'.address \in Nat
    BY <1>2, <1>3, <1>4, <2>1, <2>2
  <2>4. mem' \in [0..MEMORY - 1 -> 0..disk.blocks - 1]
    <3>1. \A a \in list.address..list.address + p.count :
            LoadBlock(disk, s, BlockOf(s, p)) + (a - list.address)
              \in 0..disk.blocks - 1
      <4> SUFFICES ASSUME NEW a \in list.address..list.address + p.count
                   PROVE  LoadBlock(disk, s, BlockOf(s, p)) + (a - list.address)
                            \in 0..disk.blocks - 1
        OBVIOUS
      <4>1. a - list.address \in 0..p.count
        BY <1>3, <1>4
      <4>2. QED
        BY <1>7, <4>1 DEF Loadable
    <3>2. QED
      BY <1>4, <1>7, <3>1 DEF LoadChunk
  <2>5. list' = [blk |-> list'.blk, j |-> list'.j, address |-> list'.address]
    BY <2>1
  <2>6. QED
    BY <1>1, <1>4, <1>5, <2>3, <2>4, <2>5, GeometryAssumption
       DEF Numbers, MapTypeOK, Steps
<1>8. QED
  BY <1>1, <1>6, <1>7 DEF WalkList
-----------------------------------------------------------------------------
(* Layout *)

LEMMA InitLayout == MapInit => Layout
BY DEF MapInit, Layout, EckdSteps, ScriptSteps, Running

LEMMA IplScsiLayout == ASSUME Numbers, ipl_scsi PROVE Layout'
<1>1. step = "ipl_scsi" /\ disk' = disk /\ boot.scheme = "scsi"
  BY DEF ipl_scsi, Numbers
<1>2. CASE Read(disk, 0).kind # "mbr"
  <2>1. step' = "ipl_eckd" /\ boot' = [boot EXCEPT !.scheme = "eckd"]
    BY <1>2 DEF ipl_scsi
  <2>2. boot'.scheme = "eckd"
    BY <2>1 DEF Numbers
  <2>3. SchemeOf(disk) = "eckd"
    BY <1>2 DEF SchemeOf
  <2>4. QED
    BY <1>1, <2>1, <2>2, <2>3 DEF Layout, EckdSteps, ScriptSteps, Running
<1>3. CASE Read(disk, 0).kind = "mbr"
  <2>1. SchemeOf(disk) = "scsi" /\ TableBlock(disk) = Read(disk, 0).pt
    BY <1>3 DEF SchemeOf, TableBlock
  <2>2. /\ boot' = boot /\ step' \in {"enum", "panic"}
        /\ step' = "enum" => Read(disk, TableBlock(disk)).kind = "table"
        /\ buf' = [buf EXCEPT !.sec = Read(disk, TableBlock(disk))]
    BY <1>3, <2>1 DEF ipl_scsi
  <2>3. buf'.sec = Read(disk, TableBlock(disk))
    BY <2>2 DEF Numbers
  <2>4. QED
    BY <1>1, <2>1, <2>2, <2>3
       DEF Layout, HasTable, EckdSteps, ScriptSteps, Running
<1>4. QED
  BY <1>2, <1>3

LEMMA ZiplRunLayout == ASSUME Numbers, Layout, zipl_run PROVE Layout'
<1>1. /\ step = "enum" /\ disk' = disk /\ boot' = boot /\ boot.scheme = "scsi"
      /\ HasTable(disk) /\ buf.sec = Read(disk, TableBlock(disk))
      /\ SchemeOf(disk) = "scsi"
  BY DEF zipl_run, Layout
<1>2. CASE step' = "panic"
  BY <1>1, <1>2 DEF Layout, EckdSteps, ScriptSteps, Running
<1>3. CASE step' # "panic"
  <2> DEFINE b == BlockOf("scsi", buf.sec.entries[index'])
  <2>1. /\ step' = "script" /\ index' < MAX_BOOT_ENTRIES
        /\ buf' = [buf EXCEPT !.tmp = Read(disk, b)]
    BY <1>1, <1>3 DEF zipl_run
  <2>2. buf'.tmp = ScriptOf(disk, index')
    BY <1>1, <2>1 DEF Numbers, ScriptOf
  <2>3. QED
    BY <1>1, <2>1, <2>2
       DEF Layout, TheScript, ScriptHeld, EckdSteps, ScriptSteps, Running
<1>4. QED
  BY <1>2, <1>3

LEMMA IplEckdLayout ==
  ASSUME Numbers, Layout, ipl_eckd \/ ipl_eckd_ldl \/ ipl_eckd_cdl PROVE Layout'
<1>1. /\ disk' = disk /\ boot.scheme = "eckd" /\ SchemeOf(disk) = "eckd"
      /\ step \in EckdSteps
  BY DEF ipl_eckd, ipl_eckd_ldl, ipl_eckd_cdl, Layout, EckdSteps
<1>2. CASE ipl_eckd
  <2>1. /\ boot' = boot /\ step' \in {"cdl", "ldl", "unlabeled"}
        /\ step' = "cdl" => Read(disk, 0).kind = "ipl1"
    BY <1>2 DEF ipl_eckd
  <2>2. QED
    BY <1>1, <2>1 DEF Layout, EckdSteps, ScriptSteps, Running
<1>3. CASE ipl_eckd_ldl
  <2>1. CASE step' # "stage1b"
    <3>1. /\ boot' = boot /\ step' \in {"cdl", "panic"}
          /\ step' = "cdl" => Read(disk, 0).kind # "bootinfo"
      BY <1>3, <2>1 DEF ipl_eckd_ldl
    <3>2. QED
      BY <1>1, <3>1 DEF Layout, EckdSteps, ScriptSteps, Running
  <2>2. CASE step' = "stage1b"
    <3>1. Read(disk, 0).kind = "bootinfo"
      BY <1>3, <2>2 DEF ipl_eckd_ldl
    <3>2. boot' = [boot EXCEPT !.bmt = eckd_block_num(Read(disk, 0).bmt),
                               !.s1b = eckd_block_num(Read(disk, 0).s1b)]
      BY <1>3, <2>2 DEF ipl_eckd_ldl
    <3>3. /\ boot'.scheme = "eckd"
          /\ boot'.bmt = eckd_block_num(Read(disk, 0).bmt)
      BY <1>1, <3>2 DEF Numbers
    <3>4. HasTable(disk) /\ boot'.bmt = TableBlock(disk)
      BY <1>1, <3>1, <3>3 DEF HasTable, TableBlock, TableInfo
    <3>5. QED
      BY <1>1, <2>2, <3>3, <3>4 DEF Layout, EckdSteps, ScriptSteps, Running
  <2>3. QED
    BY <2>1, <2>2
<1>4. CASE ipl_eckd_cdl
  <2>1. Read(disk, 0).kind # "bootinfo"
    BY <1>4 DEF ipl_eckd_cdl, Layout
  <2>2. CASE step' # "stage1b"
    <3>1. step' = "failed"
      BY <1>4, <2>2 DEF ipl_eckd_cdl
    <3>2. boot'.scheme = "eckd"
      BY <1>1, <1>4 DEF ipl_eckd_cdl, Numbers
    <3>3. QED
      BY <1>1, <3>1, <3>2 DEF Layout, EckdSteps, ScriptSteps, Running
  <2>3. CASE step' = "stage1b"
    <3>1. /\ Read(disk, 1).kind = "ipl2"
          /\ boot' = [boot EXCEPT !.bmt = eckd_block_num(Read(disk, 1).bmt),
                                  !.s1b = eckd_block_num(Read(disk, 1).s1b)]
      BY <1>4, <2>3 DEF ipl_eckd_cdl
    <3>2. /\ boot'.scheme = "eckd"
          /\ boot'.bmt = eckd_block_num(Read(disk, 1).bmt)
      BY <1>1, <3>1 DEF Numbers
    <3>3. HasTable(disk) /\ boot'.bmt = TableBlock(disk)
      BY <1>1, <2>1, <3>1, <3>2 DEF HasTable, TableBlock, TableInfo
    <3>4. QED
      BY <1>1, <2>3, <3>2, <3>3 DEF Layout, EckdSteps, ScriptSteps, Running
  <2>4. QED
    BY <2>2, <2>3
<1>5. QED
  BY <1>2, <1>3, <1>4

LEMMA MenuLayout ==
  ASSUME Numbers, Layout, ReadStage1b \/ ScanStage2 \/ MenuAnswers PROVE Layout'
<1>1. /\ disk' = disk /\ boot' = boot /\ step \in ScriptSteps
      /\ step' \in ScriptSteps \cup {"panic"}
  BY DEF ReadStage1b, ScanStage2, MenuAnswers, ScriptSteps
<1>2. QED
  BY <1>1 DEF Layout, EckdSteps, ScriptSteps, Running

(* The script is read over the table it was found in.                      *)
LEMMA ReadScriptLayout == ASSUME Numbers, Layout, ReadScript PROVE Layout'
<1>1. /\ disk' = disk /\ boot' = boot /\ index' = index
      /\ boot.scheme = "eckd" /\ SchemeOf(disk) = "eckd"
      /\ HasTable(disk) /\ boot.bmt = TableBlock(disk)
  BY DEF ReadScript, Layout, ScriptSteps
<1>2. CASE step' = "panic"
  BY <1>1, <1>2 DEF Layout, EckdSteps, ScriptSteps, Running
<1>3. CASE step' # "panic"
  <2> DEFINE b == BlockOf("eckd", Read(disk, TableBlock(disk)).entries[index])
  <2>1. /\ step' = "script" /\ index < MAX_BOOT_ENTRIES
        /\ buf' = [buf EXCEPT !.sec = Read(disk, b)]
    BY <1>1, <1>3 DEF ReadScript
  <2>2. buf'.sec = ScriptOf(disk, index)
    BY <1>1, <2>1 DEF Numbers, ScriptOf
  <2>3. QED
    BY <1>1, <2>1, <2>2
       DEF Layout, TheScript, ScriptHeld, EckdSteps, ScriptSteps, Running
<1>4. QED
  BY <1>2, <1>3

(* The blocks of pointers are read into another buffer than the script's.  *)
LEMMA RunningLayout ==
  ASSUME Numbers, Layout, ScriptStep \/ RunPastScript \/ ReadList \/ WalkList
  PROVE  Layout'
<1>1. /\ disk' = disk /\ boot' = boot /\ index' = index /\ step \in Running
      /\ step' \in Running \cup {"jump", "panic", "wild"}
  BY DEF ScriptStep, RunPastScript, ReadList, WalkList, Running
<1>2. ScriptHeld' = ScriptHeld
  <2>1. CASE buf' = buf
    BY <1>1, <2>1 DEF ScriptHeld
  <2>2. CASE ReadList /\ buf' # buf
    <3>1. /\ boot.scheme = "scsi" => \E c : buf' = [buf EXCEPT !.sec = c]
          /\ boot.scheme # "scsi" => \E c : buf' = [buf EXCEPT !.bprs = c]
      BY <2>2, ListBuffered DEF ReadList
    <3>2. QED
      BY <1>1, <3>1 DEF ScriptHeld, Numbers
  <2>3. QED
    BY <2>1, <2>2 DEF ScriptStep, RunPastScript, WalkList
<1>3. QED
  BY <1>1, <1>2 DEF Layout, TheScript, EckdSteps, ScriptSteps, Running
-----------------------------------------------------------------------------
(* The menu *)

LEMMA InitScan == MapInit => Scan
BY DEF MapInit, Scan, MenuWhole

(* A seek argument that can be read is the block of stage 2 in its turn.   *)
LEMMA SeekIsStage2 ==
  ASSUME Numbers, NEW i \in Nat, buf.sec = Read(disk, boot.s1b),
         Readable(disk, SeekBlock(i))
  PROVE  SeekBlock(i) = Stage2At(i + 1) /\ i + 1 \in DOMAIN disk.stage2
<1> DEFINE b == Sector(disk, boot.s1b)
<1>1. buf.sec.kind = "stage1b" /\ i + 1 \in DOMAIN buf.sec.seek
  BY EndsOfDisk DEF SeekBlock, Numbers
<1>2. SeekBlock(i) = eckd_block_num(buf.sec.seek[i + 1])
  BY <1>1 DEF SeekBlock
<1>3. b \in DOMAIN disk.content /\ buf.sec = disk.content[b]
  BY <1>1 DEF Read
<1>4. Stage2Written(disk)
  BY DiskAssumption DEF Numbers
<1>5. QED
  BY <1>1, <1>2, <1>3, <1>4 DEF Stage2Written, Stage2At

LEMMA ScanStage2Scan == ASSUME Numbers, Scan, ScanStage2 PROVE Scan'
<1>1. /\ step = "stage2" /\ disk' = disk /\ buf' = buf /\ boot' = boot
      /\ buf.sec = Read(disk, boot.s1b)
      /\ s2.prev = 0 /\ s2.next = 0 /\ seek.prev = Stage2At(seek.i)
  BY DEF ScanStage2, Scan
<1>2. seek.i \in Nat
  BY GeometryAssumption DEF Numbers, MapTypeOK
<1>3. Stage2Written(disk)
  BY DiskAssumption DEF Numbers
<1> DEFINE cur == SeekBlock(seek.i)
<1>4. CASE step' = "stage2"
  <2>1. /\ cur \notin {0, -1} /\ Readable(disk, cur)
        /\ s2' = [s2 EXCEPT !.cur = cur]
        /\ seek' = [i |-> seek.i + 1, prev |-> cur]
    BY <1>1, <1>4 DEF ScanStage2
  <2>2. s2'.prev = 0 /\ s2'.next = 0
    BY <1>1, <2>1 DEF Numbers
  <2>3. seek'.prev = Stage2At(seek'.i)
    BY <1>1, <1>2, <2>1, SeekIsStage2
  <2>4. QED
    BY <1>1, <1>4, <2>2, <2>3 DEF Scan, MenuWhole, Stage2At
<1>5. CASE step' = "menu"
  <2>1. /\ seek.i < STAGE2_BLK_CNT_MAX /\ Readable(disk, cur)
        /\ Read(disk, cur).kind = "banner"
        /\ s2' = [prev |-> IF seek.prev # 0 THEN seek.prev ELSE s2.prev,
                  cur |-> cur,
                  next |-> IF NextSeekBlock # 0 THEN NextSeekBlock ELSE s2.next]
        /\ NextSeekBlock # 0 => Readable(disk, NextSeekBlock)
    BY <1>1, <1>5 DEF ScanStage2
  <2>2. cur = Stage2At(seek.i + 1) /\ seek.i + 1 \in DOMAIN disk.stage2
    BY <1>1, <1>2, <2>1, SeekIsStage2
  <2>3. disk.banner = seek.i + 1
    BY <1>3, <2>1, <2>2 DEF Stage2Written, Stage2At
  <2>4. NextSeekBlock = Stage2At(seek.i + 2)
    <3>1. CASE seek.i + 1 < STAGE2_BLK_CNT_MAX
      <4>1. NextSeekBlock = SeekBlock(seek.i + 1)
        BY <3>1 DEF NextSeekBlock
      <4>2. Readable(disk, 0)
        BY EndsOfDisk DEF Numbers
      <4>3. Readable(disk, SeekBlock(seek.i + 1))
        BY <2>1, <4>1, <4>2
      <4>4. QED
        BY <1>1, <1>2, <4>1, <4>3, SeekIsStage2
    <3>2. CASE ~ seek.i + 1 < STAGE2_BLK_CNT_MAX
      <4>1. NextSeekBlock = 0
        BY <3>2 DEF NextSeekBlock
      <4>2. seek.i + 2 \notin DOMAIN disk.stage2
        BY <1>2, <1>3, <3>2, GeometryAssumption DEF Stage2Written
      <4>3. QED
        BY <4>1, <4>2 DEF Stage2At
    <3>3. QED
      BY <3>1, <3>2
  <2>5. /\ Stage2At(disk.banner - 1) = s2'.prev
        /\ Stage2At(disk.banner) = s2'.cur
        /\ Stage2At(disk.banner + 1) = s2'.next
    BY <1>1, <1>2, <2>1, <2>2, <2>3, <2>4
  <2>6. QED
    BY <1>1, <1>5, <2>1, <2>5 DEF Scan, MenuWhole, Stage2At
<1>6. QED
  BY <1>4, <1>5 DEF Scan, MenuWhole

LEMMA OtherStepsScan ==
  ASSUME Numbers, Scan, MapNext, ~ ScanStage2 PROVE Scan'
<1>1. CASE ReadStage1b
  <2>1. CASE step' = "stage2"
    <3>1. /\ buf' = [buf EXCEPT !.sec = Read(disk, boot.s1b)]
          /\ s2' = [prev |-> 0, cur |-> 0, next |-> 0]
          /\ seek' = [i |-> 0, prev |-> 0] /\ boot' = boot /\ disk' = disk
      BY <1>1, <2>1 DEF ReadStage1b
    <3>2. buf'.sec = Read(disk, boot.s1b)
      BY <3>1 DEF Numbers
    <3>3. 0 \notin DOMAIN disk.stage2
      BY DiskAssumption DEF Numbers, Stage2Written
    <3>4. QED
      BY <2>1, <3>1, <3>2, <3>3 DEF Scan, MenuWhole, Stage2At
  <2>2. CASE step' # "stage2"
    BY <1>1, <2>2 DEF ReadStage1b, Scan, MenuWhole
  <2>3. QED
    BY <2>1, <2>2
<1>2. CASE ~ ReadStage1b
  <2>1. step' \notin {"stage2", "menu"}
    BY <1>2 DEF MapNext, ipl_scsi, zipl_run, ipl_eckd, ipl_eckd_ldl,
        ipl_eckd_cdl, MenuAnswers, ReadScript, ScriptStep, RunPastScript, ReadList,
        WalkList
  <2>2. QED
    BY <2>1 DEF Scan, MenuWhole
<1>3. QED
  BY <1>1, <1>2
-----------------------------------------------------------------------------
(* Memory *)

LEMMA InitMemory == MapInit => Memory
BY DEF MapInit, Memory, Running, LoadedWhole

(* What the disk says of the script that is run, and of its components.    *)
LEMMA ScriptIsWritten ==
  ASSUME Numbers, Layout, step \in Running, TheScript.kind = "script"
  PROVE  /\ ScriptWritten(disk, index, TheScript.entries)
         /\ boot.scheme = SchemeOf(disk) /\ ScriptHeld = TheScript
<1>1. HasTable(disk) /\ index \in 0..MAX_BOOT_ENTRIES - 1
  BY GeometryAssumption DEF Layout, Numbers
<1>2. ProgramsWritten(disk)
  BY DiskAssumption DEF Numbers
<1>3. QED
  BY <1>1, <1>2 DEF ProgramsWritten, TheScript, Layout, Running

LEMMA ComponentIsWritten ==
  ASSUME Numbers, NEW c \in Components(disk, index)
  PROVE  /\ ComponentWritten(disk, c)
         /\ c.address \in Nat /\ Len(c.blocks) \in Nat
         /\ DOMAIN c.blocks = 1..Len(c.blocks)
         /\ \A e \in Components(disk, index) :
              \A i \in DOMAIN c.blocks, k \in DOMAIN e.blocks :
                c.address + i = e.address + k => c.blocks[i] = e.blocks[k]
<1>1. index \in DOMAIN disk.programs
  BY DEF Components
<1>2. ProgramsWritten(disk)
  BY DiskAssumption DEF Numbers
<1>3. ComponentWritten(disk, c)
  BY <1>1, <1>2 DEF ProgramsWritten
<1>4. c.address \in Nat /\ c.blocks \in Seq(Nat)
  BY <1>3 DEF ComponentWritten
<1>5. QED
  BY <1>1, <1>2, <1>3, <1>4 DEF ProgramsWritten

(* When all components are in place and nothing else was written, memory   *)
(* is the image of the program.                                            *)
LEMMA WholeImage ==
  ASSUME Numbers, NothingElse, index \in DOMAIN disk.programs,
         \A c \in Components(disk, index) : InPlace(c, Len(c.blocks))
  PROVE  mem = Image(disk.programs[index])
<1> DEFINE program == disk.programs[index]
<1>1. mem \in [0..MEMORY - 1 -> 0..disk.blocks - 1] /\ disk.blocks \in Nat
  BY DiskAssumption DEF Numbers, MapTypeOK, BlocksSound
<1>2. ASSUME NEW a \in 0..MEMORY - 1, NEW c \in Components(disk, index),
             a - c.address + 1 \in DOMAIN c.blocks
      PROVE  mem[a] = c.blocks[a - c.address + 1]
  <2>1. /\ c.address \in Nat /\ Len(c.blocks) \in Nat
        /\ DOMAIN c.blocks = 1..Len(c.blocks)
    BY ComponentIsWritten
  <2>2. a \in Int /\ c.address + (a - c.address + 1) - 1 = a
    BY <2>1
  <2>3. QED
    BY <1>2, <2>1, <2>2 DEF InPlace
<1>3. ASSUME NEW a \in 0..MEMORY - 1, NEW b \in BlocksAt(program, a)
      PROVE  mem[a] = b
  <2>1. PICK k \in DOMAIN program.components :
          LET c == program.components[k]
          IN /\ a - c.address + 1 \in DOMAIN c.blocks
             /\ b = c.blocks[a - c.address + 1]
    BY DEF BlocksAt
  <2>2. program.components[k] \in Components(disk, index)
    BY DEF Components
  <2>3. QED
    BY <1>2, <2>1, <2>2
<1>4. ASSUME NEW a \in 0..MEMORY - 1, mem[a] # 0
      PROVE  mem[a] \in BlocksAt(program, a)
  <2>1. PICK c \in Components(disk, index) : a - c.address + 1 \in DOMAIN c.blocks
    BY <1>4 DEF NothingElse
  <2>2. PICK k \in DOMAIN program.components : c = program.components[k]
    BY DEF Components
  <2>3. mem[a] = c.blocks[a - c.address + 1]
    BY <1>2, <2>1
  <2>4. mem[a] \in 1..disk.blocks
    BY <1>1, <1>4
  <2>5. QED
    BY <2>1, <2>2, <2>3, <2>4 DEF BlocksAt
<1>5. ASSUME NEW a \in 0..MEMORY - 1
      PROVE  mem[a] = IF BlocksAt(program, a) = {} THEN 0
                      ELSE CHOOSE b \in BlocksAt(program, a) : TRUE
  <2>1. CASE BlocksAt(program, a) = {}
    BY <1>4, <2>1
  <2>2. CASE BlocksAt(program, a) # {}
    BY <1>3, <2>2
  <2>3. QED
    BY <2>1, <2>2
<1>6. QED
  BY <1>1, <1>5 DEF Image

LEMMA FindingMemory == ASSUME Memory, FindingScript PROVE Memory'
<1>1. /\ mem' = mem /\ pos' = pos
      /\ step \in {"ipl_scsi", "enum"} \cup EckdSteps \cup ScriptSteps
      /\ step' \notin {"read", "walk", "jump"}
  BY DEF FindingScript, ipl_scsi, zipl_run, ipl_eckd, ipl_eckd_ldl, ipl_eckd_cdl,
         ReadStage1b, ScanStage2, MenuAnswers, ReadScript, EckdSteps, ScriptSteps
<1>2. pos = 0 /\ \A a \in 0..MEMORY - 1 : mem[a] = 0
  BY <1>1 DEF Memory
<1>3. NothingElse' /\ Passed'
  BY <1>1, <1>2 DEF NothingElse, Passed
<1>4. QED
  BY <1>1, <1>2, <1>3 DEF Memory, LoadedWhole

(* Of a program with blocks out of reach nothing is claimed.               *)
LEMMA OutOfReach ==
  ASSUME ScriptStep \/ ReadList \/ WalkList, ~ Reached PROVE Memory'
<1>1. disk' = disk /\ index' = index /\ step' \notin {"ipl_scsi", "enum"}
      /\ step' \notin EckdSteps \cup ScriptSteps
  BY DEF ScriptStep, ReadList, WalkList, EckdSteps, ScriptSteps
<1>2. ~ Reached' /\ ~ InReach(disk', index')
  BY <1>1 DEF Reached
<1>3. QED
  BY <1>1, <1>2 DEF Memory, LoadedWhole

LEMMA ScriptStepMemory ==
  ASSUME Numbers, Layout, Memory, Reached, ScriptStep PROVE Memory'
<1> DEFINE e == ScriptEntry(ScriptHeld, pos)
<1>1. /\ step = "script" /\ buf[ScriptBuffer(boot.scheme)] = ScriptHeld
      /\ BlockSound(ScriptHeld) /\ ScriptHeld = TheScript
      /\ boot.scheme = SchemeOf(disk) /\ NothingElse /\ Passed
  BY HeldScript DEF ScriptStep, Layout, Memory, Running
<1>2. /\ UNCHANGED <<disk, boot, buf, s2, seek, index, mem>>
      /\ pos \in Nat
  BY GeometryAssumption DEF ScriptStep, Numbers, MapTypeOK
<1>3. /\ TheScript' = TheScript /\ NothingElse'
      /\ \A c, n : InPlace(c, n)' <=> InPlace(c, n)
  BY <1>1, <1>2 DEF TheScript, NothingElse, InPlace
<1>4. CASE e.type = "load"
  <2>1. /\ list' = [blk |-> BlockOf(boot.scheme, e), j |-> 0,
                   address |-> e.address]
        /\ step' = "read" /\ pos' = pos
    BY <1>1, <1>4 DEF ScriptStep
  <2>2. /\ TheScript.kind = "script" /\ pos + 1 \in DOMAIN TheScript.entries
        /\ e = TheScript.entries[pos + 1] /\ e.address \in Nat
    BY <1>1, <1>2, <1>4, EntryKnown
  <2>3. ASSUME NEW c, Loads(disk, e, c)
        PROVE  InPlace(c, LoadedOf(c))' /\ AtList(c)'
    <3>1. LoadedOf(c)' = 0
      BY <2>1, <2>2, <2>3 DEF LoadedOf, Loads
    <3>2. Starts(c, list'.blk, 0)
      BY <1>1, <2>1, <2>3 DEF Loads
    <3>3. QED
      BY <3>1, <3>2 DEF InPlace, AtList
  <2>4. Loading'
    BY <1>1, <1>2, <1>3, <1>4, <2>1, <2>2, <2>3 DEF Loading, InPlace, LoadedOf
  <2>5. Passed'
    BY <1>1, <1>2, <1>3, <2>1 DEF Passed
  <2>6. QED
    BY <1>3, <2>1, <2>4, <2>5
       DEF Memory, Running, EckdSteps, ScriptSteps, LoadedWhole
<1>5. CASE e.type = "signature"
  <2>1. step' = "script" /\ pos' = pos + 1
    BY <1>1, <1>5 DEF ScriptStep
  <2>2. /\ TheScript.kind = "script" /\ pos + 1 \in DOMAIN TheScript.entries
        /\ e = TheScript.entries[pos + 1]
    BY <1>1, <1>2, <1>5, EntryKnown
  <2>3. ~ Refused(disk, e) /\ \A c : ~ Loads(disk, e, c)
    BY <1>5 DEF Refused, Loads
  <2>4. Passed'
    BY <1>1, <1>2, <1>3, <2>1, <2>2, <2>3 DEF Passed
  <2>5. QED
    BY <1>3, <2>1, <2>4 DEF Memory, Running, EckdSteps, ScriptSteps, LoadedWhole
<1>6. CASE e.type = "exec"
  <2>1. step' = "jump" /\ psw' = e.address
    BY <1>1, <1>6 DEF ScriptStep
  <2>2. /\ TheScript.kind = "script" /\ pos + 1 \in DOMAIN TheScript.entries
        /\ e = TheScript.entries[pos + 1]
    BY <1>1, <1>6 DEF ScriptEntry
  <2>3. ScriptWritten(disk, index, TheScript.entries)
    BY <1>1, <2>2, ScriptIsWritten DEF Running
  <2>4. \/ \E i \in 1..pos : Refused(disk, TheScript.entries[i])
        \/ /\ index \in DOMAIN disk.programs
           /\ e.address = disk.programs[index].psw
           /\ \A c \in Components(disk, index) :
                \E i \in 1..pos : Loads(disk, TheScript.entries[i], c)
    <3> DEFINE entries == TheScript.entries
    <3>1. entries[pos + 1].type = "exec" =>
            \/ \E i \in 1..(pos + 1) - 1 : Refused(disk, entries[i])
            \/ /\ index \in DOMAIN disk.programs
               /\ entries[pos + 1].address = disk.programs[index].psw
               /\ \A c \in Components(disk, index) :
                    \E i \in 1..(pos + 1) - 1 : Loads(disk, entries[i], c)
      BY <2>2, <2>3 DEF ScriptWritten
    <3>2. (pos + 1) - 1 = pos
      BY <1>2
    <3>3. QED
      BY <1>6, <2>2, <3>1, <3>2
  <2>5. /\ index \in DOMAIN disk.programs
        /\ e.address = disk.programs[index].psw
        /\ \A c \in Components(disk, index) : InPlace(c, Len(c.blocks))
    BY <1>1, <2>4 DEF Passed
  <2>6. mem = Image(disk.programs[index])
    BY <1>1, <2>5, WholeImage
  <2>7. Image(disk.programs[index])' = Image(disk.programs[index])
    BY <1>2 DEF Image, BlocksAt
  <2>8. LoadedWhole'
    BY <1>2, <2>1, <2>5, <2>6, <2>7 DEF LoadedWhole
  <2>9. QED
    BY <2>1, <2>8 DEF Memory, Running, EckdSteps, ScriptSteps
<1>7. CASE e.type \notin {"load", "signature", "exec"}
  <2>1. step' = "panic"
    BY <1>1, <1>7 DEF ScriptStep
  <2>2. QED
    BY <2>1 DEF Memory, Running, EckdSteps, ScriptSteps, LoadedWhole
<1>8. QED
  BY <1>4, <1>5, <1>6, <1>7

LEMMA ReadListMemory ==
  ASSUME Numbers, Layout, Memory, Reached, ReadList PROVE Memory'
<1>1. /\ UNCHANGED <<disk, boot, s2, seek, index, pos, mem, psw>>
      /\ step = "read" /\ NothingElse /\ Passed /\ Loading
  BY DEF ReadList, Memory, Running
<1>2. /\ TheScript' = TheScript /\ NothingElse' /\ Passed'
      /\ \A c, n : InPlace(c, n)' <=> InPlace(c, n)
  BY <1>1 DEF TheScript, NothingElse, InPlace, Passed
<1>3. CASE step' = "panic"
  BY <1>3 DEF Memory, Running, EckdSteps, ScriptSteps, LoadedWhole
<1>4. CASE step' # "panic"
  <2>1. /\ step' = "walk" /\ Readable(disk, list.blk)
        /\ list' = [list EXCEPT !.j = 0]
        /\ buf' = [buf EXCEPT ![ListBuffer(boot.scheme)] = Read(disk, list.blk)]
    BY <1>4 DEF ReadList
  <2>2. list'.blk = list.blk /\ list'.j = 0 /\ list'.address = list.address
    BY <2>1 DEF Numbers
  <2>3. CurrentList' = Read(disk, list.blk)
    <3>1. CurrentList' = IF boot'.scheme = "scsi" THEN buf'.sec ELSE buf'.bprs
      BY DEF CurrentList, ListBuffer
    <3>2. /\ boot.scheme = "scsi" =>
               buf' = [buf EXCEPT !.sec = Read(disk, list.blk)]
          /\ boot.scheme # "scsi" =>
               buf' = [buf EXCEPT !.bprs = Read(disk, list.blk)]
      BY <2>1, ListBuffered
    <3>3. QED
      BY <1>1, <3>1, <3>2 DEF Numbers
  <2>4. \A c : LoadedOf(c)' = LoadedOf(c)
    BY <2>2 DEF LoadedOf
  <2>5. \A c : AtList(c) => AtSlot(c)'
    BY <1>1, <2>2, <2>4 DEF AtList, AtSlot, Starts
  <2>6. Loading'
    BY <1>1, <1>2, <2>1, <2>2, <2>3, <2>4, <2>5 DEF Loading
  <2>7. QED
    BY <1>2, <2>1, <2>6 DEF Memory, Running, EckdSteps, ScriptSteps, LoadedWhole
<1>5. QED
  BY <1>3, <1>4
(* A chunk of the component that is loaded goes to its place, and disturbs *)
(* nothing that was in place before.                                       *)
LEMMA ChunkKeepsPlaces ==
  ASSUME Numbers, NEW c \in Components(disk, index), NEW count \in Nat,
         NEW to, NEW n \in Nat, list.address = c.address + n,
         UNCHANGED <<disk, index>>,
         \A k \in 0..count : /\ n + k + 1 \in DOMAIN c.blocks
                             /\ c.blocks[n + k + 1] = to + k,
         mem' = [a \in DOMAIN mem |->
                   IF a \in list.address..list.address + count
                   THEN to + (a - list.address) ELSE mem[a]]
  PROVE  /\ NothingElse => NothingElse'
         /\ \A e \in Components(disk, index) : \A m \in 0..Len(e.blocks) :
              InPlace(e, m) => InPlace(e, m)'
         /\ InPlace(c, n) => InPlace(c, n + count + 1)'
<1>1. /\ c.address \in Nat /\ Len(c.blocks) \in Nat
      /\ DOMAIN c.blocks = 1..Len(c.blocks)
  BY ComponentIsWritten
<1>2. DOMAIN mem = 0..MEMORY - 1
  BY DEF Numbers, MapTypeOK
<1>3. ASSUME NEW a \in 0..MEMORY - 1,
             a \in list.address..list.address + count
      PROVE  /\ a - c.address + 1 \in DOMAIN c.blocks
             /\ mem'[a] = c.blocks[a - c.address + 1]
  <2> DEFINE k == a - list.address
  <2>1. a \in Int
    OBVIOUS
  <2>2. k \in 0..count /\ n + k + 1 = a - c.address + 1
    BY <1>1, <1>3, <2>1
  <2>3. mem'[a] = to + k
    BY <1>2, <1>3
  <2>4. n + k + 1 \in DOMAIN c.blocks /\ c.blocks[n + k + 1] = to + k
    BY <2>2
  <2>5. QED
    BY <2>2, <2>3, <2>4
<1>4. ASSUME NEW a \in 0..MEMORY - 1,
             a \notin list.address..list.address + count
      PROVE  mem'[a] = mem[a]
  BY <1>2, <1>4
<1>5. NothingElse => NothingElse'
  BY <1>3, <1>4 DEF NothingElse
<1>6. ASSUME NEW e \in Components(disk, index), NEW m \in 0..Len(e.blocks),
             InPlace(e, m), NEW i \in 1..m,
             e.address + i - 1 \in 0..MEMORY - 1
      PROVE  mem'[e.address + i - 1] = e.blocks[i]
  <2> DEFINE a == e.address + i - 1
  <2>1. /\ e.address \in Nat /\ Len(e.blocks) \in Nat
        /\ DOMAIN e.blocks = 1..Len(e.blocks)
    BY ComponentIsWritten
  <2>2. CASE a \in list.address..list.address + count
    <3>1. /\ a - c.address + 1 \in DOMAIN c.blocks
          /\ mem'[a] = c.blocks[a - c.address + 1]
      BY <1>3, <1>6, <2>2
    <3>2. i \in DOMAIN e.blocks
      BY <2>1
    <3>3. c.address + (a - c.address + 1) = e.address + i
      BY <1>1, <2>1
    <3>4. c.blocks[a - c.address + 1] = e.blocks[i]
      BY <3>1, <3>2, <3>3, ComponentIsWritten
    <3>5. QED
      BY <3>1, <3>4
  <2>3. CASE a \notin list.address..list.address + count
    BY <1>4, <1>6, <2>3 DEF InPlace
  <2>4. QED
    BY <2>2, <2>3
<1>7. ASSUME InPlace(c, n), NEW i \in 1..n + count + 1,
             c.address + i - 1 \in 0..MEMORY - 1
      PROVE  mem'[c.address + i - 1] = c.blocks[i]
  <2>1. CASE i <= n
    <3>1. i \in 1..n /\ n \in 0..Len(c.blocks)
      <4>1. n + 0 + 1 \in DOMAIN c.blocks
        OBVIOUS
      <4>2. QED
        BY <1>1, <2>1, <4>1
    <3>2. QED
      BY <1>6, <1>7, <3>1
  <2>2. CASE i > n
    <3> DEFINE a == c.address + i - 1
    <3>1. a \in list.address..list.address + count
      BY <1>1, <2>2
    <3>2. a - c.address + 1 = i
      BY <1>1
    <3>3. QED
      BY <1>3, <1>7, <3>1, <3>2
  <2>3. QED
    BY <2>1, <2>2
<1>8. \A e \in Components(disk, index) : \A m \in 0..Len(e.blocks) :
        InPlace(e, m) => InPlace(e, m)'
  BY <1>6 DEF InPlace
<1>9. InPlace(c, n) => InPlace(c, n + count + 1)'
  BY <1>7 DEF InPlace
<1>10. QED
  BY <1>5, <1>8, <1>9

(* A turn of the walk: only a block of pointers gets past its first slot,  *)
(* and what its slot leads to is what the disk says of it.                 *)
LEMMA WalkFacts ==
  ASSUME Numbers, Layout, Memory, Reached, WalkList, step' # "panic"
  PROVE  LET s == boot.scheme
             p == Slot(s, CurrentList, list.j)
             e == TheScript.entries[pos + 1]
         IN /\ s = SchemeOf(disk) /\ p.count \in Nat
            /\ CurrentList = Read(disk, list.blk) /\ IsList(disk, list.blk)
            /\ TheScript.kind = "script" /\ pos + 1 \in DOMAIN TheScript.entries
            /\ e.type = "load" /\ ~ Refused(disk, e)
            /\ \E c \in Components(disk, index) : Loads(disk, e, c)
            /\ \A c \in Components(disk, index) : Loads(disk, e, c) =>
                 /\ InPlace(c, LoadedOf(c)) /\ AtSlot(c)
                 /\ LoadedOf(c) \in Nat /\ list.address = c.address + LoadedOf(c)
                 /\ SlotWritten(disk, c, list.blk, list.j)
<1> DEFINE s == boot.scheme
           p == Slot(s, CurrentList, list.j)
           e == TheScript.entries[pos + 1]
<1>1. step = "walk" /\ Loading
  BY DEF WalkList, Memory
<1>2. /\ TheScript.kind = "script" /\ pos + 1 \in DOMAIN TheScript.entries
      /\ e.type = "load" /\ Readable(disk, list.blk)
      /\ CurrentList = Read(disk, list.blk)
      /\ ~ IsList(disk, list.blk) => list.j = 0
      /\ Refused(disk, e) => list.blk = BlockOf(SchemeOf(disk), e)
  BY <1>1 DEF Loading
<1>3. /\ s = SchemeOf(disk) /\ s \in {"scsi", "eckd"}
      /\ ScriptWritten(disk, index, TheScript.entries)
  BY <1>1, <1>2, ScriptIsWritten DEF Running, Numbers, MapTypeOK
<1>4. p.count \in Nat
  BY HeldScript, SlotCount
<1>5. IsList(disk, list.blk)
  <2>1. SUFFICES ASSUME ~ IsList(disk, list.blk) PROVE FALSE
    OBVIOUS
  <2>2. CurrentList.kind # "list" /\ list.j = 0
    BY <1>2, <2>1 DEF IsList
  <2>3. /\ BlockOf(s, p) # NullBlock(s) /\ ~ Continues
        /\ ~ Loadable(disk, s, p)
    BY <1>3, <2>2, NoList DEF Continues
  <2>4. QED
    BY <2>3 DEF WalkList
<1>6. ~ Refused(disk, e)
  BY <1>2, <1>5 DEF Refused
<1>7. \E c \in Components(disk, index) : Loads(disk, e, c)
  BY <1>2, <1>3, <1>6 DEF ScriptWritten
<1>8. ASSUME NEW c \in Components(disk, index), Loads(disk, e, c)
      PROVE  /\ InPlace(c, LoadedOf(c)) /\ AtSlot(c)
             /\ LoadedOf(c) \in Nat /\ list.address = c.address + LoadedOf(c)
             /\ SlotWritten(disk, c, list.blk, list.j)
  <2>1. InPlace(c, LoadedOf(c)) /\ AtSlot(c)
    BY <1>1, <1>8 DEF Loading
  <2>2. /\ list.blk \in DOMAIN c.before /\ list.j \in DOMAIN c.before[list.blk]
        /\ c.before[list.blk][list.j] = LoadedOf(c)
    BY <1>5, <2>1 DEF AtSlot
  <2>3. ComponentWritten(disk, c) /\ c.address \in Nat
    BY ComponentIsWritten
  <2>4. LoadedOf(c) \in Nat /\ SlotWritten(disk, c, list.blk, list.j)
    BY <2>2, <2>3 DEF ComponentWritten
  <2>5. list.address \in Nat
    BY DEF Numbers, MapTypeOK
  <2>6. list.address = c.address + LoadedOf(c)
    BY <2>3, <2>5 DEF LoadedOf
  <2>7. QED
    BY <2>1, <2>4, <2>6
<1>9. QED
  BY <1>2, <1>3, <1>4, <1>5, <1>6, <1>7, <1>8

LEMMA WalkListMemory ==
  ASSUME Numbers, Layout, Memory, Reached, WalkList PROVE Memory'
<1> DEFINE s == boot.scheme
           p == Slot(s, CurrentList, list.j)
           to == BlockOf(s, p)
           e == TheScript.entries[pos + 1]
<1>1. /\ UNCHANGED <<disk, boot, buf, s2, seek, index, psw>> /\ step = "walk"
      /\ NothingElse /\ Passed /\ Loading /\ pos \in Nat
  BY GeometryAssumption DEF WalkList, Memory, Running, Numbers, MapTypeOK
<1>2. TheScript' = TheScript /\ CurrentList' = CurrentList
  BY <1>1 DEF TheScript, CurrentList
<1>3. CASE step' = "panic"
  BY <1>3 DEF Memory, Running, EckdSteps, ScriptSteps, LoadedWhole
<1>4. CASE step' # "panic" /\ to = NullBlock(s)
  <2>1. /\ pos' = pos + 1 /\ step' = "script" /\ list' = list /\ mem' = mem
    BY <1>4 DEF WalkList
  <2>2. NothingElse' /\ \A c, n : InPlace(c, n)' <=> InPlace(c, n)
    BY <1>1, <2>1 DEF NothingElse, InPlace
  <2>3. ASSUME NEW c \in Components(disk, index), Loads(disk, e, c)
        PROVE  InPlace(c, Len(c.blocks))
    <3>1. /\ InPlace(c, LoadedOf(c)) /\ SlotWritten(disk, c, list.blk, list.j)
          /\ s = SchemeOf(disk) /\ CurrentList = Read(disk, list.blk)
          /\ AtSlot(c) /\ IsList(disk, list.blk)
      BY <1>4, <2>3, WalkFacts
    <3>2. LoadedOf(c) = Len(c.blocks)
      BY <1>4, <3>1 DEF SlotWritten, AtSlot
    <3>3. QED
      BY <3>1, <3>2
  <2>4. /\ TheScript.kind = "script" /\ pos + 1 \in DOMAIN TheScript.entries
        /\ ~ Refused(disk, e)
    BY <1>4, WalkFacts
  <2>5. Passed'
    BY <1>1, <1>2, <2>1, <2>2, <2>3, <2>4 DEF Passed
  <2>6. QED
    BY <2>1, <2>2, <2>5
       DEF Memory, Running, EckdSteps, ScriptSteps, LoadedWhole
<1>5. CASE step' # "panic" /\ to # NullBlock(s) /\ Continues
  <2>1. /\ Followed(disk, s, CurrentList, list.j)
        /\ list' = [list EXCEPT !.blk = to] /\ step' = "read"
        /\ pos' = pos /\ mem' = mem
    BY <1>5 DEF WalkList
  <2>2. /\ NothingElse' /\ Passed'
        /\ \A c, n : InPlace(c, n)' <=> InPlace(c, n)
    BY <1>1, <1>2, <2>1 DEF NothingElse, InPlace, Passed
  <2>3. list'.blk = to /\ list'.address = list.address
    BY <2>1 DEF Numbers
  <2>4. \A c : LoadedOf(c)' = LoadedOf(c)
    BY <2>3 DEF LoadedOf
  <2>5. ASSUME NEW c \in Components(disk, index), Loads(disk, e, c)
        PROVE  InPlace(c, LoadedOf(c)) /\ AtList(c)'
    <3>1. /\ InPlace(c, LoadedOf(c)) /\ SlotWritten(disk, c, list.blk, list.j)
          /\ s = SchemeOf(disk) /\ CurrentList = Read(disk, list.blk)
          /\ AtSlot(c) /\ IsList(disk, list.blk)
      BY <1>5, <2>5, WalkFacts
    <3>2. IsList(disk, to) => Starts(c, to, LoadedOf(c))
      BY <1>5, <2>1, <3>1 DEF SlotWritten, AtSlot, Continues
    <3>3. QED
      BY <1>1, <2>3, <2>4, <3>1, <3>2 DEF AtList
  <2>6. /\ TheScript.kind = "script" /\ pos + 1 \in DOMAIN TheScript.entries
        /\ e.type = "load" /\ ~ Refused(disk, e)
    BY <1>5, WalkFacts
  <2>7. Loading'
    BY <1>1, <1>2, <2>1, <2>2, <2>4, <2>5, <2>6 DEF Loading
  <2>8. QED
    BY <2>1, <2>2, <2>7
       DEF Memory, Running, EckdSteps, ScriptSteps, LoadedWhole
<1>6. CASE step' # "panic" /\ to # NullBlock(s) /\ ~ Continues
  <2>1. /\ Loadable(disk, s, p) /\ mem' = LoadChunk(disk, s, mem, list.address, p)
        /\ list' = [list EXCEPT !.j = @ + 1, !.address = @ + p.count + 1]
        /\ step' = step /\ pos' = pos
    BY <1>6 DEF WalkList
  <2>2. /\ list'.blk = list.blk /\ list'.j = list.j + 1
        /\ list'.address = list.address + p.count + 1
    BY <2>1 DEF Numbers
  <2>3. /\ s = SchemeOf(disk) /\ p.count \in Nat
        /\ CurrentList = Read(disk, list.blk) /\ IsList(disk, list.blk)
        /\ TheScript.kind = "script" /\ pos + 1 \in DOMAIN TheScript.entries
        /\ e.type = "load" /\ ~ Refused(disk, e)
    BY <1>6, WalkFacts
  <2>4. ASSUME NEW c \in Components(disk, index), Loads(disk, e, c)
        PROVE  /\ LoadedOf(c) \in Nat /\ c.address \in Nat
               /\ list.address = c.address + LoadedOf(c)
               /\ InPlace(c, LoadedOf(c))
               /\ list.blk \in DOMAIN c.before
               /\ list.j + 1 \in DOMAIN c.before[list.blk]
               /\ c.before[list.blk][list.j + 1] = LoadedOf(c) + p.count + 1
               /\ to \in Nat
               /\ \A k \in 0..p.count :
                    /\ LoadedOf(c) + k + 1 \in DOMAIN c.blocks
                    /\ c.blocks[LoadedOf(c) + k + 1] = to + k
    <3>1. /\ InPlace(c, LoadedOf(c)) /\ SlotWritten(disk, c, list.blk, list.j)
          /\ AtSlot(c) /\ LoadedOf(c) \in Nat
          /\ list.address = c.address + LoadedOf(c)
      BY <1>6, <2>4, WalkFacts
    <3>2. /\ list.blk \in DOMAIN c.before
          /\ c.before[list.blk][list.j] = LoadedOf(c)
      BY <2>3, <3>1 DEF AtSlot
    <3>3. c.address \in Nat
      BY ComponentIsWritten
    <3>4. QED
      BY <1>6, <2>1, <2>3, <3>1, <3>2, <3>3 DEF SlotWritten, Continues
  <2>5. mem' = [a \in DOMAIN mem |->
                  IF a \in list.address..list.address + p.count
                  THEN to + (a - list.address) ELSE mem[a]]
    <3>1. PICK c \in Components(disk, index) : Loads(disk, e, c)
      BY <1>6, WalkFacts
    <3>2. /\ LoadedOf(c) + 0 + 1 \in DOMAIN c.blocks
          /\ c.blocks[LoadedOf(c) + 0 + 1] = to + 0
          /\ to \in Nat
      BY <2>3, <2>4, <3>1
    <3>3. to < WORD \div 2
      BY <3>1, <3>2 DEF Reached, InReach
    <3>4. LoadBlock(disk, s, to) = to
      BY <3>2, <3>3, BelowInt
    <3>5. QED
      BY <2>1, <3>4 DEF LoadChunk
  <2>6. ASSUME NEW c \in Components(disk, index), Loads(disk, e, c)
        PROVE  /\ NothingElse => NothingElse'
               /\ \A d \in Components(disk, index) :
                    \A m \in 0..Len(d.blocks) : InPlace(d, m) => InPlace(d, m)'
               /\ \A m : m = LoadedOf(c) + p.count + 1 => InPlace(c, m)'
    <3>1. PICK n \in Nat : n = LoadedOf(c)
      BY <2>4, <2>6
    <3>2. PICK count \in Nat : count = p.count
      BY <2>3
    <3>3. PICK b : b = to
      OBVIOUS
    <3>4. /\ list.address = c.address + n /\ InPlace(c, n)
          /\ \A k \in 0..count : /\ n + k + 1 \in DOMAIN c.blocks
                                 /\ c.blocks[n + k + 1] = b + k
      BY <2>4, <2>6, <3>1, <3>2, <3>3
    <3>5. mem' = [a \in DOMAIN mem |->
                    IF a \in list.address..list.address + count
                    THEN b + (a - list.address) ELSE mem[a]]
      BY <2>5, <3>2, <3>3
    <3>6. QED
      BY <1>1, <3>1, <3>2, <3>4, <3>5, ChunkKeepsPlaces
  <2>7. PICK c \in Components(disk, index) : Loads(disk, e, c)
    BY <1>6, WalkFacts
  <2>8. NothingElse'
    BY <1>1, <2>6, <2>7
  <2>9. Passed'
    <3>1. ASSUME NEW d \in Components(disk, index), InPlace(d, Len(d.blocks))
          PROVE  InPlace(d, Len(d.blocks))'
      <4>1. Len(d.blocks) \in 0..Len(d.blocks)
        BY ComponentIsWritten
      <4>2. QED
        BY <2>6, <2>7, <3>1, <4>1
    <3>2. QED
      BY <1>1, <1>2, <2>1, <3>1 DEF Passed
  <2>10. ASSUME NEW d \in Components(disk, index), Loads(disk, e, d)
         PROVE  /\ LoadedOf(d)' = LoadedOf(d) + p.count + 1
                /\ InPlace(d, LoadedOf(d))' /\ AtSlot(d)'
    <3>1. LoadedOf(d)' = LoadedOf(d) + p.count + 1
      <4>1. LoadedOf(d)' = list'.address - d.address
        BY DEF LoadedOf
      <4>2. QED
        BY <2>2, <2>3, <2>4, <2>10, <4>1
    <3>2. \A m : m = LoadedOf(d) + p.count + 1 => InPlace(d, m)'
      BY <2>4, <2>6, <2>10
    <3>3. AtSlot(d)'
      BY <1>1, <2>2, <2>3, <2>4, <2>10, <3>1 DEF AtSlot
    <3>4. QED
      BY <3>1, <3>2, <3>3 DEF InPlace
  <2>11. Loading'
    BY <1>1, <1>2, <2>1, <2>2, <2>3, <2>10 DEF Loading
  <2>12. QED
    BY <1>1, <2>1, <2>8, <2>9, <2>11
       DEF Memory, Running, EckdSteps, ScriptSteps, LoadedWhole
<1>7. QED
  BY <1>3, <1>4, <1>5, <1>6

-----------------------------------------------------------------------------
MapIInv == Numbers /\ Layout /\ Memory /\ Scan

LEMMA StutterKeepsMap == ASSUME MapIInv, UNCHANGED mapVars PROVE MapIInv'
<1>1. ScriptHeld' = ScriptHeld /\ TheScript' = TheScript
      /\ CurrentList' = CurrentList
  BY DEF mapVars, ScriptHeld, TheScript, CurrentList
<1>2. Numbers' /\ Layout' /\ Scan'
  BY <1>1 DEF MapIInv, mapVars, Numbers, MapTypeOK, Layout, Scan, MenuWhole,
              Stage2At
<1>3. NothingElse' = NothingElse /\ Passed' = Passed /\ Loading' = Loading
  BY <1>1 DEF mapVars, NothingElse, Passed, Loading, InPlace, LoadedOf, AtList,
              AtSlot
<1>4. LoadedWhole' = LoadedWhole /\ Reached' = Reached
  BY DEF mapVars, LoadedWhole, Reached, InReach, Image, BlocksAt
<1>5. Memory'
  BY <1>3, <1>4 DEF MapIInv, mapVars, Memory
<1>6. QED
  BY <1>2, <1>5 DEF MapIInv

LEMMA MapInvariance == MapSpec => []MapIInv
<1>1. MapInit => MapIInv
  BY InitNumbers, InitLayout, InitMemory, InitScan DEF MapIInv
<1>2. ASSUME MapIInv, [MapNext]_mapVars PROVE MapIInv'
  <2>1. CASE UNCHANGED mapVars
    BY <1>2, <2>1, StutterKeepsMap
  <2>2. CASE MapNext
    <3>1. Scan'
      BY <1>2, <2>2, ScanStage2Scan, OtherStepsScan DEF MapIInv
    <3>2. CASE FindingScript
      <4>1. Numbers' /\ Memory'
        BY <1>2, <3>2, FindingKeepsNumbers, FindingMemory DEF MapIInv
      <4>2. Layout'
        BY <1>2, <3>2, IplScsiLayout, ZiplRunLayout, IplEckdLayout, MenuLayout,
           ReadScriptLayout DEF MapIInv, FindingScript
      <4>3. QED
        BY <3>1, <4>1, <4>2 DEF MapIInv
    <3>3. CASE ScriptStep \/ ReadList \/ WalkList
      <4>1. Numbers'
        BY <1>2, <3>3, ScriptKeepsNumbers, ReadListKeepsNumbers,
           WalkKeepsNumbers DEF MapIInv
      <4>2. Layout'
        BY <1>2, <3>3, RunningLayout DEF MapIInv
      <4>3. Memory'
        BY <1>2, <3>3, OutOfReach, ScriptStepMemory, ReadListMemory,
           WalkListMemory DEF MapIInv
      <4>4. QED
        BY <3>1, <4>1, <4>2, <4>3 DEF MapIInv
    <3>4. CASE RunPastScript
      BY <1>2, <3>1, <3>4, PastScriptKeeps, RunningLayout DEF MapIInv
    <3>5. QED
      BY <2>2, <3>2, <3>3, <3>4 DEF MapNext, FindingScript
  <2>3. QED
    BY <1>2, <2>1, <2>2
<1>3. QED
  BY <1>1, <1>2, PTL DEF MapSpec

(* The walk over a boot map, on whatever disk, stays in the arrays of      *)
(* pointers and of seek arguments, and loads components only from entries  *)
(* of the script's buffer; past that buffer it is the step "wild".         *)
THEOREM MapTypeCorrect == MapSpec => []MapTypeOK
<1>1. MapIInv => MapTypeOK
  BY DEF MapIInv, Numbers
<1>2. QED
  BY <1>1, MapInvariance, PTL

(* A program that is started was the one asked for and is in memory whole, *)
(* each block in its place and nothing besides, for chains of any length   *)
(* and shape on any layout, as long as its blocks are below the largest    *)
(* int.                                                                    *)
THEOREM ProgramLoadedWhole == MapSpec => []LoadedWhole
<1>1. MapIInv => LoadedWhole
  BY DEF MapIInv, Memory
<1>2. QED
  BY <1>1, MapInvariance, PTL

(* When the menu is read, the buffers around the banner's block hold its   *)
(* neighbours in stage 2 and nothing else.                                 *)
THEOREM MenuIsWhole == MapSpec => []MenuWhole
<1>1. MapIInv => MenuWhole
  BY DEF MapIInv, Scan
<1>2. QED
  BY <1>1, MapInvariance, PTL
===============================================================================
