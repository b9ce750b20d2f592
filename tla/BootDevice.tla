------------------------------ MODULE BootDevice ------------------------------
(***************************************************************************)
(* From main to a loaded boot program: the search for the boot device      *)
(* (main.c), the virtio set-up of each candidate (virtio.c,                *)
(* virtio-blkdev.c, virtio-scsi.c) and the order of the boot schemes       *)
(* (bootmap.c, zipl_load).  When no device was specified, one device after *)
(* another is set up in the same global vdev until one of them boots.      *)
(*                                                                         *)
(* What a subchannel holds is chosen when it is looked at.  A failing      *)
(* channel program or SCSI command panics nearly everywhere; that is the   *)
(* action Fails.  What is on the disk is abstracted to whether a scheme    *)
(* returns, boots or panics.  The console, the boot menu and the device    *)
(* addresses' contents are left out.                                       *)
(***************************************************************************)
EXTENDS Integers

CONSTANTS
  MaxSch,       \* the subchannels of a set are 0 .. MaxSch - 1, at most
  Geometries,   \* <<heads, sectors, blk_size, physical_block_exp>> reported
  Limits,       \* maximum transfer lengths SCSI devices report, 0 for none
  BlockLengths, \* block lengths SCSI devices report
  MAX_SECTORS   \* VIRTIO_SCSI_MAX_SECTORS

ASSUME BootAssumption ==
  /\ MaxSch \in Nat
  /\ Geometries \subseteq Nat \X Nat \X Nat \X Nat
  /\ Limits \subseteq Nat /\ BlockLengths \subseteq Nat
  /\ MAX_SECTORS \in Nat \ {0}

VARIABLES
  pc,       \* what the firmware is about to do
  iplb,     \* what store_iplb found: "none", or its type
  schid,    \* blk_schid: [ssid, sch]
  cutype,   \* control unit type of the last subchannel sensed
  vdev,     \* the global VDev
  dev,      \* the device at schid, or NoDevice
  retries,  \* retry_test_unit_ready
  via,      \* how the boot program was loaded, or "none"
  guessedFor  \* history: the subchannel whose disk nature was guessed

vars == <<pc, iplb, schid, cutype, vdev, dev, retries, via, guessedFor>>

Models == {"net", "block", "scsi", "other"}
Natures == {"none", "scsi", "dasd"}
SchIds == [ssid : 0 .. 3, sch : 0 .. MaxSch]

NoDevice == [cu |-> "none", model |-> "other", geometry |-> <<0, 0, 0, 0>>,
             cdrom |-> FALSE, page |-> FALSE, limit |-> 0, blocklen |-> 0]

(* Devices that are no disks of ours, and disks of a reported geometry.  A *)
(* SCSI device may be a CD-ROM, report its limits ("page"), and has blocks *)
(* of whatever length its capacity says.                                   *)
Plain == {[NoDevice EXCEPT !.cu = c] : c \in {"invalid", "dasd", "unknown"}}
NoDisks == {[NoDevice EXCEPT !.cu = "virtio", !.model = m] : m \in {"net", "other"}}
Disks ==
  {[NoDevice EXCEPT !.cu = "virtio", !.model = "block", !.geometry = g] :
     g \in Geometries}
ScsiDevices ==
  [cu : {"virtio"}, model : {"scsi"}, geometry : {NoDevice.geometry},
   cdrom : BOOLEAN, page : BOOLEAN, limit : Limits, blocklen : BlockLengths]
Devices == Plain \cup NoDisks \cup Disks \cup ScsiDevices

VDevs == [schid : SchIds, model : Models, nature : Natures,
          geometry : Nat \X Nat \X Nat \X Nat, isCdrom : BOOLEAN,
          scsiBlockSize : Nat, factor : {1, 4}, maxTransfer : 0 .. MAX_SECTORS,
          selected : BOOLEAN,
          netboot : BOOLEAN]

PCs == {"start", "find", "probe", "ipl", "net", "locate", "ready", "inquire",
        "load", "scsi", "iso", "cdrom", "eckd", "next", "booted", "panic"}

TypeOK ==
  /\ pc \in PCs
  /\ iplb \in {"none", "ccw", "scsi", "other"}
  /\ schid \in SchIds
  /\ cutype \in {"none", "dasd", "virtio", "unknown"}
  /\ vdev \in VDevs
  /\ dev \in Devices \cup {NoDevice}
  /\ retries \in 0 .. 3
  /\ via \in {"none", "dasd", "net", "zipl", "iso", "eckd"}
  /\ guessedFor \in SchIds

Init ==
  /\ pc = "start" /\ iplb = "none" /\ cutype = "none"
  /\ schid = [ssid |-> 0, sch |-> 0]
  /\ vdev = [schid |-> schid, model |-> "other", nature |-> "none",
             geometry |-> <<0, 0, 0, 0>>, isCdrom |-> FALSE,
             scsiBlockSize |-> 512, factor |-> 1, maxTransfer |-> 0,
             selected |-> FALSE, netboot |-> FALSE]
  /\ dev = NoDevice
  /\ retries = 0 /\ via = "none"
  /\ guessedFor = schid

-----------------------------------------------------------------------------
(* The getters of virtio-blkdev.c, on a VDev.                              *)

heads(v) == v.geometry[1]
sectors(v) == v.geometry[2]

virtio_eckd_sectors_for_block_size(size) ==
  CASE size = 512 -> 49 [] size = 1024 -> 33
    [] size = 2048 -> 21 [] size = 4096 -> 12 [] OTHER -> 0

virtio_get_block_size(v) ==
  CASE v.model = "block" -> v.geometry[3] * 2^v.geometry[4]
    [] v.model = "scsi" -> v.scsiBlockSize
    [] OTHER -> 0

virtio_disk_is_scsi(v) ==
  \/ v.nature = "scsi"
  \/ v.model = "block" /\ heads(v) = 255 /\ sectors(v) = 63
       /\ virtio_get_block_size(v) = 512
  \/ v.model = "scsi"

virtio_disk_is_eckd(v) ==
  \/ v.nature = "dasd"
  \/ v.model = "block" /\ heads(v) = 15
       /\ sectors(v) = virtio_eckd_sectors_for_block_size(virtio_get_block_size(v))

virtio_ipl_disk_is_valid(v) == virtio_disk_is_scsi(v) \/ virtio_disk_is_eckd(v)

virtio_assume_scsi(v) ==
  IF v.model = "block"
  THEN [v EXCEPT !.nature = "scsi", !.factor = 1,
                 !.geometry = <<heads(v), sectors(v), 512, 0>>]
  ELSE [v EXCEPT !.scsiBlockSize = 512]

(* A fault: the block factor is forgotten.                                 *)
AssumeIsoNoFactor(v) ==
  [v EXCEPT !.nature = "scsi", !.geometry = <<heads(v), sectors(v), 2048, 0>>]

virtio_assume_iso9660(v) ==
  IF v.model = "block"
  THEN [v EXCEPT !.nature = "scsi", !.factor = 4,
                 !.geometry = <<heads(v), sectors(v), 2048, 0>>]
  ELSE [v EXCEPT !.scsiBlockSize = 2048]

(* The geometry guessed for a block size.                                  *)
EckdGeometry(size) == <<15, virtio_eckd_sectors_for_block_size(size), size, 0>>
virtio_assume_eckd(v) ==
  [v EXCEPT !.nature = "dasd", !.factor = 1,
            !.geometry = EckdGeometry(IF v.model = "block" THEN 4096
                                                           ELSE v.scsiBlockSize)]

MinNonZero(a, b) == IF a = 0 THEN b ELSE IF b = 0 \/ a <= b THEN a ELSE b

-----------------------------------------------------------------------------
(* main.c: the search for a device.                                        *)

Panic == pc' = "panic"

(* boot_setup, and find_boot_device up to its search.                      *)
BootSetup ==
  /\ pc = "start"
  /\ \E t \in {"none", "ccw", "scsi", "other"}, s \in 0 .. 3 :
       /\ iplb' = t
       /\ schid' = IF t \in {"ccw", "scsi"} THEN [schid EXCEPT !.ssid = s]
                                            ELSE schid
       /\ vdev' = [vdev EXCEPT !.selected = t = "scsi"]
       /\ pc' = CASE t = "none" -> "probe"
                  [] t = "other" -> "panic"
                  [] OTHER -> "find"
  /\ UNCHANGED <<cutype, dev, retries, via, guessedFor>>

(* The next subchannel, which is looked at with the global blk_schid.      *)
Advance == schid' = [schid EXCEPT !.sch = @ + 1]

(* Sense id, done for every valid device, whether it is wanted or not: it  *)
(* also fills in vdev.                                                     *)
Sense(d) ==
  /\ cutype' = d.cu
  /\ vdev' = [vdev EXCEPT !.schid = schid, !.model = d.model]

(* virtio_is_supported may also fail on a virtio device.                   *)
Supported(d) == d.cu = "virtio" /\ d.model # "other"

PossiblyBootable(d) == d.cu = "dasd" \/ (Supported(d) /\ d.model # "net")

(* is_dev_possibly_bootable finds a subchannel, in find_subch for the      *)
(* device asked for ("wanted") or in probe_boot_device.                    *)
Examine ==
  /\ pc \in {"find", "probe"} /\ schid.sch < MaxSch
  /\ \E d \in Devices, wanted \in BOOLEAN :
       IF d.cu = "invalid"
       THEN Advance /\ dev' = d /\ UNCHANGED <<pc, cutype, vdev>>
       ELSE /\ dev' = d
            /\ Sense(d)
            /\ IF (pc = "find" /\ wanted) \/ (pc = "probe" /\ PossiblyBootable(d))
               THEN pc' = "ipl" /\ UNCHANGED schid
               ELSE Advance /\ UNCHANGED pc
  /\ UNCHANGED <<iplb, retries, via, guessedFor>>

(* Sense id fails in virtio_is_supported: not bootable, unless asked for.  *)
ExamineFails ==
  /\ pc \in {"find", "probe"} /\ schid.sch < MaxSch
  /\ \E d \in {e \in Devices : e.cu = "virtio"}, wanted \in BOOLEAN :
       /\ dev' = d
       /\ cutype' = d.cu
       /\ vdev' = [vdev EXCEPT !.schid = schid, !.model = "other"]
       /\ IF pc = "find" /\ wanted THEN pc' = "ipl" /\ UNCHANGED schid
                                   ELSE Advance /\ UNCHANGED pc
  /\ UNCHANGED <<iplb, retries, via, guessedFor>>

(* There is no such subchannel: the set has been searched.  A fault: too   *)
(* many sets are.                                                          *)
NoMoreTooMany ==
  /\ pc \in {"find", "probe"}
  /\ IF pc = "find" \/ schid.ssid > 3
     THEN Panic /\ UNCHANGED schid
     ELSE schid' = [ssid |-> schid.ssid + 1, sch |-> 0] /\ UNCHANGED pc
  /\ UNCHANGED <<iplb, cutype, vdev, dev, retries, via, guessedFor>>

NoMore ==
  /\ pc \in {"find", "probe"}
  /\ IF pc = "find" \/ schid.ssid >= 2
     THEN Panic /\ UNCHANGED schid
     ELSE schid' = [ssid |-> schid.ssid + 1, sch |-> 0] /\ UNCHANGED pc
  /\ UNCHANGED <<iplb, cutype, vdev, dev, retries, via, guessedFor>>

-----------------------------------------------------------------------------
(* Setting up the device found.                                            *)

Boot(how) == pc' = "booted" /\ via' = how

(* A fault: the nature guessed for the device before is kept.              *)
SetupKeepsNature(v) ==
  [v EXCEPT !.geometry = IF v.model = "block" THEN dev.geometry ELSE <<0, 0, 0, 0>>]

(* virtio_setup_ccw: reset, and the configuration read anew.  The SCSI     *)
(* configuration takes the place of the block device's in the union.       *)
virtio_setup_ccw(v) ==
  [v EXCEPT !.nature = "none",
            !.geometry = IF v.model = "block" THEN dev.geometry ELSE <<0, 0, 0, 0>>]

(* virtio_blk_setup_device, up to the set-up of a SCSI device.             *)
SetupDisk ==
  LET v == virtio_setup_ccw([vdev EXCEPT !.schid = schid, !.model = dev.model])
      blank == [v EXCEPT !.geometry = <<0, 0, 0, 0>>]
  IN \/ /\ dev.model = "block"
        /\ vdev' = IF virtio_ipl_disk_is_valid(v) THEN v ELSE virtio_assume_scsi(blank)
        /\ guessedFor' = IF vdev'.nature # "none" THEN schid ELSE guessedFor
        /\ pc' = "load" /\ UNCHANGED via
     \/ /\ dev.model = "scsi"
        /\ vdev' = v
        /\ pc' = "locate" /\ UNCHANGED <<via, guessedFor>>
     \/ /\ dev.model \in {"net", "other"}
        /\ Panic /\ UNCHANGED <<vdev, via, guessedFor>>

(* ipl_boot_device.  virtio_setup looks at the model sensed before, and     *)
(* virtio_setup_ccw senses again.                                          *)
IplBootDevice ==
  /\ pc = "ipl"
  /\ \/ /\ cutype = "dasd"
        /\ Boot("dasd") \/ (Panic /\ UNCHANGED via)
        /\ UNCHANGED <<vdev, guessedFor>>
     \/ cutype = "unknown" /\ Panic /\ UNCHANGED <<vdev, via, guessedFor>>
     \/ /\ cutype = "virtio" /\ vdev.model = "net"
        /\ vdev' = [vdev EXCEPT !.netboot = iplb # "none"]
        /\ pc' = "load" /\ UNCHANGED <<via, guessedFor>>
     \/ cutype = "virtio" /\ vdev.model # "net" /\ SetupDisk
  /\ UNCHANGED <<iplb, schid, cutype, dev, retries>>

(* virtio_scsi_locate_device: the one selected, or the first found.        *)
Locate ==
  /\ pc = "locate"
  /\ pc' = "ready" \/ (~vdev.selected /\ pc' = "next")
  /\ retries' = 3
  /\ UNCHANGED <<iplb, schid, cutype, vdev, dev, via, guessedFor>>

(* The ping of virtio_scsi_setup: the device is ready ...                  *)
Ready ==
  /\ pc = "ready"
  /\ pc' = "inquire"
  /\ UNCHANGED <<iplb, schid, cutype, vdev, dev, retries, via, guessedFor>>

(* ... or not yet.                                                         *)
Attention ==
  /\ pc = "ready"
  /\ IF retries > 0 THEN retries' = retries - 1 /\ UNCHANGED pc
                    ELSE Panic /\ UNCHANGED retries
  /\ UNCHANGED <<iplb, schid, cutype, vdev, dev, via, guessedFor>>

(* The limit a device asks for; one that has no page of limits leaves the  *)
(* one of the device before.                                               *)
Limit(v) == MinNonZero(MAX_SECTORS, IF dev.page THEN dev.limit ELSE v.maxTransfer)

(* The inquiries and the capacity.                                         *)
Inquire ==
  /\ pc = "inquire"
  /\ vdev' = [vdev EXCEPT !.isCdrom = @ \/ dev.cdrom,
                          !.maxTransfer = Limit(vdev),
                          !.scsiBlockSize = dev.blocklen]
  /\ pc' = "load"
  /\ UNCHANGED <<iplb, schid, cutype, dev, retries, via, guessedFor>>

-----------------------------------------------------------------------------
(* zipl_load.                                                              *)

(* A network device is jumped to, everything else read.                    *)
Load ==
  /\ pc = "load"
  /\ \/ vdev.isCdrom /\ pc' = "cdrom" /\ UNCHANGED via
     \/ ~vdev.isCdrom /\ vdev.model = "net" /\ Boot("net")
     \/ ~vdev.isCdrom /\ vdev.model # "net" /\ pc' = "scsi" /\ UNCHANGED via
  /\ UNCHANGED <<iplb, schid, cutype, vdev, dev, retries, guessedFor>>

(* ipl_scsi; if it returns, zipl_load_vblk or zipl_load_vscsi begins.      *)
IplScsi ==
  /\ pc = "scsi"
  /\ \/ /\ Boot("zipl") \/ (Panic /\ UNCHANGED via)
        /\ UNCHANGED <<vdev, guessedFor>>
     \/ /\ vdev.model = "block" /\ pc' = "iso"
        /\ vdev' = IF vdev.nature # "none" THEN virtio_assume_iso9660(vdev) ELSE vdev
        /\ UNCHANGED <<via, guessedFor>>
     \/ /\ vdev.model = "scsi" /\ virtio_get_block_size(vdev) = 2048
        /\ pc' = "iso" /\ UNCHANGED <<vdev, via, guessedFor>>
     \/ /\ vdev.model = "scsi" /\ virtio_get_block_size(vdev) # 2048
        /\ pc' = "eckd" /\ vdev' = virtio_assume_eckd(vdev)
        /\ guessedFor' = schid /\ UNCHANGED via
  /\ UNCHANGED <<iplb, schid, cutype, dev, retries>>

(* ipl_iso_el_torito; what follows it on a disk.                           *)
IplIso ==
  /\ pc = "iso"
  /\ \/ /\ Boot("iso") \/ (Panic /\ UNCHANGED via)
        /\ UNCHANGED <<vdev, guessedFor>>
     \/ /\ pc' = "eckd" /\ UNCHANGED via
        /\ IF vdev.nature # "none" \/ vdev.model = "scsi"
           THEN vdev' = virtio_assume_eckd(vdev) /\ guessedFor' = schid
           ELSE UNCHANGED <<vdev, guessedFor>>
  /\ UNCHANGED <<iplb, schid, cutype, dev, retries>>

(* On a CD-ROM there is nothing else to try.                               *)
IplCdrom ==
  /\ pc = "cdrom"
  /\ Boot("iso") \/ (Panic /\ UNCHANGED via)
  /\ UNCHANGED <<iplb, schid, cutype, vdev, dev, retries, guessedFor>>

IplEckd ==
  /\ pc = "eckd"
  /\ Boot("eckd") \/ (pc' \in {"panic", "next"} /\ UNCHANGED via)
  /\ UNCHANGED <<iplb, schid, cutype, vdev, dev, retries, guessedFor>>

(* Back in main or in probe_boot_device.                                   *)
NextDevice ==
  /\ pc = "next"
  /\ IF iplb = "none" THEN pc' = "probe" /\ Advance ELSE Panic /\ UNCHANGED schid
  /\ UNCHANGED <<iplb, cutype, vdev, dev, retries, via, guessedFor>>

(* A channel program or a SCSI command fails.                              *)
Fails ==
  /\ pc \in {"find", "probe", "ipl", "locate", "ready", "inquire"}
  /\ pc = "ipl" => cutype = "virtio" /\ vdev.model # "net"
  /\ Panic
  /\ UNCHANGED <<iplb, schid, cutype, vdev, dev, retries, via, guessedFor>>

Next ==
  \/ BootSetup \/ Examine \/ ExamineFails \/ NoMore
  \/ IplBootDevice \/ Locate \/ Ready \/ Attention \/ Inquire
  \/ Load \/ IplScsi \/ IplIso \/ IplCdrom \/ IplEckd \/ NextDevice
  \/ Fails

Spec == Init /\ [][Next]_vars

-----------------------------------------------------------------------------
(* Properties.                                                             *)

SettingUp == pc \in {"locate", "ready", "inquire"}
Reading == pc \in {"scsi", "iso", "cdrom", "eckd"}

(* Whatever was looked at on the way, what is set up, read and booted is   *)
(* the device at the subchannel that is reported to the program booted     *)
(* (write_subsystem_identification), and it is the device vdev describes.  *)
DeviceSensed ==
  /\ pc = "ipl" \/ SettingUp \/ Reading \/ pc \in {"load", "booted"} =>
       vdev.schid = schid /\ cutype = dev.cu
  /\ SettingUp \/ Reading \/ pc \in {"load", "booted"} => vdev.model = dev.model

(* A guess of the disk's nature is made whole: block size, block factor    *)
(* and geometry belong together, and a block device is searched for an ISO *)
(* image in sectors of 2048 bytes.  The geometry of a DASD is the one for  *)
(* its own block length: none, with no sectors and no valid address, where *)
(* a SCSI disk reports a length DASDs do not have.  virtio_scsi_read_many  *)
(* reads blk_factor times what it is asked for, so that it has to be 1 on  *)
(* a SCSI disk although a block device tried before has had it at 4.       *)
GuessIsWhole ==
  Reading =>
    /\ vdev.nature = "scsi" /\ vdev.model = "block" =>
         virtio_get_block_size(vdev) = 512 * vdev.factor
    /\ vdev.nature # "none" /\ pc = "iso" /\ vdev.model = "block" =>
         virtio_get_block_size(vdev) = 2048
    /\ vdev.nature = "dasd" =>
         /\ virtio_get_block_size(vdev) =
              IF vdev.model = "block" THEN 4096 ELSE dev.blocklen
         /\ heads(vdev) = 15
         /\ sectors(vdev) =
              virtio_eckd_sectors_for_block_size(virtio_get_block_size(vdev))
    /\ vdev.model = "scsi" => vdev.factor = 1

(* And it is never one that was made for a device tried before.            *)
GuessIsForThis == Reading /\ vdev.nature # "none" => guessedFor = schid

(* is_cdrom is never reset; it is nevertheless never true of a device that *)
(* is no CD-ROM.                                                           *)
CdromIsThis == Reading \/ pc = "load" => (vdev.isCdrom => dev.cdrom)

(* A network device is only jumped to when QEMU has loaded a loader for it.*)
NetBootHasLoader == via = "net" => vdev.netboot

(* Transfers are bounded.  A device that reports its limit has that one;   *)
(* one that does not may have a lower limit than the loader's, left by a   *)
(* device before, and is read in shorter transfers for it.                 *)
TransferFits ==
  Reading /\ vdev.model = "scsi" =>
    /\ vdev.maxTransfer \in 1 .. MAX_SECTORS
    /\ dev.page => vdev.maxTransfer = MinNonZero(MAX_SECTORS, dev.limit)

(* One vdev serves all the devices that are looked at in turn; nothing     *)
(* that is read, set up or booted goes by what one tried before has left   *)
(* in it, except that transfers to a device without a limit of its own may *)
(* be as short as an earlier one asked for.                                *)
OnlyLimitInherited ==
  /\ DeviceSensed
  /\ GuessIsForThis
  /\ CdromIsThis
  /\ NetBootHasLoader
  /\ TransferFits
=============================================================================
