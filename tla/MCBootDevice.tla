----------------------------- MODULE MCBootDevice -----------------------------
(* Instances of BootDevice for TLC. *)
EXTENDS BootDevice

(* A SCSI disk, a DASD of 4096-byte blocks, a DASD through physical blocks, *)
(* a disk of 512-byte sectors with neither geometry, and one of physical    *)
(* blocks of 4096 bytes.                                                    *)
MCGeometries ==
  {<<255, 63, 512, 0>>, <<15, 12, 4096, 0>>, <<15, 12, 512, 3>>,
   <<16, 63, 512, 0>>, <<16, 63, 512, 3>>}
=============================================================================
