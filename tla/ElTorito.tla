------------------------------- MODULE ElTorito -------------------------------
(***************************************************************************)
(* Booting an ISO 9660 image (bootmap.c): the boot catalog is looked up in *)
(* the volume descriptors, an entry of it selected by the load parameter,  *)
(* the entry's file looked up in the directory tree to learn its size, and *)
(* the image loaded.                                                       *)
(*                                                                         *)
(* All of this works in one scratch buffer, sec: the catalog stands where  *)
(* the primary descriptor is read later, and one sector of it holds the    *)
(* piece of a directory that is being walked, whatever its level.          *)
(*                                                                         *)
(* Lengths and offsets are in arbitrary units, SECTOR of them a sector.    *)
(***************************************************************************)
EXTENDS Integers, Sequences, FiniteSets

CONSTANTS
  Images,      \* the images on the medium
  Loadparms,   \* load parameters, as numbers
  MAX_DEPTH,   \* ISO9660_MAX_DIR_DEPTH
  SECTOR,      \* ISO_SECTOR_SIZE
  WORD         \* the range of dir_rem and of sizes, 2^32

(* An image is [vds, valid, catalog, root, sectors]: the volume descriptors *)
(* from the primary one on; whether the catalog is valid, and its entries;  *)
(* the extent of the root directory, and for each sector of a directory the *)
(* records that begin in it, by their offsets.  The first two records of a  *)
(* directory are itself and its parent.                                     *)
Records == [len : 0 .. SECTOR, ext : Nat, size : 0 .. WORD - 1, dir : BOOLEAN]
Entries == [bootable : BOOLEAN, unused : BOOLEAN, count : Nat, magic : BOOLEAN, rba : Nat]

(* A record's length is a byte, its size four (bootmap.h:382, 385).         *)
ASSUME ElToritoAssumption ==
  /\ Loadparms \subseteq Nat
  /\ MAX_DEPTH \in Nat \ {0}
  /\ SECTOR \in Nat \ {0} /\ WORD \in Nat \ {0} /\ 2 * SECTOR <= WORD
ASSUME ImagesAssumption ==
  \A m \in Images :
    /\ Len(m.vds) \in Nat
    /\ Len(m.catalog) \in Nat /\ \A n \in 1 .. Len(m.catalog) : m.catalog[n] \in Entries
    /\ m.root \in Nat
    /\ \A n \in DOMAIN m.sectors :
         \A o \in DOMAIN m.sectors[n] : o \in Nat /\ m.sectors[n][o] \in Records

VARIABLES
  pc, img,
  asked,      \* the load parameter
  loadparm, i,      \* as in find_iso_bc_entry; i counts descriptors before
  sec,        \* what the first sector of sec holds: "vd", "catalog", "pvd"
  temp,       \* the sector whose content is at temp
  entry,      \* the catalog entry selected, or 0
  level, sec_loc, sec_offset, dir_rem,   \* as in iso_get_file_size
  size,       \* its result
  loaded      \* [rba, blocks] read as boot image, or NoImage

walk == <<temp, level, sec_loc, sec_offset, dir_rem>>
vars == <<pc, img, asked, loadparm, i, sec, entry, walk, size, loaded>>

NoImage == [rba |-> 0, blocks |-> 0]
Levels == 0 .. MAX_DEPTH - 1

TypeOK ==
  /\ pc \in {"vds", "catalog", "entries", "load", "walk", "image", "end", "panic"}
  /\ img \in Images /\ asked \in Loadparms /\ loadparm \in Nat /\ i \in Nat
  /\ sec \in {"vd", "catalog", "pvd"}
  /\ temp \in Nat
  /\ entry \in 0 .. Len(img.catalog)
  /\ level \in -1 .. MAX_DEPTH - 1
  /\ sec_loc \in [Levels -> Nat]
  /\ sec_offset \in [Levels -> 0 .. 2 * SECTOR]
  /\ dir_rem \in [Levels -> 0 .. WORD - 1]
  /\ size \in Nat
  /\ loaded \in [rba : Nat, blocks : Nat]

Init ==
  /\ img \in Images /\ asked \in Loadparms /\ loadparm = asked
  /\ pc = "vds" /\ i = 1 /\ sec = "vd" /\ temp = 0 /\ entry = 0
  /\ level = 0
  /\ sec_loc = [l \in Levels |-> 0]
  /\ sec_offset = [l \in Levels |-> 0]
  /\ dir_rem = [l \in Levels |-> 0]
  /\ size = 0 /\ loaded = NoImage

Panic == pc' = "panic"

-----------------------------------------------------------------------------
(* find_iso_bc and find_iso_bc_entry.                                      *)

(* A fault: the next descriptor is not moved on to.                        *)
FindBcStuck ==
  /\ pc = "vds"
  /\ i <= Len(img.vds)
  /\ IF img.vds[i] = "boot" THEN pc' = "catalog"
     ELSE IF img.vds[i] \in {"terminator", "invalid"} THEN pc' = "end" ELSE UNCHANGED pc
  /\ UNCHANGED <<img, asked, loadparm, i, sec, entry, walk, size, loaded>>

(* The boot record among the descriptors; reading past the medium panics.  *)
FindBc ==
  /\ pc = "vds"
  /\ \/ i > Len(img.vds) /\ (Panic \/ (i = 1 /\ pc' = "end")) /\ UNCHANGED i
     \/ /\ i <= Len(img.vds)
        /\ CASE img.vds[i] = "boot" -> pc' = "catalog" /\ UNCHANGED i
             [] img.vds[i] \in {"terminator", "invalid"} -> pc' = "end" /\ UNCHANGED i
             [] OTHER -> i' = i + 1 /\ UNCHANGED pc
  /\ UNCHANGED <<img, asked, loadparm, sec, entry, walk, size, loaded>>

ReadCatalog ==
  /\ pc = "catalog"
  /\ sec' = "catalog"
  /\ i' = 1
  /\ IF img.valid THEN pc' = "entries" ELSE Panic
  /\ UNCHANGED <<img, asked, loadparm, entry, walk, size, loaded>>

(* is_iso_bc_entry_compatible; it reads the image's first sector to temp.  *)
Compatible(e) == ~e.unused /\ e.count > 0 /\ e.magic

TryEntry ==
  /\ pc = "entries" /\ i <= Len(img.catalog)
  /\ LET e == img.catalog[i]
         hit == e.bootable /\ Compatible(e)
     IN IF hit /\ loadparm <= 1
        THEN pc' = "load" /\ entry' = i /\ UNCHANGED <<i, loadparm>>
        ELSE /\ i' = i + 1 /\ UNCHANGED <<pc, entry>>
             /\ loadparm' = IF hit THEN loadparm - 1 ELSE loadparm
  /\ UNCHANGED <<img, asked, sec, walk, size, loaded>>

NoEntry ==
  /\ pc = "entries" /\ i > Len(img.catalog)
  /\ Panic
  /\ UNCHANGED <<img, asked, loadparm, i, sec, entry, walk, size, loaded>>

-----------------------------------------------------------------------------
(* iso_get_file_size.                                                      *)

(* The record at an offset of a sector; none where padding begins.         *)
NoRecord == [len |-> 0, ext |-> 0, size |-> 0, dir |-> FALSE]
RecordAt(sector, o) ==
  IF o \in DOMAIN img.sectors[sector] THEN img.sectors[sector][o] ELSE NoRecord

Wrap(n) == IF n < 0 THEN n + WORD ELSE n

(* The entry selected, which sec no longer holds once the walk has begun.  *)
chosen == img.catalog[entry]

(* The entry is copied and the root directory taken from the descriptor.   *)
StartWalk ==
  /\ pc = "load"
  /\ sec' = "pvd"
  /\ level' = 0
  /\ sec_loc' = [sec_loc EXCEPT ![0] = img.root]
  /\ sec_offset' = [sec_offset EXCEPT ![0] = 0]
  /\ dir_rem' = [dir_rem EXCEPT ![0] = 0]
  /\ pc' = "walk"
  /\ UNCHANGED <<img, asked, loadparm, i, entry, temp, size, loaded>>

(* A directory is entered: its own record and its parent's are skipped.    *)
FirstRecords ==
  /\ pc = "walk" /\ level >= 0
  /\ sec_offset[level] = 0 /\ dir_rem[level] = 0
  /\ IF sec_loc[level] \notin DOMAIN img.sectors
     THEN Panic /\ UNCHANGED walk
     ELSE LET self == RecordAt(sec_loc[level], 0)
              parent == RecordAt(sec_loc[level], self.len)
          IN /\ temp' = sec_loc[level]
             /\ dir_rem' = [dir_rem EXCEPT ![level] =
                              Wrap(self.size - self.len - parent.len)]
             /\ sec_offset' = [sec_offset EXCEPT ![level] = self.len + parent.len]
             /\ UNCHANGED <<pc, level, sec_loc>>
  /\ UNCHANGED <<img, asked, loadparm, i, sec, entry, size, loaded>>

(* What the buffer holds when the loop looks at a record.                  *)
Buffer == IF sec_offset[level] = 0 THEN sec_loc[level] ELSE temp

(* The end of an iteration: a directory that is used up is left, and the   *)
(* sector of the one above read again.  Above the root, there is none: the *)
(* sector number is read from before the array, and the read may fail.     *)
(* A fault: the sector is not read again.                                  *)
LeaveNoReread(rem, here) ==
  IF rem # 0 THEN temp' = here /\ UNCHANGED <<pc, level>>
  ELSE level' = level - 1 /\ temp' = here /\ UNCHANGED pc

Leave(rem, here) ==
  IF rem # 0 THEN temp' = here /\ UNCHANGED <<pc, level>>
  ELSE /\ level' = level - 1
       /\ IF level > 0 THEN temp' = sec_loc[level - 1] /\ UNCHANGED pc
                       ELSE temp' = here /\ pc' \in {"walk", "panic"}

AtRecord ==
  /\ pc = "walk" /\ level >= 0
  /\ sec_offset[level] <= SECTOR
  /\ sec_offset[level] # 0 \/ dir_rem[level] # 0
  /\ Buffer \in DOMAIN img.sectors

(* The rest of the sector is padding, or there is none.  A fault: the      *)
(* padding is not counted.                                                 *)
NextSectorUncounted ==
  /\ AtRecord
  /\ RecordAt(Buffer, sec_offset[level]).len = 0 \/ sec_offset[level] = SECTOR
  /\ sec_offset' = [sec_offset EXCEPT ![level] = 0]
  /\ sec_loc' = [sec_loc EXCEPT ![level] = @ + 1]
  /\ UNCHANGED dir_rem
  /\ Leave(dir_rem[level], Buffer)
  /\ UNCHANGED <<img, asked, loadparm, i, sec, entry, size, loaded>>

NextSector ==
  /\ AtRecord
  /\ RecordAt(Buffer, sec_offset[level]).len = 0 \/ sec_offset[level] = SECTOR
  /\ LET rem == Wrap(dir_rem[level] - (SECTOR - sec_offset[level]))
     IN dir_rem' = [dir_rem EXCEPT ![level] = rem] /\ Leave(rem, Buffer)
  /\ sec_offset' = [sec_offset EXCEPT ![level] = 0]
  /\ sec_loc' = [sec_loc EXCEPT ![level] = @ + 1]
  /\ UNCHANGED <<img, asked, loadparm, i, sec, entry, size, loaded>>

BadOffset ==
  /\ pc = "walk" /\ level >= 0 /\ sec_offset[level] > SECTOR
  /\ Panic
  /\ UNCHANGED <<img, asked, loadparm, i, sec, entry, walk, size, loaded>>

(* The file is found.                                                      *)
Found ==
  /\ AtRecord
  /\ LET r == RecordAt(Buffer, sec_offset[level])
     IN r.len # 0 /\ sec_offset[level] # SECTOR /\ r.ext = chosen.rba /\ size' = r.size
  /\ pc' = "image"
  /\ UNCHANGED <<img, asked, loadparm, i, sec, entry, walk, loaded>>

(* Another record is passed, and a directory entered unless it is too deep.*)
(* A fault: one level more.                                                *)
MayEnterTooDeep(r) == r.dir /\ level < MAX_DEPTH
MayEnter(r) == r.dir /\ level < MAX_DEPTH - 1

Pass ==
  /\ AtRecord
  /\ LET r == RecordAt(Buffer, sec_offset[level])
         rem == Wrap(dir_rem[level] - r.len)
     IN /\ r.len # 0 /\ sec_offset[level] # SECTOR /\ r.ext # chosen.rba
        /\ IF MayEnter(r)
           THEN /\ level' = level + 1
                /\ sec_loc' = [sec_loc EXCEPT ![level + 1] = r.ext]
                /\ sec_offset' = [sec_offset EXCEPT ![level] = @ + r.len,
                                                    ![level + 1] = 0]
                /\ dir_rem' = [dir_rem EXCEPT ![level] = rem, ![level + 1] = 0]
                /\ temp' = Buffer /\ UNCHANGED pc
           ELSE /\ sec_offset' = [sec_offset EXCEPT ![level] = @ + r.len]
                /\ dir_rem' = [dir_rem EXCEPT ![level] = rem]
                /\ Leave(rem, Buffer) /\ UNCHANGED sec_loc
  /\ UNCHANGED <<img, asked, loadparm, i, sec, entry, size, loaded>>

(* A directory's sector cannot be read.                                    *)
ReadFails ==
  /\ pc = "walk" /\ level >= 0
  /\ sec_offset[level] = 0 /\ dir_rem[level] # 0
  /\ sec_loc[level] \notin DOMAIN img.sectors
  /\ Panic
  /\ UNCHANGED <<img, asked, loadparm, i, sec, entry, walk, size, loaded>>

NotFound ==
  /\ pc = "walk" /\ level < 0
  /\ pc' = "image" /\ size' = 0
  /\ UNCHANGED <<img, asked, loadparm, i, sec, entry, walk, loaded>>

-----------------------------------------------------------------------------
(* load_iso_bc_entry.                                                      *)

Ceiling(n) == ((n + SECTOR - 1) % WORD) \div SECTOR

LoadImage ==
  /\ pc = "image"
  /\ loaded' = [rba |-> chosen.rba,
                blocks |-> IF size # 0 THEN Ceiling(size) ELSE chosen.count \div 4]
  /\ pc' = "end"
  /\ UNCHANGED <<img, asked, loadparm, i, sec, entry, walk, size>>

Next ==
  \/ FindBc \/ ReadCatalog \/ TryEntry \/ NoEntry
  \/ StartWalk \/ FirstRecords \/ NextSector \/ BadOffset \/ Found \/ Pass
  \/ ReadFails \/ NotFound
  \/ LoadImage

Spec == Init /\ [][Next]_vars
FairSpec == Spec /\ WF_vars(Next)

-----------------------------------------------------------------------------
(* What is on an image m.                                                  *)

(* The sectors of the directory that begins at d, and the records in it    *)
(* other than its own and its parent's.                                    *)
DirSize(m, d) == m.sectors[d][0].size
DirSectors(m, d) == d .. d + DirSize(m, d) \div SECTOR - 1
Heads(m, d) == {0, m.sectors[d][0].len}
Places(m, d, n) == DOMAIN m.sectors[n] \ (IF n = d THEN Heads(m, d) ELSE {})
Contents(m, d) ==
  UNION {{m.sectors[n][o] : o \in Places(m, d, n)} : n \in DirSectors(m, d)}
Subdirs(m, d) == {r.ext : r \in {q \in Contents(m, d) : q.dir}}

(* The directories at each depth the walk goes down to.                    *)
Dirs(m) ==
  LET dirs[n \in Levels] ==
        IF n = 0 THEN {m.root} ELSE UNION {Subdirs(m, d) : d \in dirs[n - 1]}
  IN dirs
Visible(m) == UNION {Contents(m, d) : d \in UNION {Dirs(m)[n] : n \in Levels}}

(* ISO 9660: a directory is a whole number of sectors, no record goes      *)
(* across the end of one, and the records of a sector follow one another   *)
(* from its beginning.                                                     *)
SoundSector(recs) ==
  /\ DOMAIN recs # {} => 0 \in DOMAIN recs
  /\ \A o \in DOMAIN recs :
       /\ recs[o].len > 0 /\ o + recs[o].len <= SECTOR
       /\ \A p \in DOMAIN recs :
            p > o => p >= o + recs[o].len /\ o + recs[o].len \in DOMAIN recs
SoundDir(m, d) ==
  /\ d \in DOMAIN m.sectors /\ 0 \in DOMAIN m.sectors[d]
  /\ m.sectors[d][0].len \in DOMAIN m.sectors[d]
  /\ DirSize(m, d) > 0 /\ DirSize(m, d) % SECTOR = 0
  /\ \A n \in DirSectors(m, d) : n \in DOMAIN m.sectors /\ SoundSector(m.sectors[n])
Sound(m) ==
  /\ SoundDir(m, m.root)
  /\ \A n \in 1 .. MAX_DEPTH - 1 :
       (\A k \in 0 .. n - 1 : \A d \in Dirs(m)[k] : SoundDir(m, d)) =>
         \A d \in Dirs(m)[n] : SoundDir(m, d)

-----------------------------------------------------------------------------
(* Properties.                                                             *)

(* On every level the walk has begun, where it stands and what remains add *)
(* up to the end of one directory of that depth: the counters, of which    *)
(* dir_rem is unsigned and ends the directory at 0 only, never lose step,  *)
(* neither at padding nor on the way back from a subdirectory.             *)
Accounting ==
  pc = "walk" /\ Sound(img) =>
    \A l \in 0 .. level :
      sec_offset[l] # 0 \/ dir_rem[l] # 0 =>
        \E d \in Dirs(img)[l] :
          /\ sec_loc[l] >= d
          /\ sec_loc[l] * SECTOR + sec_offset[l] + dir_rem[l]
               = d * SECTOR + DirSize(img, d)

(* The size found is that of a file at the entry's address, and none is    *)
(* missed that the depth limit allows for.                                 *)
FileSizeRight ==
  pc = "image" /\ Sound(img) =>
    LET same == {r \in Visible(img) : r.ext = chosen.rba}
    IN IF same = {} THEN size = 0 ELSE \E r \in same : size = r.size

(* The load parameter counts the entries that can be booted, and 0 stands  *)
(* for the first.  The image loaded is the chosen entry's, and the whole   *)
(* of the file, although the walk has used the buffer it was found in; but *)
(* the last sector below 2^32 is lost to rounding up in 32 bits.           *)
EntryIsTheOne ==
  /\ pc \in {"load", "walk", "image"} =>
       /\ chosen.bootable /\ Compatible(chosen)
       /\ LET upto == {n \in 1 .. entry :
                         img.catalog[n].bootable /\ Compatible(img.catalog[n])}
          IN Cardinality(upto) = IF asked = 0 THEN 1 ELSE asked
  /\ loaded # NoImage =>
       /\ loaded.rba = chosen.rba
       /\ size + SECTOR <= WORD => loaded.blocks * SECTOR >= size

(* So the image started is the one asked for, and is all there.            *)
RightImage == EntryIsTheOne /\ FileSizeRight

(* Whatever else is on the medium, the walk and the searches end, unless a *)
(* directory is all zeros: its size is then 0 again after its own record   *)
(* and its parent's have been skipped, and they are skipped again, for ever.*)
Blank(n) == RecordAt(n, 0).len = 0 /\ RecordAt(n, 0).size = 0
Ends == (\A n \in DOMAIN img.sectors : ~ Blank(n)) => <>(pc \in {"end", "panic"})
=============================================================================
