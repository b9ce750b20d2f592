------------------------------- MODULE MCBootMap -------------------------------
(* Instances of BootMap for TLC: disks are written the way zipl writes them *)
(* for each layout, then damaged in one place.  Tracks of three sectors,    *)
(* two heads; blocks of pointers have two or three slots, the last one for  *)
(* the end or the next block.  Of 64 blocks all numbers are below the       *)
(* largest int; larger disks have a component whose blocks are not.         *)
EXTENDS BootMap, TLC

MCMaxBprs == [scsi |-> 3, eckd |-> 6]
SmallDisk == 64

Chs(b) == [cylinder |-> b \div 6, head |-> (b \div 3) % 2, sector |-> (b % 3) + 1]
At(scheme, b) == IF scheme = "scsi" THEN b ELSE Chs(b)
Null(scheme) ==
  [at |-> IF scheme = "scsi" THEN 0
          ELSE [cylinder |-> 0, head |-> 0, sector |-> 0],
   sized |-> FALSE, count |-> 0]
Ptr(scheme, b, n) == [at |-> At(scheme, b), sized |-> TRUE, count |-> n - 1]

(* The chain of a component: lens, the lengths of its chunks, from the last *)
(* blocks of an area to the first ones.                                     *)
Start(lens, area, k) == area + 3 * (Len(lens) - k)
Chain(scheme, lens, area, per, base, next) ==
  LET n == Len(lens)
      last == (n - 1) \div (per - 1)
      Pointer(k) == Ptr(scheme, Start(lens, area, k), lens[k])
      Block(t) ==
        LET size == IF t < last THEN per - 1 ELSE n - t * (per - 1)
        IN [k \in 1..size |-> Pointer(t * (per - 1) + k)] \o
           <<IF t < last THEN Ptr(scheme, base + t + 1, next) ELSE Null(scheme)>>
  IN [b \in base..base + last |-> [kind |-> "list", slots |-> Block(b - base)]]

BlocksOf(lens, area) ==
  LET RECURSIVE From(_)
      From(k) == IF k > Len(lens) THEN <<>>
                 ELSE [i \in 1..lens[k] |-> Start(lens, area, k) + i - 1]
                        \o From(k + 1)
  IN From(1)

Before(lens, per, base) ==
  LET n == Len(lens)
      last == (n - 1) \div (per - 1)
      size(t) == IF t < last THEN per - 1 ELSE n - t * (per - 1)
  IN [b \in base..base + last |->
        [j \in 0..size(b - base) |->
           Len(BlocksOf(SubSeq(lens, 1, (b - base) * (per - 1) + j), 0))]]

LoadEntry(scheme, base, address) ==
  [type |-> "load", at |-> At(scheme, base), address |-> address]
Signature == [type |-> "signature"]
Exec(n) == [type |-> "exec", address |-> n]
Script(entries) == [kind |-> "script", entries |-> entries]

Label(magic) == [kind |-> "label", magic |-> magic]
BootInfo(kind, ok, s1b) ==
  [kind |-> kind, verified |-> ok, sized |-> ok, eckd |-> ok,
   bmt |-> Chs(3), s1b |-> Chs(s1b)]
FirstBlocks(layout, ok, s1b) ==
  CASE layout = "scsi" -> 0 :> [kind |-> "mbr", pt |-> IF ok THEN 3 ELSE 0]
    [] layout = "cdl" -> 0 :> [kind |-> "ipl1"] @@ 1 :> BootInfo("ipl2", ok, s1b)
                           @@ 2 :> Label("VOL1")
    [] layout = "zerokeys" -> 1 :> BootInfo("ipl2", ok, s1b) @@ 2 :> Label("VOL1")
    [] layout = "ldl" -> 0 :> BootInfo("bootinfo", ok, s1b) @@ 2 :> Label("LNX1")
    [] layout = "cms" -> 0 :> BootInfo("bootinfo", ok, s1b) @@ 2 :> Label("CMS1")
    [] layout = "plain" -> 0 :> BootInfo("bootinfo", ok, s1b)

Stage2Blocks(n) == [k \in 1..n |-> 9 - k]
Stage2(n, banner) ==
  4 :> [kind |-> "stage1b", seek |-> [k \in 1..n |-> Chs(9 - k)]] @@
  [b \in {9 - k : k \in 1..n} |->
     [kind |-> IF b = 9 - banner THEN "banner" ELSE "data"]]

(* device, blocks: the device and its size; area: of the second component.  *)
DiskOn(device, blocks, area, layout, one, two, per, next, n, banner, damage) ==
  LET scheme == IF layout = "scsi" THEN "scsi" ELSE "eckd"
      Chain1 == Chain(scheme, one, 30, per, 12, next)
      Chain2 == Chain(scheme, two, area, per, 22, next)
      table == 3 :> [kind |-> "table", entries |->
                 0 :> Ptr(scheme, 9, 1) @@ 1 :> Ptr(scheme, 10, 1) @@
                 2 :> Null(scheme)]
      scripts ==
        9 :> Script(<<LoadEntry(scheme, 12, 1), Signature,
                      LoadEntry(scheme, 22, 8), Exec(77)>>) @@
        10 :> Script(<<Signature, LoadEntry(scheme, 22, 2), Exec(78)>>)
      before1 == CASE damage = "loop" -> 12 :> (0 :> 0)
                   [] damage = "list" -> [b \in {} |-> 0]
                   [] OTHER -> Before(one, per, 12)
      good == Chain1 @@ Chain2 @@ table @@ scripts @@ Stage2(n, banner) @@
              FirstBlocks(layout, damage # "head",
                          IF damage = "s1b" THEN 70 ELSE 4)
  IN [content |->
        CASE damage = "loop" ->
               12 :> [kind |-> "list", slots |-> <<Ptr(scheme, 12, 1)>>] @@ good
          [] damage = "size" ->
               22 :> [kind |-> "list", slots |->
                        <<[Ptr(scheme, 45, 1) EXCEPT !.sized = FALSE]>>] @@ good
          [] damage = "far" ->
               22 :> [kind |-> "list", slots |-> <<Ptr(scheme, 63, 3)>>] @@ good
          [] damage = "outside" ->
               22 :> [kind |-> "list", slots |-> <<Ptr(scheme, 70, 1)>>] @@ good
          [] damage = "list" ->
               12 :> [kind |-> "list", slots |->
                        <<Ptr(scheme, 22, 1), Null(scheme)>>] @@
               9 :> Script(<<LoadEntry(scheme, 70, 1), Exec(77)>>) @@ good
          [] damage = "exec" -> 9 :> Script(<<Signature>>) @@ good
          [] damage = "empty" ->
               3 :> [kind |-> "table", entries |-> [k \in 0..2 |-> Null(scheme)]]
                 @@ good
          [] damage = "seek" ->
               4 :> [kind |-> "stage1b", seek |-> <<Chs(70)>>] @@ good
          [] damage = "label" -> 2 :> Label("none") @@ good
          [] damage = "long" ->
               9 :> Script(<<LoadEntry(scheme, 12, 1), LoadEntry(scheme, 12, 1),
                             LoadEntry(scheme, 12, 1), LoadEntry(scheme, 12, 1),
                             LoadEntry(scheme, 22, 8)>>) @@ good
          [] damage = "signed" ->
               9 :> Script(<<LoadEntry(scheme, 12, 1), LoadEntry(scheme, 22, 8)>>
                             \o [k \in 1..per |-> Signature]) @@ good
          [] OTHER -> good,
      device |-> device,
      blocks |-> blocks,
      room |-> IF damage = "signed" THEN per + 2 ELSE MAX_COMPONENTS,
      guessed |-> damage = "outside" /\ per = 2,
      sound |-> /\ damage = "none" /\ (banner = n => n = STAGE2_BLK_CNT_MAX)
                /\ scheme = "scsi" /\ device = "block" => area < WORD \div 2,
      stage2 |-> Stage2Blocks(n),
      banner |-> banner,
      programs |->
        0 :> [psw |-> 77, components |->
                <<[address |-> 1, blocks |-> BlocksOf(one, 30),
                   before |-> before1],
                  [address |-> 8, blocks |-> BlocksOf(two, area),
                   before |-> Before(two, per, 22)]>>] @@
        1 :> [psw |-> 78, components |->
                <<[address |-> 2, blocks |-> BlocksOf(two, area),
                   before |-> Before(two, per, 22)]>>]]

Disk(layout, one, two, per, next, n, banner, damage) ==
  DiskOn("block", SmallDisk, 45, layout, one, two, per, next, n, banner, damage)

Layouts == {"scsi", "cdl", "zerokeys", "ldl", "cms", "plain"}
Shapes == {<<1>>, <<3>>, <<2, 1>>, <<1, 1, 1>>, <<1, 2, 1>>, <<1, 1, 1, 1, 1>>}

(* Every layout and every shape; every place of the banner; the damages.    *)
MCMapDisks ==
  {Disk(l, one, two, per, 1, 2, 1, "none") :
     l \in Layouts, one \in Shapes, two \in Shapes, per \in {2, 3}}
  \cup {Disk("scsi", one, <<2, 1>>, 3, 2, 2, 1, "none") : one \in Shapes}
  \cup {Disk(l, <<1>>, <<2, 1>>, 3, 1, n, banner, "none") :
          l \in {"cdl", "plain"}, n \in 0..3, banner \in 0..3}
  \cup {Disk(l, <<2, 1>>, <<1>>, per, 1, 2, 1, damage) :
          l \in Layouts, per \in {2, 3},
          damage \in {"head", "loop", "size", "far", "outside", "list", "exec",
                      "empty", "label", "long", "signed", "s1b", "seek"}}
  \cup {DiskOn("block", 2 * WORD, area, l, <<1>>, <<2, 1>>, 3, 1, 2, 1, "none") :
          l \in {"scsi", "cdl"}, area \in {WORD \div 2, WORD - 4, WORD + 45}}
  \cup {DiskOn("scsi", WORD - 1, area, l, <<1>>, <<2, 1>>, 3, 1, 2, 1, "none") :
          l \in {"scsi", "cdl"}, area \in {45, WORD - 7}}
===============================================================================
