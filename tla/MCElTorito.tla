------------------------------ MODULE MCElTorito ------------------------------
(* Instances of ElTorito for TLC: sectors of four units, directories three   *)
(* levels deep.                                                              *)
EXTENDS ElTorito, TLC

Self(n) == [len |-> 1, ext |-> 1, size |-> n, dir |-> TRUE]
Parent == [len |-> 1, ext |-> 2, size |-> 4, dir |-> TRUE]
File(len, ext, n) == [len |-> len, ext |-> ext, size |-> n, dir |-> FALSE]
Dir(ext) == [len |-> 1, ext |-> ext, size |-> 4, dir |-> TRUE]

(* Records that follow one another, by their offsets.                      *)
RECURSIVE LaidFrom(_, _)
LaidFrom(recs, o) ==
  IF recs = <<>> THEN <<>>
  ELSE (o :> Head(recs)) @@ LaidFrom(Tail(recs), o + Head(recs).len)
Laid(recs) == LaidFrom(recs, 0)

(* Two sectors, padded and full; a directory last in a full sector; one too *)
(* deep.                                                                    *)
Deep ==
  20 :> Laid(<<Self(4), Parent, File(1, 50, 7), Dir(30)>>) @@
  30 :> Laid(<<Self(8), Parent, File(1, 51, 5)>>) @@
  31 :> Laid(<<File(2, 52, 0), Dir(40)>>) @@
  40 :> Laid(<<Self(4), Parent, Dir(45)>>) @@
  45 :> Laid(<<Self(4), Parent, File(2, 53, 9)>>)

(* Directories before files, an empty one, two on a level.                 *)
Wide ==
  20 :> Laid(<<Self(8), Parent, Dir(30), Dir(31)>>) @@
  21 :> Laid(<<File(3, 51, 3)>>) @@
  30 :> Laid(<<Self(4), Parent>>) @@
  31 :> Laid(<<Self(4), Parent, File(2, 50, 8)>>)

(* Not whole sectors; a record across the end; a directory that is missing, *)
(* or all zeros.                                                            *)
Short == 20 :> Laid(<<Self(3), Parent, File(1, 54, 1)>>)
Wrapped == 20 :> Laid(<<Self(3), Parent>>)
Across == 20 :> Laid(<<Self(4), Parent, File(3, 54, 1), File(1, 51, 1)>>)
Missing == 20 :> Laid(<<Self(4), Parent, Dir(60), File(1, 54, 1)>>)
Zeros == 20 :> Laid(<<Self(4), Parent, Dir(30)>>) @@ 30 :> Laid(<<>>)

(* All the directories of at most two records, of three directories that   *)
(* may contain each other.                                                 *)
Lists(S) == {<<>>} \cup {<<a>> : a \in S} \cup {<<a, b>> : a \in S, b \in S}
Small(S) == {<<Self(4), Parent>> \o l : l \in Lists(S)}
Systematic ==
  {20 :> Laid(r) @@ 30 :> Laid(a) @@ 40 :> Laid(b) :
     r \in Small({File(1, 50, 7), Dir(30), Dir(40)}),
     a \in Small({File(2, 51, 5), Dir(40)}),
     b \in Small({Dir(30), File(1, 53, 9)})}

Entry(bootable, magic, rba) ==
  [bootable |-> bootable, unused |-> FALSE, count |-> 6, magic |-> magic,
   rba |-> rba]
MCCatalog ==
  <<Entry(FALSE, TRUE, 50), Entry(TRUE, TRUE, 51), Entry(TRUE, FALSE, 52),
    Entry(TRUE, TRUE, 53), Entry(TRUE, TRUE, 50), Entry(TRUE, TRUE, 30)>>

MCImages ==
  [vds : {<<"primary", "other", "boot", "terminator">>}, valid : {TRUE},
   catalog : {MCCatalog}, root : {20},
   sectors : Systematic \cup {Deep, Wide, Short, Wrapped, Across, Missing, Zeros}]
  \cup
  [vds : {<<>>, <<"primary">>, <<"primary", "terminator">>, <<"invalid">>,
          <<"primary", "boot">>},
   valid : {FALSE}, catalog : {<<>>}, root : {20}, sectors : {Deep}]
=============================================================================
