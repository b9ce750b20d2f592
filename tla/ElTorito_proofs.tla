--------------------------- MODULE ElTorito_proofs ---------------------------
(***************************************************************************)
(* Proofs about booting an ISO 9660 image, for every image: every variable *)
(* stays what it may be whatever the medium holds; on a sound image the    *)
(* counters of the walk never lose step, the file is found if the depth    *)
(* limit allows for it, and its entry is the one that was asked for.       *)
(***************************************************************************)
EXTENDS ElTorito, FiniteSetTheorems, WellFoundedInduction, TLAPS

-----------------------------------------------------------------------------
(* Numbers.                                                                *)

(* Induction, for a set of numbers.                                        *)
LEMMA Induction ==
  ASSUME NEW N \in Nat, NEW T \in SUBSET (0 .. N), 0 \in T,
         \A n \in T : n < N => n + 1 \in T
  PROVE  T = 0 .. N
  <1> SUFFICES ASSUME NEW U, U = (0 .. N) \ T, U # {}
               PROVE  FALSE
    OBVIOUS
  <1>1. U \subseteq Nat
    OBVIOUS
  <1>2. PICK n \in U : \A m \in U : ~ (<<m, n>> \in OpToRel(<, Nat))
    BY <1>1, NatLessThanWellFounded, WFMin, Zenon
  <1>3. n \in Nat /\ n # 0 /\ n \notin T /\ n <= N
    OBVIOUS
  <1>4. n - 1 \in Nat /\ n - 1 \in 0 .. N /\ n - 1 < n /\ n - 1 + 1 = n /\ n - 1 < N
    BY <1>3
  <1>5. n - 1 \notin U
    <2>1. <<n - 1, n>> \in OpToRel(<, Nat)
      BY <1>3, <1>4 DEF OpToRel
    <2> QED BY <1>2, <2>1
  <1>6. n - 1 \in T
    BY <1>4, <1>5
  <1> QED BY <1>3, <1>4, <1>6

LEMMA DivMod ==
  ASSUME NEW x \in Nat, NEW w \in Nat \ {0}
  PROVE  /\ x % w \in 0 .. w - 1 /\ x \div w \in Nat
         /\ x = (x \div w) * w + (x % w)
  <1>1. x \div w \in Nat /\ x % w \in Nat
    OBVIOUS
  <1>2. x % w < w
    OBVIOUS
  <1>3. x = w * (x \div w) + (x % w)
    OBVIOUS
  <1>4. w * (x \div w) = (x \div w) * w
    BY <1>1
  <1> QED BY <1>1, <1>2, <1>3, <1>4

(* So many sectors hold n units, unless rounding up wraps.                 *)
LEMMA CeilingHolds ==
  ASSUME NEW n \in Nat
  PROVE  /\ Ceiling(n) \in Nat
         /\ n + SECTOR <= WORD => Ceiling(n) * SECTOR >= n
  <1> DEFINE x == n + SECTOR - 1
             y == x % WORD
  <1>1. x \in Nat /\ SECTOR \in Nat \ {0} /\ WORD \in Nat \ {0}
    BY ElToritoAssumption
  <1> HIDE DEF x
  <1>2. y \in Nat
    BY <1>1, DivMod
  <1> HIDE DEF y
  <1>3. y \div SECTOR \in Nat /\ y % SECTOR <= SECTOR - 1 /\ y % SECTOR \in Nat
        /\ y = (y \div SECTOR) * SECTOR + (y % SECTOR)
    <2>1. /\ y % SECTOR \in 0 .. SECTOR - 1 /\ y \div SECTOR \in Nat
          /\ y = (y \div SECTOR) * SECTOR + (y % SECTOR)
      BY <1>1, <1>2, DivMod
    <2> QED BY <1>1, <2>1
  <1>4. Ceiling(n) = y \div SECTOR
    BY DEF Ceiling, x, y
  <1> DEFINE c == y \div SECTOR
             p == c * SECTOR
  <1>5. p \in Nat
    BY <1>1, <1>3
  <1>6. ASSUME n + SECTOR <= WORD PROVE p >= n
    <2>1. y = x
      BY <1>1, <1>6 DEF x, y
    <2>2. y = p + (y % SECTOR)
      BY <1>3
    <2> HIDE DEF p
    <2> QED BY <1>1, <1>2, <1>3, <1>5, <2>1, <2>2 DEF x
  <1> QED BY <1>3, <1>4, <1>6

-----------------------------------------------------------------------------
(* Types.                                                                  *)

(* From the selection of an entry on, there is one.                        *)
TypeInv ==
  /\ TypeOK
  /\ pc = "entries" => i >= 1
  /\ pc \in {"load", "walk", "image"} => entry # 0

LEMMA InitTypeInv == Init => TypeInv
  BY ElToritoAssumption DEF Init, TypeInv, TypeOK, Levels, NoImage

(* Every record fits a sector and a word.                                  *)
LEMMA RecordType ==
  ASSUME TypeInv, NEW n \in DOMAIN img.sectors, NEW o
  PROVE  RecordAt(n, o) \in Records
  <1>1. NoRecord \in Records
    BY ElToritoAssumption DEF NoRecord, Records
  <1> QED BY <1>1, ImagesAssumption DEF RecordAt, TypeInv, TypeOK

LEMMA WrapType ==
  ASSUME NEW n \in Int, - WORD <= n, n < WORD
  PROVE  Wrap(n) \in 0 .. WORD - 1 /\ (n >= 0 => Wrap(n) = n)
  BY ElToritoAssumption DEF Wrap

LEMMA Differences ==
  ASSUME NEW a \in 0 .. WORD - 1, NEW b \in 0 .. SECTOR, NEW c \in 0 .. SECTOR
  PROVE  /\ a - b \in Int /\ - WORD <= a - b /\ a - b < WORD
         /\ a - b - c \in Int /\ - WORD <= a - b - c /\ a - b - c < WORD
         /\ b + c \in 0 .. 2 * SECTOR
  BY ElToritoAssumption

LEMMA ChosenType ==
  ASSUME TypeInv, entry # 0
  PROVE  chosen \in Entries
  BY ImagesAssumption DEF TypeInv, TypeOK, chosen

LEMMA SearchType ==
  ASSUME TypeInv, FindBc \/ ReadCatalog \/ TryEntry \/ NoEntry
  PROVE  TypeInv'
  <1> USE DEF TypeInv, TypeOK
  <1>1. CASE FindBc
    BY <1>1 DEF FindBc, Panic, walk
  <1>2. CASE ReadCatalog
    BY <1>2 DEF ReadCatalog, Panic, walk
  <1>3. CASE TryEntry
    <2>1. img \in Images /\ Len(img.catalog) \in Nat /\ Loadparms \subseteq Nat
      BY ImagesAssumption, ElToritoAssumption
    <2> DEFINE hit == img.catalog[i].bootable /\ Compatible(img.catalog[i])
    <2>2. CASE hit /\ loadparm <= 1
      <3>1. pc' = "load" /\ entry' = i /\ i' = i /\ loadparm' = loadparm
        BY <1>3, <2>2 DEF TryEntry
      <3>2. i \in 1 .. Len(img.catalog)
        BY <1>3, <2>1 DEF TryEntry
      <3> QED BY <1>3, <2>1, <3>1, <3>2 DEF TryEntry, walk
    <2>3. CASE ~ (hit /\ loadparm <= 1)
      <3>1. i' = i + 1 /\ pc' = pc /\ entry' = entry
            /\ loadparm' = IF hit THEN loadparm - 1 ELSE loadparm
        BY <1>3, <2>3 DEF TryEntry
      <3>2. loadparm' \in Nat
        BY <2>3, <3>1
      <3> HIDE DEF hit
      <3> QED BY <1>3, <3>1, <3>2 DEF TryEntry, walk
    <2> QED BY <2>2, <2>3
  <1>4. CASE NoEntry
    BY <1>4 DEF NoEntry, Panic, walk
  <1> QED BY <1>1, <1>2, <1>3, <1>4


LEMMA EnterType ==
  ASSUME TypeInv, StartWalk \/ FirstRecords
  PROVE  TypeInv'
  <1> USE DEF TypeInv, TypeOK
  <1>0. 0 \in Levels /\ Levels \subseteq Int /\ SECTOR \in Nat \ {0}
    BY ElToritoAssumption DEF Levels
  <1>1. CASE StartWalk
    <2>1. img.root \in Nat
      BY ImagesAssumption
    <2>2. sec_loc' \in [Levels -> Nat] /\ sec_offset' \in [Levels -> 0 .. 2 * SECTOR]
          /\ dir_rem' \in [Levels -> 0 .. WORD - 1]
      BY <1>0, <1>1, <2>1, ElToritoAssumption DEF StartWalk
    <2> QED BY <1>1, <2>2, ElToritoAssumption DEF StartWalk
  <1>2. CASE FirstRecords
    <2>1. level \in Levels
      BY <1>2 DEF FirstRecords, Levels
    <2>2. CASE sec_loc[level] \notin DOMAIN img.sectors
      BY <1>2, <2>2 DEF FirstRecords, Panic, walk
    <2>3. CASE sec_loc[level] \in DOMAIN img.sectors
      <3> DEFINE self == RecordAt(sec_loc[level], 0)
                 parent == RecordAt(sec_loc[level], self.len)
                 rem == self.size - self.len - parent.len
      <3>1. self \in Records /\ parent \in Records
        BY <2>3, RecordType
      <3>2. /\ temp' = sec_loc[level]
            /\ dir_rem' = [dir_rem EXCEPT ![level] = Wrap(rem)]
            /\ sec_offset' = [sec_offset EXCEPT ![level] = self.len + parent.len]
            /\ UNCHANGED <<pc, level, sec_loc>>
        BY <1>2, <2>3 DEF FirstRecords
      <3>3. self.len + parent.len \in 0 .. 2 * SECTOR
        BY <1>0, <3>1 DEF Records
      <3>4. rem \in Int /\ - WORD <= rem /\ rem < WORD
        <4>1. /\ self.len \in 0 .. SECTOR /\ parent.len \in 0 .. SECTOR
              /\ self.size \in 0 .. WORD - 1
          BY <3>1 DEF Records
        <4> HIDE DEF self, parent
        <4> QED BY <4>1, Differences
      <3> HIDE DEF self, parent, rem
      <3>5. Wrap(rem) \in 0 .. WORD - 1
        BY <3>4, WrapType
      <3>6. sec_offset' \in [Levels -> 0 .. 2 * SECTOR] /\ dir_rem' \in [Levels -> 0 .. WORD - 1]
        BY <2>1, <3>2, <3>3, <3>5
      <3>7. temp' \in Nat
        BY <2>1, <3>2
      <3> QED BY <1>2, <3>2, <3>6, <3>7 DEF FirstRecords
    <2> QED BY <2>2, <2>3
  <1> QED BY <1>1, <1>2

(* The buffer is a sector's, and the level within bounds or below.         *)
LEMMA LeaveType ==
  ASSUME TypeInv, pc = "walk", level >= 0, NEW rem, NEW here \in Nat, Leave(rem, here)
  PROVE  temp' \in Nat /\ pc' \in {"walk", "panic"} /\ level' \in -1 .. MAX_DEPTH - 1
  <1>1. level - 1 \in -1 .. MAX_DEPTH - 1 /\ (level > 0 => level - 1 \in Levels)
    BY ElToritoAssumption DEF TypeInv, TypeOK, Levels
  <1>2. level > 0 => sec_loc[level - 1] \in Nat
    BY <1>1 DEF TypeInv, TypeOK
  <1> QED BY <1>1, <1>2 DEF Leave, TypeInv, TypeOK

LEMMA WalkType ==
  ASSUME TypeInv, NextSector \/ BadOffset \/ Found \/ Pass \/ ReadFails \/ NotFound
  PROVE  TypeInv'
  <1> USE DEF TypeInv, TypeOK
  <1>0. SECTOR \in Nat \ {0} /\ WORD \in Nat \ {0} /\ SECTOR < WORD /\ Levels \subseteq Int
    BY ElToritoAssumption DEF Levels
  <1>1. ASSUME AtRecord
        PROVE  /\ pc = "walk" /\ level \in Levels /\ Buffer \in Nat
               /\ sec_offset[level] \in 0 .. SECTOR
               /\ RecordAt(Buffer, sec_offset[level]) \in Records
    BY <1>0, <1>1, RecordType DEF AtRecord, Buffer, Levels
  <1>2. CASE NextSector
    <2> DEFINE rem == dir_rem[level] - (SECTOR - sec_offset[level])
    <2>1. AtRecord
      BY <1>2 DEF NextSector
    <2>2. /\ dir_rem' = [dir_rem EXCEPT ![level] = Wrap(rem)]
          /\ Leave(Wrap(rem), Buffer)
          /\ sec_offset' = [sec_offset EXCEPT ![level] = 0]
          /\ sec_loc' = [sec_loc EXCEPT ![level] = @ + 1]
      BY <1>2 DEF NextSector
    <2>3. rem \in Int /\ - WORD <= rem /\ rem < WORD
      BY <1>0, <1>1, <2>1
    <2> HIDE DEF rem
    <2>4. Wrap(rem) \in 0 .. WORD - 1
      BY <2>3, WrapType
    <2>5. /\ sec_offset' \in [Levels -> 0 .. 2 * SECTOR] /\ sec_loc' \in [Levels -> Nat]
          /\ dir_rem' \in [Levels -> 0 .. WORD - 1]
      <3>1. level \in Levels /\ 0 \in 0 .. 2 * SECTOR /\ sec_loc[level] + 1 \in Nat
        BY <1>0, <1>1, <2>1
      <3>2. sec_offset' \in [Levels -> 0 .. 2 * SECTOR]
        BY <2>2, <3>1
      <3>3. sec_loc' \in [Levels -> Nat]
        BY <2>2, <3>1
      <3>4. dir_rem' \in [Levels -> 0 .. WORD - 1]
        BY <2>2, <2>4, <3>1
      <3> QED BY <3>2, <3>3, <3>4
    <2>6. temp' \in Nat /\ pc' \in {"walk", "panic"} /\ level' \in -1 .. MAX_DEPTH - 1
      BY <1>1, <2>1, <2>2, LeaveType DEF AtRecord
    <2> QED BY <1>2, <2>5, <2>6 DEF NextSector, AtRecord
  <1>3. CASE BadOffset
    BY <1>3 DEF BadOffset, Panic, walk
  <1>4. CASE Found
    <2>1. AtRecord /\ size' = RecordAt(Buffer, sec_offset[level]).size /\ pc' = "image"
      BY <1>4 DEF Found
    <2>2. size' \in Nat
      BY <1>1, <2>1 DEF Records
    <2> QED BY <1>4, <2>1, <2>2 DEF Found, AtRecord, walk
  <1>5. CASE Pass
    <2> DEFINE r == RecordAt(Buffer, sec_offset[level])
               rem == dir_rem[level] - r.len
    <2>1. AtRecord
      BY <1>5 DEF Pass
    <2>2. r \in Records
      BY <1>1, <2>1
    <2> HIDE DEF r
    <2>3. rem \in Int /\ - WORD <= rem /\ rem < WORD /\ sec_offset[level] + r.len \in 0 .. 2 * SECTOR
          /\ r.ext \in Nat
      <3>1. r.len \in 0 .. SECTOR /\ r.ext \in Nat
        BY <2>2 DEF Records
      <3>2. dir_rem[level] \in 0 .. WORD - 1 /\ sec_offset[level] \in 0 .. SECTOR
        BY <1>1, <2>1
      <3> QED BY <3>1, <3>2, Differences
    <2> HIDE DEF rem
    <2>4. Wrap(rem) \in 0 .. WORD - 1
      BY <2>3, WrapType
    <2>5. CASE MayEnter(r)
      <3>1. /\ level' = level + 1
            /\ sec_loc' = [sec_loc EXCEPT ![level + 1] = r.ext]
            /\ sec_offset' = [sec_offset EXCEPT ![level] = @ + r.len, ![level + 1] = 0]
            /\ dir_rem' = [dir_rem EXCEPT ![level] = Wrap(rem), ![level + 1] = 0]
            /\ temp' = Buffer /\ UNCHANGED pc
        BY <1>5, <2>5 DEF Pass, r, rem
      <3>2. level + 1 \in Levels /\ level + 1 \in -1 .. MAX_DEPTH - 1
        BY <1>1, <2>1, <2>5, ElToritoAssumption DEF MayEnter, Levels
      <3>3. /\ sec_offset' \in [Levels -> 0 .. 2 * SECTOR] /\ sec_loc' \in [Levels -> Nat]
            /\ dir_rem' \in [Levels -> 0 .. WORD - 1]
        <4>1. level \in Levels /\ 0 \in 0 .. 2 * SECTOR /\ 0 \in 0 .. WORD - 1
          BY <1>0, <1>1, <2>1
        <4>2. sec_offset' \in [Levels -> 0 .. 2 * SECTOR]
          <5> DEFINE f == [sec_offset EXCEPT ![level] = @ + r.len]
          <5>1. f \in [Levels -> 0 .. 2 * SECTOR]
            BY <2>3, <4>1
          <5>2. sec_offset' = [f EXCEPT ![level + 1] = 0]
            BY <3>1
          <5> HIDE DEF f
          <5> QED BY <3>2, <4>1, <5>1, <5>2
        <4>3. sec_loc' \in [Levels -> Nat]
          BY <2>3, <3>1, <3>2
        <4>4. dir_rem' \in [Levels -> 0 .. WORD - 1]
          <5> DEFINE f == [dir_rem EXCEPT ![level] = Wrap(rem)]
          <5>1. f \in [Levels -> 0 .. WORD - 1]
            BY <2>4, <4>1
          <5>2. dir_rem' = [f EXCEPT ![level + 1] = 0]
            BY <3>1
          <5> HIDE DEF f
          <5> QED BY <3>2, <4>1, <5>1, <5>2
        <4> QED BY <4>2, <4>3, <4>4
      <3> QED BY <1>1, <1>5, <2>1, <3>1, <3>2, <3>3 DEF Pass
    <2>6. CASE ~ MayEnter(r)
      <3>1. /\ sec_offset' = [sec_offset EXCEPT ![level] = @ + r.len]
            /\ dir_rem' = [dir_rem EXCEPT ![level] = Wrap(rem)]
            /\ Leave(Wrap(rem), Buffer) /\ UNCHANGED sec_loc
        BY <1>5, <2>6 DEF Pass, r, rem
      <3>2. /\ sec_offset' \in [Levels -> 0 .. 2 * SECTOR]
            /\ dir_rem' \in [Levels -> 0 .. WORD - 1]
        BY <1>0, <1>1, <2>1, <2>3, <2>4, <3>1
      <3>3. temp' \in Nat /\ pc' \in {"walk", "panic"} /\ level' \in -1 .. MAX_DEPTH - 1
        BY <1>1, <2>1, <3>1, LeaveType DEF AtRecord
      <3> QED BY <1>1, <1>5, <2>1, <3>1, <3>2, <3>3 DEF Pass
    <2> QED BY <2>5, <2>6
  <1>6. CASE ReadFails
    BY <1>6 DEF ReadFails, Panic, walk
  <1>7. CASE NotFound
    BY <1>7 DEF NotFound, walk
  <1> QED BY <1>2, <1>3, <1>4, <1>5, <1>6, <1>7

LEMMA LoadType ==
  ASSUME TypeInv, LoadImage
  PROVE  TypeInv'
  <1>1. pc = "image" /\ entry # 0 /\ size \in Nat
    BY DEF LoadImage, TypeInv, TypeOK
  <1>2. chosen.rba \in Nat /\ chosen.count \in Nat
    BY <1>1, ChosenType DEF Entries
  <1>3. Ceiling(size) \in Nat /\ chosen.count \div 4 \in Nat
    BY <1>1, <1>2, CeilingHolds, DivMod
  <1>4. loaded' \in [rba : Nat, blocks : Nat]
    BY <1>2, <1>3 DEF LoadImage
  <1> QED BY <1>4 DEF LoadImage, TypeInv, TypeOK, walk

LEMMA TypeStep == TypeInv /\ [Next]_vars => TypeInv'
  <1> SUFFICES ASSUME TypeInv, [Next]_vars PROVE TypeInv'
    OBVIOUS
  <1>1. CASE UNCHANGED vars
    BY <1>1 DEF vars, walk, TypeInv, TypeOK
  <1> QED BY <1>1, SearchType, EnterType, WalkType, LoadType DEF Next

(* Whatever is on the medium, every variable stays what it may be: no      *)
(* level is entered beyond the arrays and the counters keep their width    *)
(* (bootmap.c:609-681).                                                    *)
THEOREM TypeCorrect == Spec => []TypeOK
  <1>1. TypeInv => TypeOK
    BY DEF TypeInv
  <1> QED BY InitTypeInv, TypeStep, <1>1, PTL DEF Spec

-----------------------------------------------------------------------------
(* The entry.                                                              *)

(* The entries up to one that can be booted.                               *)
Hits(m, n) == {k \in 1 .. n : m.catalog[k].bootable /\ Compatible(m.catalog[k])}

(* While the catalog is searched, the load parameter has been counted down *)
(* by the entries passed; nothing is loaded before the end.                *)
EntryInv ==
  /\ pc # "end" => loaded = NoImage
  /\ pc \in {"vds", "catalog"} => loadparm = asked
  /\ pc = "entries" =>
       IF asked = 0 THEN loadparm = 0 /\ Hits(img, i - 1) = {}
       ELSE loadparm \in 1 .. asked /\ Cardinality(Hits(img, i - 1)) = asked - loadparm
  /\ EntryIsTheOne

LEMMA NextHit ==
  ASSUME NEW m, NEW n \in Nat \ {0}
  PROVE  LET hit == m.catalog[n].bootable /\ Compatible(m.catalog[n])
         IN /\ hit => /\ Hits(m, n) = Hits(m, n - 1) \cup {n}
                      /\ Cardinality(Hits(m, n)) = Cardinality(Hits(m, n - 1)) + 1
            /\ ~ hit => Hits(m, n) = Hits(m, n - 1)
            /\ Cardinality(Hits(m, n - 1)) \in Nat
  <1> DEFINE hit == m.catalog[n].bootable /\ Compatible(m.catalog[n])
  <1>1. IsFiniteSet(Hits(m, n - 1)) /\ n \notin Hits(m, n - 1)
    <2>1. IsFiniteSet(1 .. n - 1) /\ Hits(m, n - 1) \in SUBSET (1 .. n - 1)
      BY FS_Interval DEF Hits
    <2>2. n \notin 1 .. n - 1
      OBVIOUS
    <2> QED BY <2>1, <2>2, FS_Subset
  <1>2. 1 .. n = (1 .. n - 1) \cup {n}
    OBVIOUS
  <1>3. hit => Hits(m, n) = Hits(m, n - 1) \cup {n}
    BY <1>2 DEF Hits
  <1>4. ~ hit => Hits(m, n) = Hits(m, n - 1)
    BY <1>2 DEF Hits
  <1>5. Cardinality(Hits(m, n - 1) \cup {n}) = Cardinality(Hits(m, n - 1)) + 1
    BY <1>1, FS_AddElement
  <1> QED BY <1>1, <1>3, <1>4, <1>5, FS_CardinalityType

LEMMA InitEntryInv == Init => EntryInv
  BY DEF Init, EntryInv, EntryIsTheOne

LEMMA SearchEntry ==
  ASSUME TypeInv, EntryInv, FindBc \/ ReadCatalog \/ TryEntry \/ NoEntry
  PROVE  EntryInv'
  <1>1. CASE FindBc
    BY <1>1 DEF FindBc, Panic, EntryInv, EntryIsTheOne, NoImage, walk
  <1>2. CASE ReadCatalog
    <2>1. Hits(img, 0) = {} /\ Cardinality({}) = 0
      BY FS_EmptySet DEF Hits
    <2>2. loadparm = asked /\ asked \in Nat
      BY <1>2, ElToritoAssumption DEF ReadCatalog, EntryInv, TypeInv, TypeOK
    <2>3. loadparm' = loadparm /\ asked' = asked /\ img' = img /\ i' = 1
          /\ pc' \in {"entries", "panic"} /\ loaded = NoImage /\ loaded' = loaded
      BY <1>2 DEF ReadCatalog, EntryInv, Panic
    <2>4. i' - 1 = 0 /\ asked - asked = 0
      BY <2>2, <2>3
    <2>5. IF asked = 0 THEN loadparm = 0 /\ Hits(img, 0) = {}
          ELSE loadparm \in 1 .. asked /\ Cardinality(Hits(img, 0)) = asked - loadparm
      BY <2>1, <2>2, <2>4
    <2> QED BY <2>3, <2>4, <2>5 DEF EntryInv, EntryIsTheOne
  <1>3. CASE TryEntry
    <2> DEFINE hit == img.catalog[i].bootable /\ Compatible(img.catalog[i])
    <2>1. /\ pc = "entries" /\ i \in Nat \ {0} /\ loadparm \in Nat /\ asked \in Nat
          /\ loaded = NoImage /\ loaded' = loaded /\ img' = img /\ asked' = asked
      BY <1>3, ElToritoAssumption DEF TryEntry, TypeInv, TypeOK, EntryInv
    <2>2. IF asked = 0 THEN loadparm = 0 /\ Hits(img, i - 1) = {}
          ELSE loadparm \in 1 .. asked /\ Cardinality(Hits(img, i - 1)) = asked - loadparm
      BY <2>1 DEF EntryInv
    <2>3. /\ hit => /\ Cardinality(Hits(img, i)) = Cardinality(Hits(img, i - 1)) + 1
                    /\ Hits(img, i) # {}
          /\ ~ hit => Hits(img, i) = Hits(img, i - 1)
      BY <2>1, NextHit
    <2>4. CASE hit /\ loadparm <= 1
      <3>1. pc' = "load" /\ entry' = i
        BY <1>3, <2>4 DEF TryEntry
      <3>2. Cardinality(Hits(img, i)) = IF asked = 0 THEN 1 ELSE asked
        <4>1. asked = 0 => Cardinality(Hits(img, i - 1)) = 0
          BY <2>2, FS_EmptySet
        <4>2. asked # 0 => Cardinality(Hits(img, i - 1)) = asked - 1
          BY <2>1, <2>2, <2>4
        <4> QED BY <2>1, <2>3, <2>4, <4>1, <4>2
      <3>3. (chosen.bootable /\ Compatible(chosen))'
        BY <2>1, <2>4, <3>1 DEF chosen, Compatible
      <3>4. EntryIsTheOne'
        BY <2>1, <3>1, <3>2, <3>3 DEF EntryIsTheOne, Hits, Compatible
      <3> QED BY <2>1, <3>1, <3>4 DEF EntryInv
    <2>5. CASE ~ (hit /\ loadparm <= 1)
      <3>1. /\ i' = i + 1 /\ pc' = pc /\ entry' = entry
            /\ loadparm' = IF hit THEN loadparm - 1 ELSE loadparm
        BY <1>3, <2>5 DEF TryEntry
      <3>2. i' - 1 = i
        BY <2>1, <3>1
      <3>3. IF asked = 0 THEN loadparm' = 0 /\ Hits(img, i) = {}
            ELSE loadparm' \in 1 .. asked /\ Cardinality(Hits(img, i)) = asked - loadparm'
        <4>1. CASE hit
          <5>1. asked # 0 /\ loadparm \in 2 .. asked
            BY <2>1, <2>2, <2>5, <4>1
          <5>2. loadparm' = loadparm - 1
            BY <3>1, <4>1
          <5>3. Cardinality(Hits(img, i)) = asked - loadparm + 1
            BY <2>2, <2>3, <4>1, <5>1
          <5> HIDE DEF hit
          <5> QED BY <2>1, <5>1, <5>2, <5>3
        <4>2. CASE ~ hit
          BY <2>2, <2>3, <3>1, <4>2
        <4> QED BY <4>1, <4>2
      <3>4. EntryIsTheOne'
        BY <2>1, <3>1 DEF EntryIsTheOne
      <3> QED BY <2>1, <3>1, <3>2, <3>3, <3>4 DEF EntryInv
    <2> QED BY <2>4, <2>5
  <1>4. CASE NoEntry
    BY <1>4 DEF NoEntry, Panic, EntryInv, EntryIsTheOne, NoImage, walk
  <1> QED BY <1>1, <1>2, <1>3, <1>4

LEMMA EntryStep == TypeInv /\ EntryInv /\ [Next]_vars => EntryInv'
  <1> SUFFICES ASSUME TypeInv, EntryInv, [Next]_vars PROVE EntryInv'
    OBVIOUS
  <1>1. CASE UNCHANGED vars
    BY <1>1 DEF vars, EntryInv, EntryIsTheOne, chosen, Compatible
  <1>2. CASE StartWalk \/ FirstRecords \/ NextSector \/ BadOffset \/ Found \/ Pass
             \/ ReadFails \/ NotFound
    <2>1. /\ pc \in {"load", "walk"} /\ pc' \in {"walk", "image", "panic"}
          /\ UNCHANGED <<img, asked, entry, loaded>>
      BY <1>2 DEF StartWalk, FirstRecords, NextSector, BadOffset, Found, Pass, ReadFails,
        NotFound, AtRecord, Leave, Panic, walk
    <2> QED BY <2>1 DEF EntryInv, EntryIsTheOne, chosen, Compatible
  <1>3. CASE LoadImage
    <2>1. /\ pc = "image" /\ pc' = "end" /\ UNCHANGED <<img, asked, entry, size>>
          /\ loaded' = [rba |-> chosen.rba,
                        blocks |-> IF size # 0 THEN Ceiling(size) ELSE chosen.count \div 4]
      BY <1>3 DEF LoadImage
    <2>2. size \in Nat /\ chosen \in Entries
      BY <2>1, ChosenType DEF TypeInv, TypeOK
    <2>3. chosen.count \in Nat
      BY <2>2 DEF Entries
    <2>4. size = 0 => loaded'.blocks \in Nat /\ loaded'.blocks * SECTOR >= size
      <3>1. chosen.count \div 4 \in Nat
        BY <2>3, DivMod
      <3> QED BY <2>1, <3>1, ElToritoAssumption
    <2>5. size # 0 => loaded'.blocks = Ceiling(size)
      BY <2>1
    <2>6. size + SECTOR <= WORD => loaded'.blocks * SECTOR >= size
      BY <2>2, <2>4, <2>5, CeilingHolds
    <2>7. chosen' = chosen /\ loaded'.rba = chosen.rba
      BY <2>1 DEF chosen
    <2> QED BY <2>1, <2>6, <2>7 DEF EntryInv, EntryIsTheOne
  <1> QED BY <1>1, <1>2, <1>3, SearchEntry DEF Next

-----------------------------------------------------------------------------
(* The directories of an image.                                            *)

Last == MAX_DEPTH - 1

LEMMA LastLevel == Last \in Nat /\ Levels = 0 .. Last
  BY ElToritoAssumption DEF Last, Levels

(* The directories in those of a set, and those down to depth n.           *)
Below(m, S) == UNION {Subdirs(m, d) : d \in S}
IsDownTo(m, n, f) ==
  f = [k \in 0 .. n |-> IF k = 0 THEN {m.root} ELSE Below(m, f[k - 1])]

LEMMA DownToExists ==
  ASSUME NEW m, NEW N \in Nat
  PROVE  \E f : IsDownTo(m, N, f)
  <1> DEFINE T == {n \in 0 .. N : \E f : IsDownTo(m, n, f)}
  <1>1. 0 \in T
    <2>1. IsDownTo(m, 0, [k \in 0 .. 0 |-> {m.root}])
      BY DEF IsDownTo
    <2> QED BY <2>1
  <1>2. ASSUME NEW n \in T, n < N PROVE n + 1 \in T
    <2>1. n \in Nat /\ n + 1 \in 0 .. N
      BY <1>2
    <2>2. PICK f : IsDownTo(m, n, f)
      BY <1>2
    <2> DEFINE next == Below(m, f[n])
               g == [k \in 0 .. n + 1 |-> IF k = n + 1 THEN next ELSE f[k]]
    <2>3. ASSUME NEW k \in 0 .. n + 1
          PROVE  g[k] = IF k = 0 THEN {m.root} ELSE Below(m, g[k - 1])
      <3>1. CASE k = n + 1
        <4>1. k # 0 /\ k - 1 = n /\ n # n + 1 /\ n \in 0 .. n + 1
          BY <2>1, <3>1
        <4>2. g[k] = next /\ g[n] = f[n]
          BY <3>1, <4>1
        <4>3. g[k - 1] = f[n]
          BY <4>1, <4>2
        <4> HIDE DEF g
        <4> QED BY <4>1, <4>2, <4>3
      <3>2. CASE k # n + 1
        <4>1. k \in 0 .. n /\ (k # 0 => k - 1 \in 0 .. n + 1 /\ k - 1 # n + 1)
          BY <2>1, <3>2
        <4>2. f[k] = IF k = 0 THEN {m.root} ELSE Below(m, f[k - 1])
          BY <2>2, <4>1 DEF IsDownTo
        <4>3. g[k] = f[k] /\ (k # 0 => g[k - 1] = f[k - 1])
          BY <3>2, <4>1
        <4> HIDE DEF g
        <4> QED BY <4>2, <4>3
      <3> QED BY <3>1, <3>2
    <2>4. g = [k \in 0 .. n + 1 |-> g[k]]
      OBVIOUS
    <2> HIDE DEF g
    <2>5. IsDownTo(m, n + 1, g)
      BY <2>3, <2>4 DEF IsDownTo
    <2> QED BY <2>1, <2>5
  <1>3. T = 0 .. N
    <2> HIDE DEF T
    <2>1. T \in SUBSET (0 .. N)
      BY DEF T
    <2> QED BY <1>1, <1>2, <2>1, Induction
  <1> QED BY <1>3

LEMMA DownToNext ==
  ASSUME NEW m, NEW N \in Nat, NEW f, IsDownTo(m, N, f), NEW n \in 0 .. N, n + 1 \in 0 .. N
  PROVE  f[n + 1] = Below(m, f[n])
  <1>1. n + 1 # 0 /\ n + 1 - 1 = n
    OBVIOUS
  <1>2. ASSUME NEW g, NEW h,
               g = [k \in 0 .. N |-> IF k = 0 THEN {m.root} ELSE Below(m, h[k - 1])]
        PROVE  g[n + 1] = Below(m, h[n + 1 - 1])
    BY <1>1, <1>2
  <1>3. f = [k \in 0 .. N |-> IF k = 0 THEN {m.root} ELSE Below(m, f[k - 1])]
    BY Zenon DEF IsDownTo
  <1>4. f[n + 1] = Below(m, f[n + 1 - 1])
    BY <1>2, <1>3, Zenon
  <1> QED BY <1>1, <1>4

LEMMA DirsAre ==
  ASSUME NEW m
  PROVE  /\ Dirs(m)[0] = {m.root}
         /\ \A n \in Levels : n + 1 \in Levels =>
              Dirs(m)[n + 1] = Below(m, Dirs(m)[n])
  <1>1. \E f : IsDownTo(m, Last, f)
    BY LastLevel, DownToExists
  <1>2. Dirs(m) = CHOOSE f : IsDownTo(m, Last, f)
    BY LastLevel DEF Dirs, IsDownTo, Below
  <1>3. IsDownTo(m, Last, Dirs(m))
    BY <1>1, <1>2
  <1>4. 0 \in 0 .. Last
    BY LastLevel
  <1>5. ASSUME NEW n \in Levels, n + 1 \in Levels
        PROVE  Dirs(m)[n + 1] = Below(m, Dirs(m)[n])
    <2>1. Last \in Nat /\ n \in 0 .. Last /\ n + 1 \in 0 .. Last
      BY <1>5, LastLevel
    <2> QED BY <1>3, <2>1, DownToNext
  <1> QED BY <1>3, <1>4, <1>5 DEF IsDownTo

(* Of a sound image, all of them are sound.                                *)
LEMMA SoundDirs ==
  ASSUME NEW m, Sound(m), NEW n \in Levels, NEW d \in Dirs(m)[n]
  PROVE  SoundDir(m, d)
  <1> DEFINE T == {k \in 0 .. Last : \A j \in 0 .. k : \A e \in Dirs(m)[j] : SoundDir(m, e)}
  <1>1. 0 \in T
    <2>1. SoundDir(m, m.root) /\ 0 .. 0 = {0} /\ 0 \in 0 .. Last
      BY LastLevel DEF Sound
    <2> QED BY <2>1, DirsAre
  <1>2. ASSUME NEW k \in T, k < Last PROVE k + 1 \in T
    <2>1. k + 1 \in 1 .. MAX_DEPTH - 1 /\ k + 1 - 1 = k /\ k + 1 \in 0 .. Last
          /\ \A j \in 0 .. k + 1 : j \in 0 .. k \/ j = k + 1
      BY <1>2, LastLevel DEF Last
    <2>2. \A j \in 0 .. k : \A e \in Dirs(m)[j] : SoundDir(m, e)
      BY <1>2
    <2>3. \A e \in Dirs(m)[k + 1] : SoundDir(m, e)
      BY <2>1, <2>2 DEF Sound
    <2> QED BY <2>1, <2>2, <2>3
  <1>3. T = 0 .. Last
    <2> HIDE DEF T
    <2>1. T \in SUBSET (0 .. Last)
      BY DEF T
    <2> QED BY <1>1, <1>2, <2>1, Induction, LastLevel
  <1>4. n \in 0 .. Last /\ n \in 0 .. n
    BY LastLevel
  <1>5. n \in T
    BY <1>3, <1>4
  <1> QED BY <1>4, <1>5

(* The records of a sound directory are records.                           *)
LEMMA RecordsOf ==
  ASSUME NEW m \in Images, NEW d, SoundDir(m, d), NEW n \in DirSectors(m, d),
         NEW o \in DOMAIN m.sectors[n]
  PROVE  /\ m.sectors[n][o] \in Records /\ o \in Nat
         /\ m.sectors[n][o].len > 0 /\ o + m.sectors[n][o].len <= SECTOR
         /\ \A p \in DOMAIN m.sectors[n] :
              p > o => /\ p >= o + m.sectors[n][o].len
                       /\ o + m.sectors[n][o].len \in DOMAIN m.sectors[n]
  BY ImagesAssumption DEF SoundDir, SoundSector

LEMMA ContentsAre ==
  ASSUME NEW m \in Images, NEW d, SoundDir(m, d), NEW r \in Contents(m, d)
  PROVE  r \in Records
  <1>1. PICK n \in DirSectors(m, d) : \E o \in Places(m, d, n) : r = m.sectors[n][o]
    BY DEF Contents
  <1> PICK o \in Places(m, d, n) : r = m.sectors[n][o]
    BY <1>1
  <1>2. o \in DOMAIN m.sectors[n]
    BY DEF Places
  <1> QED BY <1>2, RecordsOf

(* All the directories of a sound image have numbers.                      *)
LEMMA DirsType ==
  ASSUME NEW m \in Images, Sound(m), NEW n \in Levels, NEW d \in Dirs(m)[n]
  PROVE  d \in Nat
  <1>1. CASE n = 0
    BY <1>1, DirsAre, ImagesAssumption
  <1>2. CASE n # 0
    <2>1. n - 1 \in Levels /\ n - 1 + 1 = n
      BY <1>2, LastLevel
    <2>2. PICK e \in Dirs(m)[n - 1] : d \in Subdirs(m, e)
      BY <2>1, DirsAre DEF Below
    <2>3. SoundDir(m, e)
      BY <2>1, SoundDirs
    <2> QED BY <2>2, <2>3, ContentsAre DEF Subdirs, Records
  <1> QED BY <1>1, <1>2

(* A sound directory is q sectors long.                                    *)
LEMMA WholeSectors ==
  ASSUME NEW m \in Images, NEW d \in Nat, SoundDir(m, d)
  PROVE  \E q \in Nat \ {0} :
           DirSize(m, d) = q * SECTOR /\ DirSectors(m, d) = d .. d + q - 1
  <1> DEFINE s == DirSize(m, d)
             q == s \div SECTOR
  <1>1. m.sectors[d][0] \in Records /\ s > 0 /\ s % SECTOR = 0
    BY ImagesAssumption DEF SoundDir
  <1>2. s \in Nat /\ SECTOR \in Nat \ {0}
    BY <1>1, ElToritoAssumption DEF Records, DirSize
  <1>3. DirSectors(m, d) = d .. d + q - 1
    BY DEF DirSectors
  <1> HIDE DEF s
  <1>4. q \in Nat /\ s = q * SECTOR + 0
    BY <1>1, <1>2, DivMod
  <1> HIDE DEF q
  <1>5. q # 0 /\ s = q * SECTOR
    BY <1>1, <1>2, <1>4
  <1> QED BY <1>3, <1>4, <1>5 DEF s

-----------------------------------------------------------------------------
(* What has been walked.  A directory at a depth is done with, for an       *)
(* address rba, if no record of it is at rba and its subdirectories are    *)
(* done with, as far down as the walk goes; the directories that are       *)
(* Clean are the most of which that can be said.                           *)
Passed(m, rba, D, l, r) ==
  r.ext # rba /\ (r.dir /\ l < Last => <<l + 1, r.ext>> \in D)
Closed(m, rba, D) ==
  \A p \in D : \A r \in Contents(m, p[2]) : Passed(m, rba, D, p[1], r)
Clean(m, rba) == UNION {D \in SUBSET (Levels \X Nat) : Closed(m, rba, D)}

LEMMA CleanIsClosed ==
  ASSUME NEW m, NEW rba
  PROVE  Closed(m, rba, Clean(m, rba))
  BY DEF Closed, Clean, Passed

LEMMA CleanGrows ==
  ASSUME NEW m, NEW rba, NEW l \in Levels, NEW d \in Nat,
         \A r \in Contents(m, d) : Passed(m, rba, Clean(m, rba), l, r)
  PROVE  <<l, d>> \in Clean(m, rba)
  <1> DEFINE D == Clean(m, rba) \cup {<<l, d>>}
  <1>1. D \in SUBSET (Levels \X Nat)
    BY DEF Clean
  <1>2. ASSUME NEW p \in D, NEW r \in Contents(m, p[2])
        PROVE  Passed(m, rba, D, p[1], r)
    <2>1. Passed(m, rba, Clean(m, rba), p[1], r)
      <3>1. CASE p \in Clean(m, rba)
        BY <1>2, <3>1, CleanIsClosed DEF Closed
      <3>2. CASE p = <<l, d>>
        BY <1>2, <3>2
      <3> QED BY <3>1, <3>2
    <2> QED BY <2>1 DEF Passed
  <1>3. Closed(m, rba, D)
    BY <1>2 DEF Closed
  <1>4. D \in {E \in SUBSET (Levels \X Nat) : Closed(m, rba, E)}
    BY <1>1, <1>3
  <1>5. <<l, d>> \in D
    OBVIOUS
  <1> HIDE DEF D
  <1> QED BY <1>4, <1>5 DEF Clean

(* With the root done with, no record the walk could see is at rba.        *)
LEMMA CleanImage ==
  ASSUME NEW m, NEW rba, <<0, m.root>> \in Clean(m, rba), NEW r \in Visible(m)
  PROVE  r.ext # rba
  <1> DEFINE T == {n \in 0 .. Last : \A d \in Dirs(m)[n] : <<n, d>> \in Clean(m, rba)}
  <1>1. 0 \in T
    BY DirsAre, LastLevel
  <1>2. ASSUME NEW n \in T, n < Last PROVE n + 1 \in T
    <2>1. n \in Levels /\ n + 1 \in Levels
      BY <1>2, LastLevel
    <2>2. ASSUME NEW e \in Dirs(m)[n + 1] PROVE <<n + 1, e>> \in Clean(m, rba)
      <3>1. PICK d \in Dirs(m)[n] : e \in Subdirs(m, d)
        BY <2>1, DirsAre DEF Below
      <3>2. PICK q \in Contents(m, d) : q.dir /\ e = q.ext
        BY <3>1 DEF Subdirs
      <3>3. <<n, d>> \in Clean(m, rba)
        BY <1>2
      <3>4. Passed(m, rba, Clean(m, rba), n, q)
        BY <3>3, CleanIsClosed DEF Closed
      <3> QED BY <1>2, <3>2, <3>4 DEF Passed
    <2> QED BY <2>1, <2>2, LastLevel
  <1>3. T = 0 .. Last
    <2> HIDE DEF T
    <2>1. T \in SUBSET (0 .. Last)
      BY DEF T
    <2> QED BY <1>1, <1>2, <2>1, Induction, LastLevel
  <1>4. PICK n \in Levels : \E d \in Dirs(m)[n] : r \in Contents(m, d)
    BY DEF Visible
  <1>5. PICK d \in Dirs(m)[n] : r \in Contents(m, d)
    BY <1>4
  <1>6. <<n, d>> \in Clean(m, rba)
    BY <1>3, LastLevel
  <1>7. Passed(m, rba, Clean(m, rba), n, r)
    BY <1>5, <1>6, CleanIsClosed DEF Closed
  <1> QED BY <1>7 DEF Passed

(* Where the walk stands in the directory d: in one of its sectors, at a    *)
(* record or past the last one of the sector, and past the first two of    *)
(* the directory; what remains reaches to its end.                         *)
StandsAt(m, d, n, o, rem) ==
  /\ n \in DirSectors(m, d)
  /\ n * SECTOR + o + rem = d * SECTOR + DirSize(m, d)
  /\ o <= SECTOR
  /\ o \in DOMAIN m.sectors[n] \/ \A p \in DOMAIN m.sectors[n] : p < o
  /\ n = d => \A p \in Heads(m, d) : p < o

(* The records before it are passed, but for the one that leads to the     *)
(* directories in, which the walk is in.                                   *)
Walked(m, rba, l, d, n, o, in) ==
  \A k \in DirSectors(m, d) : \A p \in Places(m, d, k) :
    k < n \/ (k = n /\ p < o) =>
      Passed(m, rba, Clean(m, rba) \cup {<<l + 1, e>> : e \in in}, l, m.sectors[k][p])

(* A directory all of whose records are passed is done with.               *)
LEMMA Finished ==
  ASSUME NEW m, NEW rba, NEW l \in Levels, NEW d \in Nat, NEW n, NEW o,
         Walked(m, rba, l, d, n, o, {}),
         \A k \in DirSectors(m, d) :
           k < n \/ (k = n /\ \A p \in DOMAIN m.sectors[k] : p < o)
  PROVE  <<l, d>> \in Clean(m, rba)
  <1>1. ASSUME NEW r \in Contents(m, d) PROVE Passed(m, rba, Clean(m, rba), l, r)
    <2>1. PICK k \in DirSectors(m, d) : r \in {m.sectors[k][p] : p \in Places(m, d, k)}
      BY DEF Contents
    <2>2. PICK p \in Places(m, d, k) : r = m.sectors[k][p]
      BY <2>1
    <2>3. k < n \/ (k = n /\ p < o)
      BY DEF Places
    <2>4. Passed(m, rba, Clean(m, rba) \cup {<<l + 1, e>> : e \in {}}, l, r)
      BY <2>2, <2>3 DEF Walked
    <2>5. Clean(m, rba) \cup {<<l + 1, e>> : e \in {}} = Clean(m, rba)
      OBVIOUS
    <2> QED BY <2>4, <2>5
  <1> QED BY <1>1, CleanGrows

(* When the directory that was entered is done with, so is its record.     *)
LEMMA Returned ==
  ASSUME NEW m, NEW rba, NEW l, NEW d, NEW n, NEW o, NEW e,
         Walked(m, rba, l, d, n, o, {e}), <<l + 1, e>> \in Clean(m, rba)
  PROVE  Walked(m, rba, l, d, n, o, {})
  <1>1. Clean(m, rba) \cup {<<l + 1, f>> : f \in {e}} = Clean(m, rba) \cup {<<l + 1, f>> : f \in {}}
    OBVIOUS
  <1> QED BY <1>1 DEF Walked

LEMMA Multiples ==
  ASSUME NEW w \in Nat \ {0}, NEW k \in Nat, NEW m \in Nat, k < m
  PROVE  k * w + w <= m * w /\ (k + 1) * w = k * w + w /\ k * w \in Nat /\ m * w \in Nat
  <1>1. m = k + 1 + (m - k - 1) /\ m - k - 1 \in Nat
    OBVIOUS
  <1>2. \A j \in Nat : (k + 1 + j) * w = k * w + w + j * w /\ j * w >= 0
    OBVIOUS
  <1>3. (k + 1) * w = k * w + w /\ k * w \in Nat /\ m * w \in Nat
    OBVIOUS
  <1> QED BY <1>1, <1>2, <1>3

(* In a directory there is room for the rest of the sector that is stood   *)
(* in; if no more remains it is the last one.                              *)
LEMMA RoomLeft ==
  ASSUME NEW m \in Images, NEW d \in Nat, SoundDir(m, d), NEW n, NEW o \in Nat, NEW rem \in Nat,
         StandsAt(m, d, n, o, rem)
  PROVE  /\ n \in Nat /\ n >= d /\ SECTOR - o \in Nat
         /\ rem - (SECTOR - o) \in Nat
         /\ rem - (SECTOR - o) = 0 => \A k \in DirSectors(m, d) : k <= n
         /\ rem - (SECTOR - o) # 0 =>
              /\ n + 1 \in DirSectors(m, d)
              /\ (n + 1) * SECTOR + 0 + (rem - (SECTOR - o)) = d * SECTOR + DirSize(m, d)
  <1>1. PICK q \in Nat \ {0} : DirSize(m, d) = q * SECTOR /\ DirSectors(m, d) = d .. d + q - 1
    BY WholeSectors
  <1>2. SECTOR \in Nat \ {0} /\ n \in Nat /\ n >= d /\ n < d + q
    BY <1>1, ElToritoAssumption DEF StandsAt
  <1> DEFINE a == n * SECTOR
             z == (d + q) * SECTOR
  <1>3. a + SECTOR <= z /\ (n + 1) * SECTOR = a + SECTOR /\ a \in Nat /\ z \in Nat
    BY <1>2, Multiples
  <1>4. z = d * SECTOR + DirSize(m, d)
    BY <1>1, <1>2
  <1>5. a + o + rem = z /\ o <= SECTOR
    BY <1>4 DEF StandsAt
  <1>6. ASSUME n + 1 < d + q PROVE a + SECTOR + SECTOR <= z
    <2>1. (n + 1) * SECTOR + SECTOR <= z
      BY <1>2, <1>6, Multiples
    <2> QED BY <1>3, <2>1
  <1> HIDE DEF a, z
  <1>7. SECTOR - o \in Nat /\ rem - (SECTOR - o) \in Nat
    BY <1>2, <1>3, <1>5
  <1>8. ASSUME rem - (SECTOR - o) = 0 PROVE \A k \in DirSectors(m, d) : k <= n
    <2>1. ~ (n + 1 < d + q)
      BY <1>2, <1>3, <1>5, <1>6, <1>8
    <2> QED BY <1>1, <1>2, <2>1
  <1>9. ASSUME rem - (SECTOR - o) # 0
        PROVE  /\ n + 1 \in DirSectors(m, d)
               /\ (n + 1) * SECTOR + 0 + (rem - (SECTOR - o)) = d * SECTOR + DirSize(m, d)
    <2>1. a + SECTOR + (rem - (SECTOR - o)) = z
      BY <1>2, <1>3, <1>5
    <2>2. a + SECTOR # z
      BY <1>2, <1>3, <1>5, <1>9
    <2>3. n + 1 # d + q
      BY <1>3, <2>2 DEF z
    <2>4. n + 1 \in DirSectors(m, d)
      BY <1>1, <1>2, <2>3
    <2>5. (a + SECTOR) + 0 + (rem - (SECTOR - o)) = z
      BY <1>2, <1>3, <1>7, <2>1
    <2> QED BY <1>3, <1>4, <2>4, <2>5
  <1> QED BY <1>2, <1>7, <1>8, <1>9

(* A directory entered: past its first two records.                        *)
LEMMA Opens ==
  ASSUME NEW m \in Images, NEW rba, NEW l, NEW d \in Nat, SoundDir(m, d),
         NEW self, self = m.sectors[d][0], NEW parent, parent = m.sectors[d][self.len]
  PROVE  /\ self.size - self.len - parent.len \in Nat
         /\ self.len + parent.len \in Nat \ {0}
         /\ StandsAt(m, d, d, self.len + parent.len, self.size - self.len - parent.len)
         /\ Walked(m, rba, l, d, d, self.len + parent.len, {})
  <1>1. PICK q \in Nat \ {0} : DirSize(m, d) = q * SECTOR /\ DirSectors(m, d) = d .. d + q - 1
    BY WholeSectors
  <1>2. d \in DirSectors(m, d) /\ 0 \in DOMAIN m.sectors[d] /\ self.len \in DOMAIN m.sectors[d]
    BY <1>1 DEF SoundDir
  <1>3. self \in Records /\ self.len > 0
    BY <1>2, RecordsOf
  <1>4. parent \in Records /\ parent.len > 0 /\ self.len + parent.len <= SECTOR
    BY <1>2, RecordsOf
  <1>5. /\ self.len \in Nat /\ parent.len \in Nat /\ self.size \in Nat /\ SECTOR \in Nat
        /\ self.size = DirSize(m, d)
    BY <1>3, <1>4, ElToritoAssumption DEF Records, DirSize
  <1> DEFINE o == self.len + parent.len
             rem == self.size - self.len - parent.len
  <1>6. SECTOR <= q * SECTOR
    <2>1. 0 * SECTOR + SECTOR <= q * SECTOR /\ 0 * SECTOR \in Nat /\ 0 * SECTOR = 0
      BY <1>1, ElToritoAssumption, Multiples
    <2> QED BY <1>5, <2>1
  <1>7. rem \in Nat /\ o \in Nat \ {0} /\ o <= SECTOR /\ o + rem = self.size
    <2>1. SECTOR <= self.size
      BY <1>1, <1>5, <1>6
    <2>2. \A x, y, z \in Nat : x + y <= SECTOR /\ SECTOR <= z =>
            z - x - y \in Nat /\ x + y + (z - x - y) = z
      BY <1>5
    <2>3. rem \in Nat /\ o + rem = self.size
      BY <1>4, <1>5, <2>1, <2>2
    <2> QED BY <1>3, <1>4, <1>5, <2>3
  <1>8. \A p \in DOMAIN m.sectors[d] : p > self.len => p >= o /\ o \in DOMAIN m.sectors[d]
    BY <1>2, RecordsOf
  <1>9. \A p \in DOMAIN m.sectors[d] : p \in Nat /\ (p > 0 => p >= self.len)
    <2>1. \A p \in DOMAIN m.sectors[d] : p > 0 => p >= 0 + self.len
      BY <1>2, RecordsOf
    <2>2. \A p \in DOMAIN m.sectors[d] : p \in Nat
      BY <1>2, RecordsOf
    <2> QED BY <1>5, <2>1, <2>2
  <1> HIDE DEF o, rem
  <1>10. \A p \in DOMAIN m.sectors[d] : p < o => p \in Heads(m, d)
    <2> SUFFICES ASSUME NEW p \in DOMAIN m.sectors[d], p < o PROVE p = 0 \/ p = self.len
      BY DEF Heads
    <2> QED BY <1>5, <1>7, <1>8, <1>9
  <1>11. StandsAt(m, d, d, o, rem)
    <2>1. d * SECTOR + o + rem = d * SECTOR + DirSize(m, d)
      <3>1. d * SECTOR \in Int
        BY <1>5
      <3>2. \A x, y, z, w \in Int : y + z = w => x + y + z = x + w
        OBVIOUS
      <3>3. o \in Int /\ rem \in Int /\ self.size \in Int
        BY <1>5, <1>7
      <3>4. d * SECTOR + o + rem = d * SECTOR + self.size
        BY <1>7, <3>1, <3>2, <3>3
      <3> QED BY <1>5, <3>4
    <2>2. o \in DOMAIN m.sectors[d] \/ \A p \in DOMAIN m.sectors[d] : p < o
      BY <1>3, <1>4, <1>5, <1>8, <1>9 DEF o
    <2>3. \A p \in Heads(m, d) : p < o
      BY <1>3, <1>4, <1>5 DEF o, Heads
    <2> QED BY <1>2, <1>7, <2>1, <2>2, <2>3 DEF StandsAt
  <1>12. Walked(m, rba, l, d, d, o, {})
    <2> SUFFICES ASSUME NEW k \in DirSectors(m, d), NEW p \in Places(m, d, k),
                        k < d \/ (k = d /\ p < o)
                 PROVE  FALSE
      BY DEF Walked
    <2>1. k = d
      BY <1>1
    <2> QED BY <1>10, <2>1 DEF Places
  <1> QED BY <1>7, <1>11, <1>12 DEF o, rem

(* The end of a sector: the next one is at its beginning, or there is none *)
(* and all is walked.                                                      *)
LEMMA Turns ==
  ASSUME NEW m \in Images, NEW rba, NEW l \in Levels, NEW d \in Nat, SoundDir(m, d),
         NEW n, NEW o \in Nat, NEW rem \in Nat,
         StandsAt(m, d, n, o, rem), Walked(m, rba, l, d, n, o, {}),
         \A p \in DOMAIN m.sectors[n] : p < o
  PROVE  /\ rem - (SECTOR - o) \in Nat
         /\ rem - (SECTOR - o) = 0 => <<l, d>> \in Clean(m, rba)
         /\ rem - (SECTOR - o) # 0 =>
              /\ StandsAt(m, d, n + 1, 0, rem - (SECTOR - o))
              /\ Walked(m, rba, l, d, n + 1, 0, {})
  <1> DEFINE left == rem - (SECTOR - o)
  <1>1. /\ n \in Nat /\ n >= d
        /\ left \in Nat
        /\ left = 0 => \A k \in DirSectors(m, d) : k <= n
        /\ left # 0 => /\ n + 1 \in DirSectors(m, d)
                       /\ (n + 1) * SECTOR + 0 + left = d * SECTOR + DirSize(m, d)
    BY RoomLeft
  <1>2. \A k \in DirSectors(m, d) : k \in Nat
    <2>1. PICK q \in Nat \ {0} : DirSectors(m, d) = d .. d + q - 1
      BY WholeSectors
    <2> QED BY <2>1
  <1>3. ASSUME left = 0 PROVE <<l, d>> \in Clean(m, rba)
    <2>1. \A k \in DirSectors(m, d) :
            k < n \/ (k = n /\ \A p \in DOMAIN m.sectors[k] : p < o)
      BY <1>1, <1>2, <1>3
    <2> QED BY <2>1, Finished
  <1>4. ASSUME left # 0
        PROVE  StandsAt(m, d, n + 1, 0, left) /\ Walked(m, rba, l, d, n + 1, 0, {})
    <2>1. n + 1 \in DirSectors(m, d) /\ SoundSector(m.sectors[n + 1])
          /\ (n + 1) * SECTOR + 0 + left = d * SECTOR + DirSize(m, d)
      BY <1>1, <1>4 DEF SoundDir
    <2>2. 0 \in DOMAIN m.sectors[n + 1] \/ \A p \in DOMAIN m.sectors[n + 1] : p < 0
      BY <2>1 DEF SoundSector
    <2>3. n + 1 # d /\ 0 <= SECTOR
      BY <1>1, ElToritoAssumption
    <2>4. StandsAt(m, d, n + 1, 0, left)
      BY <2>1, <2>2, <2>3 DEF StandsAt
    <2>5. ASSUME NEW k \in DirSectors(m, d), NEW p \in Places(m, d, k),
                 k < n + 1 \/ (k = n + 1 /\ p < 0)
          PROVE  k < n \/ (k = n /\ p < o)
      <3>1. p \in DOMAIN m.sectors[k] /\ p \in Nat
        BY RecordsOf DEF Places
      <3> QED BY <1>1, <1>2, <2>5, <3>1
    <2>6. Walked(m, rba, l, d, n + 1, 0, {})
      BY <2>5 DEF Walked
    <2> QED BY <2>4, <2>6
  <1> QED BY <1>1, <1>3, <1>4

(* Nothing remains where the walk stands: all is walked.                   *)
LEMMA Exhausted ==
  ASSUME NEW m \in Images, NEW rba, NEW l \in Levels, NEW d \in Nat, SoundDir(m, d),
         NEW n, NEW o \in Nat, StandsAt(m, d, n, o, 0), Walked(m, rba, l, d, n, o, {})
  PROVE  <<l, d>> \in Clean(m, rba)
  <1>1. SECTOR - o \in Nat /\ 0 - (SECTOR - o) \in Nat
    BY RoomLeft
  <1>2. SECTOR - o = 0 /\ o = SECTOR /\ 0 - (SECTOR - o) = 0
    BY <1>1, ElToritoAssumption
  <1>3. n \in DirSectors(m, d)
    BY DEF StandsAt
  <1>4. ASSUME NEW p \in DOMAIN m.sectors[n] PROVE p < o
    <2>1. /\ m.sectors[n][p] \in Records /\ p \in Nat
          /\ m.sectors[n][p].len > 0 /\ p + m.sectors[n][p].len <= SECTOR
      BY <1>3, RecordsOf
    <2>2. m.sectors[n][p].len \in Nat
      BY <2>1, ElToritoAssumption DEF Records
    <2> QED BY <1>2, <2>1, <2>2
  <1> QED BY <1>2, <1>4, Turns

(* A record that is not the file's is passed; its directory, if it is one, *)
(* may be entered.                                                         *)
LEMMA Passes ==
  ASSUME NEW m \in Images, NEW rba, NEW l \in Levels, NEW d \in Nat, SoundDir(m, d),
         NEW n, NEW o \in Nat, NEW rem \in Nat,
         StandsAt(m, d, n, o, rem), Walked(m, rba, l, d, n, o, {}),
         o \in DOMAIN m.sectors[n], NEW r, r = m.sectors[n][o], r.ext # rba
  PROVE  /\ rem - r.len \in Nat /\ o + r.len \in Nat \ {0}
         /\ StandsAt(m, d, n, o + r.len, rem - r.len)
         /\ Walked(m, rba, l, d, n, o + r.len, {r.ext})
         /\ ~ (r.dir /\ l < Last) => Walked(m, rba, l, d, n, o + r.len, {})
  <1>1. n \in DirSectors(m, d)
    BY DEF StandsAt
  <1>2. /\ r \in Records /\ r.len > 0 /\ o + r.len <= SECTOR
        /\ \A p \in DOMAIN m.sectors[n] :
             p > o => p >= o + r.len /\ o + r.len \in DOMAIN m.sectors[n]
    BY <1>1, RecordsOf
  <1>3. \A p \in DOMAIN m.sectors[n] : p \in Nat
    BY <1>1, RecordsOf
  <1>4. r.len \in Nat /\ SECTOR \in Nat /\ n \in Nat
        /\ rem - (SECTOR - o) \in Nat /\ SECTOR - o \in Nat
    BY <1>2, RoomLeft, ElToritoAssumption DEF Records
  <1>5. rem - r.len \in Nat /\ o + r.len \in Nat \ {0}
    BY <1>2, <1>4
  <1>6. StandsAt(m, d, n, o + r.len, rem - r.len)
    <2>1. n * SECTOR + (o + r.len) + (rem - r.len) = d * SECTOR + DirSize(m, d)
      <3>1. \A x, y, z, w \in Int : x + (y + w) + (z - w) = x + y + z
        OBVIOUS
      <3>2. n * SECTOR \in Int /\ o \in Int /\ rem \in Int /\ r.len \in Int
        BY <1>4
      <3>3. n * SECTOR + (o + r.len) + (rem - r.len) = n * SECTOR + o + rem
        BY <3>1, <3>2
      <3> QED BY <3>3 DEF StandsAt
    <2>2. o + r.len \in DOMAIN m.sectors[n] \/ \A p \in DOMAIN m.sectors[n] : p < o + r.len
      BY <1>2, <1>3, <1>4
    <2>3. n = d => \A p \in Heads(m, d) : p < o + r.len
      <3>1. n = d => \A p \in Heads(m, d) : p < o
        BY DEF StandsAt
      <3>2. n = d => \A p \in Heads(m, d) : p \in Int
        BY <1>3 DEF SoundDir, Heads
      <3> QED BY <1>2, <1>4, <3>1, <3>2
    <2> QED BY <1>1, <1>2, <2>1, <2>2, <2>3 DEF StandsAt
  <1>7. ASSUME NEW in,
               Passed(m, rba, Clean(m, rba) \cup {<<l + 1, e>> : e \in in}, l, r)
        PROVE  Walked(m, rba, l, d, n, o + r.len, in)
    <2> SUFFICES ASSUME NEW k \in DirSectors(m, d), NEW p \in Places(m, d, k),
                        k < n \/ (k = n /\ p < o + r.len)
                 PROVE  Passed(m, rba, Clean(m, rba) \cup {<<l + 1, e>> : e \in in}, l,
                               m.sectors[k][p])
      BY DEF Walked
    <2>1. CASE k = n /\ p = o
      BY <1>7, <2>1
    <2>2. CASE ~ (k = n /\ p = o)
      <3>1. p \in DOMAIN m.sectors[k] /\ p \in Nat
        BY RecordsOf DEF Places
      <3>2. k < n \/ (k = n /\ p < o)
        <4>1. CASE k = n
          BY <1>2, <1>4, <2>2, <3>1, <4>1
        <4> QED BY <4>1
      <3>3. Passed(m, rba, Clean(m, rba) \cup {<<l + 1, e>> : e \in {}}, l, m.sectors[k][p])
        BY <3>2 DEF Walked
      <3> QED BY <3>3 DEF Passed
    <2> QED BY <2>1, <2>2
  <1>8. Walked(m, rba, l, d, n, o + r.len, {r.ext})
    BY <1>7 DEF Passed
  <1>9. ~ (r.dir /\ l < Last) => Walked(m, rba, l, d, n, o + r.len, {})
    BY <1>7 DEF Passed
  <1> QED BY <1>5, <1>6, <1>8, <1>9

-----------------------------------------------------------------------------
(* The walk.                                                               *)

(* On the levels above, the walk stands at a record past the one that led  *)
(* to the directory below.                                                 *)
UpTo(m, rba, lvl, loc, off, rem, dirs) ==
  /\ \A l \in 0 .. lvl : dirs[l] \in Dirs(m)[l]
  /\ \A l \in 0 .. lvl - 1 :
       /\ off[l] > 0
       /\ StandsAt(m, dirs[l], loc[l], off[l], rem[l])
       /\ Walked(m, rba, l, dirs[l], loc[l], off[l], {dirs[l + 1]})

(* On the lowest, a directory has yet to be entered, or is stood in.       *)
Here(m, rba, l, d, n, o, rem) ==
  IF o = 0 /\ rem = 0 THEN n = d
  ELSE StandsAt(m, d, n, o, rem) /\ Walked(m, rba, l, d, n, o, {})

Trail(m, rba, lvl, loc, off, rem) ==
  IF lvl < 0 THEN <<0, m.root>> \in Clean(m, rba)
  ELSE \E dirs : /\ UpTo(m, rba, lvl, loc, off, rem, dirs)
                 /\ Here(m, rba, lvl, dirs[lvl], loc[lvl], off[lvl], rem[lvl])

(* What is at temp is the sector that is stood in, unless it is to be read.*)
WalkInv ==
  pc = "walk" /\ Sound(img) =>
    /\ level >= 0 /\ sec_offset[level] # 0 => temp = sec_loc[level]
    /\ Trail(img, chosen.rba, level, sec_loc, sec_offset, dir_rem)

(* The levels above do not depend on what the walk does on the lowest.     *)
LEMMA UpToSame ==
  ASSUME NEW m, NEW rba, NEW lvl \in Levels, NEW loc, NEW off, NEW rem, NEW dirs,
         NEW loc2, NEW off2, NEW rem2, UpTo(m, rba, lvl, loc, off, rem, dirs),
         \A l \in 0 .. lvl - 1 : loc2[l] = loc[l] /\ off2[l] = off[l] /\ rem2[l] = rem[l]
  PROVE  UpTo(m, rba, lvl, loc2, off2, rem2, dirs)
  BY DEF UpTo

(* A directory that is done with is left.                                  *)
LEMMA Leaves ==
  ASSUME NEW m, NEW rba, NEW lvl \in Levels, NEW loc, NEW off, NEW rem, NEW dirs,
         UpTo(m, rba, lvl, loc, off, rem, dirs), <<lvl, dirs[lvl]>> \in Clean(m, rba)
  PROVE  /\ Trail(m, rba, lvl - 1, loc, off, rem)
         /\ lvl > 0 => off[lvl - 1] > 0
  <1>1. CASE lvl = 0
    <2>1. 0 \in 0 .. lvl /\ lvl - 1 < 0
      BY <1>1
    <2>2. dirs[0] = m.root
      BY <2>1, DirsAre DEF UpTo
    <2> QED BY <1>1, <2>1, <2>2 DEF Trail
  <1>2. CASE lvl # 0
    <2> DEFINE u == lvl - 1
    <2>1. /\ u \in Nat /\ u + 1 = lvl /\ u \in 0 .. lvl - 1 /\ ~ (u < 0)
          /\ 0 .. u \subseteq 0 .. lvl /\ 0 .. u - 1 \subseteq 0 .. lvl - 1
      BY <1>2, LastLevel
    <2> HIDE DEF u
    <2>2. /\ off[u] > 0
          /\ StandsAt(m, dirs[u], loc[u], off[u], rem[u])
          /\ Walked(m, rba, u, dirs[u], loc[u], off[u], {dirs[u + 1]})
      BY <2>1 DEF UpTo
    <2>3. Walked(m, rba, u, dirs[u], loc[u], off[u], {})
      BY <2>1, <2>2, Returned
    <2>4. off[u] # 0
      BY <2>2
    <2>5. Here(m, rba, u, dirs[u], loc[u], off[u], rem[u])
      BY <2>2, <2>3, <2>4 DEF Here
    <2>6. UpTo(m, rba, u, loc, off, rem, dirs)
      BY <2>1 DEF UpTo
    <2>7. Trail(m, rba, u, loc, off, rem)
      BY <2>1, <2>5, <2>6 DEF Trail
    <2> QED BY <2>2, <2>7 DEF u
  <1> QED BY <1>1, <1>2

(* The walk at a level, on a sound image.                                  *)
LEMMA Standing ==
  ASSUME TypeInv, WalkInv, pc = "walk", Sound(img), level >= 0
  PROVE  /\ img \in Images /\ level \in Levels /\ level \in Nat
         /\ sec_offset[level] \in Nat /\ dir_rem[level] \in Nat
         /\ \E dirs :
              /\ UpTo(img, chosen.rba, level, sec_loc, sec_offset, dir_rem, dirs)
              /\ Here(img, chosen.rba, level, dirs[level], sec_loc[level],
                      sec_offset[level], dir_rem[level])
              /\ dirs[level] \in Dirs(img)[level] /\ dirs[level] \in Nat
              /\ SoundDir(img, dirs[level])
  <1>1. level \in Levels /\ level \in 0 .. level /\ img \in Images /\ ~ (level < 0)
    BY ElToritoAssumption DEF TypeInv, TypeOK, Levels
  <1>2. sec_offset[level] \in Nat /\ dir_rem[level] \in Nat
    BY <1>1, ElToritoAssumption DEF TypeInv, TypeOK
  <1>3. PICK dirs :
          /\ UpTo(img, chosen.rba, level, sec_loc, sec_offset, dir_rem, dirs)
          /\ Here(img, chosen.rba, level, dirs[level], sec_loc[level],
                  sec_offset[level], dir_rem[level])
    BY <1>1 DEF WalkInv, Trail
  <1>4. dirs[level] \in Dirs(img)[level]
    BY <1>1, <1>3 DEF UpTo
  <1>5. dirs[level] \in Nat /\ SoundDir(img, dirs[level])
    BY <1>1, <1>4, DirsType, SoundDirs
  <1> QED BY <1>1, <1>2, <1>3, <1>4, <1>5, LastLevel

(* At a record, what the loop looks at is the sector that is stood in.     *)
LEMMA Looking ==
  ASSUME TypeInv, WalkInv, AtRecord, Sound(img)
  PROVE  /\ pc = "walk" /\ level >= 0 /\ img \in Images /\ level \in Levels /\ level \in Nat
         /\ sec_offset[level] \in Nat /\ dir_rem[level] \in Nat
         /\ Buffer = sec_loc[level]
         /\ \E dirs :
              /\ UpTo(img, chosen.rba, level, sec_loc, sec_offset, dir_rem, dirs)
              /\ StandsAt(img, dirs[level], sec_loc[level], sec_offset[level], dir_rem[level])
              /\ Walked(img, chosen.rba, level, dirs[level], sec_loc[level],
                        sec_offset[level], {})
              /\ dirs[level] \in Dirs(img)[level] /\ dirs[level] \in Nat
              /\ SoundDir(img, dirs[level])
  <1>1. pc = "walk" /\ level >= 0 /\ ~ (sec_offset[level] = 0 /\ dir_rem[level] = 0)
    BY DEF AtRecord
  <1>2. Buffer = sec_loc[level]
    BY <1>1 DEF Buffer, WalkInv
  <1> QED BY <1>1, <1>2, Standing DEF Here

(* The record there, which begins before the end of the sector.            *)
LEMMA RecordThere ==
  ASSUME NEW m \in Images, m = img, NEW d, SoundDir(m, d), NEW n, NEW o \in Nat, NEW rem,
         StandsAt(m, d, n, o, rem)
  PROVE  /\ (RecordAt(n, o).len # 0 /\ o # SECTOR) =>
              o \in DOMAIN m.sectors[n] /\ RecordAt(n, o) = m.sectors[n][o]
         /\ (RecordAt(n, o).len = 0 \/ o = SECTOR) => \A p \in DOMAIN m.sectors[n] : p < o
  <1>1. n \in DirSectors(m, d)
    BY DEF StandsAt
  <1>2. ASSUME o \in DOMAIN m.sectors[n]
        PROVE  RecordAt(n, o) = m.sectors[n][o] /\ RecordAt(n, o).len # 0 /\ o # SECTOR
    <2>1. RecordAt(n, o) = m.sectors[n][o]
      BY <1>2 DEF RecordAt
    <2>2. /\ m.sectors[n][o] \in Records
          /\ m.sectors[n][o].len > 0 /\ o + m.sectors[n][o].len <= SECTOR
      BY <1>1, <1>2, RecordsOf
    <2>3. m.sectors[n][o].len \in Nat /\ SECTOR \in Nat
      BY <2>2, ElToritoAssumption DEF Records
    <2> QED BY <2>1, <2>2, <2>3
  <1>3. o \notin DOMAIN m.sectors[n] => RecordAt(n, o).len = 0
    BY DEF RecordAt, NoRecord
  <1> QED BY <1>2, <1>3 DEF StandsAt

LEMMA StartWalkKeeps ==
  ASSUME TypeInv, StartWalk
  PROVE  WalkInv'
  <1> DEFINE dirs == [l \in 0 .. 0 |-> img.root]
  <1>1. 0 \in Levels /\ level' = 0 /\ img' = img /\ chosen' = chosen
    BY LastLevel DEF StartWalk, chosen
  <1>2. sec_loc'[0] = img.root /\ sec_offset'[0] = 0 /\ dir_rem'[0] = 0
    BY <1>1 DEF StartWalk, TypeInv, TypeOK
  <1>3. UpTo(img, chosen.rba, 0, sec_loc', sec_offset', dir_rem', dirs)
    BY DirsAre DEF UpTo
  <1>4. Here(img, chosen.rba, 0, dirs[0], sec_loc'[0], sec_offset'[0], dir_rem'[0])
    BY <1>2 DEF Here
  <1> HIDE DEF dirs
  <1>5. Trail(img, chosen.rba, 0, sec_loc', sec_offset', dir_rem')
    BY <1>3, <1>4 DEF Trail
  <1> QED BY <1>1, <1>2, <1>5 DEF WalkInv

LEMMA FirstRecordsKeeps ==
  ASSUME TypeInv, WalkInv, FirstRecords, Sound(img)
  PROVE  WalkInv'
  <1>0. pc = "walk" /\ level >= 0 /\ sec_offset[level] = 0 /\ dir_rem[level] = 0
        /\ img' = img /\ chosen' = chosen
    BY DEF FirstRecords, chosen
  <1>1. img \in Images /\ level \in Levels /\ level \in Nat
    BY <1>0, Standing
  <1>2. PICK dirs :
          /\ UpTo(img, chosen.rba, level, sec_loc, sec_offset, dir_rem, dirs)
          /\ Here(img, chosen.rba, level, dirs[level], sec_loc[level],
                  sec_offset[level], dir_rem[level])
          /\ dirs[level] \in Nat /\ SoundDir(img, dirs[level])
    BY <1>0, Standing
  <1> DEFINE d == dirs[level]
             self == RecordAt(d, 0)
             parent == RecordAt(d, self.len)
             rem == self.size - self.len - parent.len
             o == self.len + parent.len
  <1>3. sec_loc[level] = d
    BY <1>0, <1>2 DEF Here
  <1>4. d \in DOMAIN img.sectors /\ self = img.sectors[d][0] /\ parent = img.sectors[d][self.len]
    BY <1>2 DEF SoundDir, RecordAt
  <1>5. /\ temp' = d
        /\ dir_rem' = [dir_rem EXCEPT ![level] = Wrap(rem)]
        /\ sec_offset' = [sec_offset EXCEPT ![level] = o]
        /\ UNCHANGED <<pc, level, sec_loc>>
    BY <1>3, <1>4 DEF FirstRecords
  <1>6. /\ rem \in Nat /\ o \in Nat \ {0} /\ StandsAt(img, d, d, o, rem)
        /\ Walked(img, chosen.rba, level, d, d, o, {})
    BY <1>1, <1>2, <1>4, Opens
  <1>7. Wrap(rem) = rem
    BY <1>6 DEF Wrap
  <1> HIDE DEF self, parent, rem, o
  <1>8. /\ sec_offset'[level] = o /\ dir_rem'[level] = rem
        /\ \A l \in 0 .. level - 1 :
             sec_loc'[l] = sec_loc[l] /\ sec_offset'[l] = sec_offset[l] /\ dir_rem'[l] = dir_rem[l]
    BY <1>1, <1>5, <1>7, LastLevel DEF TypeInv, TypeOK
  <1>9. UpTo(img, chosen.rba, level, sec_loc', sec_offset', dir_rem', dirs)
    BY <1>1, <1>2, <1>8, UpToSame
  <1>10. Here(img, chosen.rba, level, d, d, o, rem)
    BY <1>6 DEF Here
  <1>11. Trail(img, chosen.rba, level, sec_loc', sec_offset', dir_rem')
    BY <1>1, <1>3, <1>5, <1>8, <1>9, <1>10 DEF Trail
  <1> QED BY <1>0, <1>3, <1>5, <1>11 DEF WalkInv

(* A directory of which nothing remains is left, another stays.            *)
LEMMA LeaveKeeps ==
  ASSUME TypeInv, pc = "walk", Sound(img), level \in Levels, NEW left \in Nat, NEW dirs,
         UpTo(img, chosen.rba, level, sec_loc', sec_offset', dir_rem', dirs),
         left = 0 => <<level, dirs[level]>> \in Clean(img, chosen.rba),
         left # 0 => Here(img, chosen.rba, level, dirs[level], sec_loc'[level],
                          sec_offset'[level], dir_rem'[level]),
         \A l \in 0 .. level - 1 : sec_loc'[l] = sec_loc[l],
         sec_offset'[level] # 0 => sec_loc[level] = sec_loc'[level],
         Leave(left, sec_loc[level]), img' = img, chosen' = chosen
  PROVE  WalkInv'
  <1>1. level \in Nat /\ ~ (level < 0)
    BY LastLevel
  <1>2. CASE left = 0
    <2>1. /\ Trail(img, chosen.rba, level - 1, sec_loc', sec_offset', dir_rem')
          /\ level' = level - 1
      BY <1>2, Leaves DEF Leave
    <2>2. CASE level > 0
      <3>1. level - 1 \in 0 .. level - 1 /\ temp' = sec_loc[level - 1]
        BY <1>1, <1>2, <2>2 DEF Leave
      <3>2. temp' = sec_loc'[level']
        BY <2>1, <3>1
      <3> QED BY <2>1, <3>2 DEF WalkInv
    <2>3. CASE level = 0
      <3>1. ~ (level' >= 0)
        BY <2>1, <2>3
      <3> QED BY <2>1, <3>1 DEF WalkInv
    <2> QED BY <1>1, <2>2, <2>3
  <1>3. CASE left # 0
    <2>1. temp' = sec_loc[level] /\ level' = level /\ pc' = pc
      BY <1>3 DEF Leave
    <2>2. Trail(img, chosen.rba, level, sec_loc', sec_offset', dir_rem')
      BY <1>1, <1>3 DEF Trail
    <2> QED BY <2>1, <2>2 DEF WalkInv
  <1> QED BY <1>2, <1>3

LEMMA NextSectorKeeps ==
  ASSUME TypeInv, WalkInv, NextSector, Sound(img)
  PROVE  WalkInv'
  <1>1. /\ pc = "walk" /\ img \in Images /\ level \in Levels /\ level \in Nat
        /\ sec_offset[level] \in Nat /\ dir_rem[level] \in Nat /\ Buffer = sec_loc[level]
        /\ img' = img /\ chosen' = chosen
    BY Looking DEF NextSector, chosen
  <1>2. PICK dirs :
          /\ UpTo(img, chosen.rba, level, sec_loc, sec_offset, dir_rem, dirs)
          /\ StandsAt(img, dirs[level], sec_loc[level], sec_offset[level], dir_rem[level])
          /\ Walked(img, chosen.rba, level, dirs[level], sec_loc[level], sec_offset[level], {})
          /\ dirs[level] \in Nat /\ SoundDir(img, dirs[level])
    BY Looking DEF NextSector
  <1> DEFINE o == sec_offset[level]
             left == dir_rem[level] - (SECTOR - o)
  <1>3. /\ RecordAt(sec_loc[level], o).len = 0 \/ o = SECTOR
        /\ dir_rem' = [dir_rem EXCEPT ![level] = Wrap(left)] /\ Leave(Wrap(left), sec_loc[level])
        /\ sec_offset' = [sec_offset EXCEPT ![level] = 0]
        /\ sec_loc' = [sec_loc EXCEPT ![level] = @ + 1]
    BY <1>1 DEF NextSector
  <1>4. \A p \in DOMAIN img.sectors[sec_loc[level]] : p < o
    BY <1>1, <1>2, <1>3, RecordThere
  <1>5. /\ left \in Nat
        /\ left = 0 => <<level, dirs[level]>> \in Clean(img, chosen.rba)
        /\ left # 0 =>
             /\ StandsAt(img, dirs[level], sec_loc[level] + 1, 0, left)
             /\ Walked(img, chosen.rba, level, dirs[level], sec_loc[level] + 1, 0, {})
    BY <1>1, <1>2, <1>4, Turns
  <1> HIDE DEF o, left
  <1>6. Wrap(left) = left
    BY <1>5 DEF Wrap
  <1>7. /\ sec_offset'[level] = 0 /\ dir_rem'[level] = left /\ sec_loc'[level] = sec_loc[level] + 1
        /\ \A l \in 0 .. level - 1 :
             sec_loc'[l] = sec_loc[l] /\ sec_offset'[l] = sec_offset[l] /\ dir_rem'[l] = dir_rem[l]
    <2>1. sec_offset'[level] = 0 /\ dir_rem'[level] = left /\ sec_loc'[level] = sec_loc[level] + 1
      BY <1>1, <1>3, <1>6 DEF TypeInv, TypeOK
    <2>2. ASSUME NEW l \in 0 .. level - 1
          PROVE  sec_loc'[l] = sec_loc[l] /\ sec_offset'[l] = sec_offset[l] /\ dir_rem'[l] = dir_rem[l]
      <3>1. l \in Levels /\ l # level
        BY <1>1, LastLevel
      <3> QED BY <1>1, <1>3, <3>1 DEF TypeInv, TypeOK
    <2> QED BY <2>1, <2>2
  <1>8. UpTo(img, chosen.rba, level, sec_loc', sec_offset', dir_rem', dirs)
    BY <1>1, <1>2, <1>7, UpToSame
  <1>9. left # 0 => Here(img, chosen.rba, level, dirs[level], sec_loc'[level],
                         sec_offset'[level], dir_rem'[level])
    BY <1>5, <1>7 DEF Here
  <1>10. Leave(left, sec_loc[level])
    BY <1>3, <1>6
  <1> QED BY <1>1, <1>5, <1>7, <1>8, <1>9, <1>10, LeaveKeeps

LEMMA PassKeeps ==
  ASSUME TypeInv, WalkInv, Pass, Sound(img)
  PROVE  WalkInv'
  <1>1. /\ pc = "walk" /\ img \in Images /\ level \in Levels /\ level \in Nat
        /\ sec_offset[level] \in Nat /\ dir_rem[level] \in Nat /\ Buffer = sec_loc[level]
        /\ img' = img /\ chosen' = chosen
    BY Looking DEF Pass, chosen
  <1>2. PICK dirs :
          /\ UpTo(img, chosen.rba, level, sec_loc, sec_offset, dir_rem, dirs)
          /\ StandsAt(img, dirs[level], sec_loc[level], sec_offset[level], dir_rem[level])
          /\ Walked(img, chosen.rba, level, dirs[level], sec_loc[level], sec_offset[level], {})
          /\ dirs[level] \in Dirs(img)[level] /\ dirs[level] \in Nat
          /\ SoundDir(img, dirs[level])
    BY Looking DEF Pass
  <1> DEFINE n == sec_loc[level]
             o == sec_offset[level]
             d == dirs[level]
             r == RecordAt(n, o)
             rem == dir_rem[level] - r.len
  <1>3. r.len # 0 /\ o # SECTOR /\ r.ext # chosen.rba
    BY <1>1 DEF Pass
  <1>4. o \in DOMAIN img.sectors[n] /\ r = img.sectors[n][o]
    BY <1>1, <1>2, <1>3, RecordThere
  <1>5. /\ rem \in Nat /\ o + r.len \in Nat \ {0}
        /\ StandsAt(img, d, n, o + r.len, rem)
        /\ Walked(img, chosen.rba, level, d, n, o + r.len, {r.ext})
        /\ ~ (r.dir /\ level < Last) => Walked(img, chosen.rba, level, d, n, o + r.len, {})
    BY <1>1, <1>2, <1>3, <1>4, Passes
  <1>6. Wrap(rem) = rem
    BY <1>5 DEF Wrap
  <1>7. r.dir /\ level < Last <=> MayEnter(r)
    BY DEF MayEnter, Last
  <1>8. CASE MayEnter(r)
    <2>1. /\ level' = level + 1
          /\ sec_loc' = [sec_loc EXCEPT ![level + 1] = r.ext]
          /\ sec_offset' = [sec_offset EXCEPT ![level] = @ + r.len, ![level + 1] = 0]
          /\ dir_rem' = [dir_rem EXCEPT ![level] = Wrap(rem), ![level + 1] = 0]
      BY <1>1, <1>8 DEF Pass
    <2>2. level + 1 \in Levels /\ level + 1 # level
      BY <1>1, <1>7, <1>8, LastLevel
    <2>3. r.ext \in Dirs(img)[level + 1]
      <3>1. r \in Contents(img, d)
        <4>1. n \in DirSectors(img, d) /\ (n = d => \A p \in Heads(img, d) : p < o)
          BY <1>2 DEF StandsAt
        <4>2. o \notin Heads(img, d) \/ n # d
          BY <1>1, <4>1
        <4>3. o \in Places(img, d, n)
          BY <1>4, <4>2 DEF Places
        <4> QED BY <1>4, <4>1, <4>3 DEF Contents
      <3>2. r.ext \in Subdirs(img, d)
        BY <1>7, <1>8, <3>1 DEF Subdirs
      <3> QED BY <1>1, <1>2, <2>2, <3>2, DirsAre DEF Below
    <2> DEFINE in == [l \in 0 .. level + 1 |-> IF l = level + 1 THEN r.ext ELSE dirs[l]]
    <2> HIDE DEF r, rem, o, n, d
    <2>4. /\ sec_loc'[level + 1] = r.ext /\ sec_offset'[level + 1] = 0 /\ dir_rem'[level + 1] = 0
          /\ sec_loc'[level] = n /\ sec_offset'[level] = o + r.len /\ dir_rem'[level] = rem
      BY <1>1, <1>6, <2>1, <2>2 DEF TypeInv, TypeOK, n, o
    <2>5. \A l \in 0 .. level - 1 :
            sec_loc'[l] = sec_loc[l] /\ sec_offset'[l] = sec_offset[l] /\ dir_rem'[l] = dir_rem[l]
      <3> SUFFICES ASSUME NEW l \in 0 .. level - 1
                   PROVE  sec_loc'[l] = sec_loc[l] /\ sec_offset'[l] = sec_offset[l]
                          /\ dir_rem'[l] = dir_rem[l]
        OBVIOUS
      <3>1. l \in Levels /\ l # level /\ l # level + 1
        BY <1>1, LastLevel
      <3> QED BY <1>1, <2>1, <3>1 DEF TypeInv, TypeOK
    <2>6. /\ in[level + 1] = r.ext /\ in[level] = d
          /\ \A l \in 0 .. level : in[l] = dirs[l] /\ l \in 0 .. level + 1
      BY <1>1 DEF d
    <2> HIDE DEF in
    <2>7. \A l \in 0 .. level + 1 : in[l] \in Dirs(img)[l]
      <3>1. \A l \in 0 .. level : in[l] \in Dirs(img)[l]
        BY <1>2, <2>6 DEF UpTo
      <3>2. \A l \in 0 .. level + 1 : l \in 0 .. level \/ l = level + 1
        BY <1>1
      <3> QED BY <2>3, <2>6, <3>1, <3>2
    <2>8. ASSUME NEW l \in 0 .. (level + 1) - 1
          PROVE  /\ sec_offset'[l] > 0
                 /\ StandsAt(img, in[l], sec_loc'[l], sec_offset'[l], dir_rem'[l])
                 /\ Walked(img, chosen.rba, l, in[l], sec_loc'[l], sec_offset'[l], {in[l + 1]})
      <3>1. CASE l = level
        <4>1. o + r.len > 0
          BY <1>5
        <4> QED BY <1>5, <2>4, <2>6, <3>1, <4>1
      <3>2. CASE l # level
        <4>1. l \in 0 .. level - 1 /\ l \in 0 .. level /\ l + 1 \in 0 .. level
          BY <1>1, <3>2
        <4>2. in[l] = dirs[l] /\ in[l + 1] = dirs[l + 1]
          BY <2>6, <4>1
        <4> QED BY <1>2, <2>5, <4>1, <4>2 DEF UpTo
      <3> QED BY <3>1, <3>2
    <2>9. UpTo(img, chosen.rba, level + 1, sec_loc', sec_offset', dir_rem', in)
      BY <2>7, <2>8 DEF UpTo
    <2>10. Here(img, chosen.rba, level + 1, in[level + 1], sec_loc'[level + 1],
                sec_offset'[level + 1], dir_rem'[level + 1])
      BY <2>4, <2>6 DEF Here
    <2>11. Trail(img, chosen.rba, level + 1, sec_loc', sec_offset', dir_rem')
      <3>1. ~ (level + 1 < 0)
        BY <1>1
      <3> QED BY <2>9, <2>10, <3>1 DEF Trail
    <2>12. sec_offset'[level'] = 0 /\ level' = level + 1
      BY <2>1, <2>4
    <2> QED BY <1>1, <2>11, <2>12 DEF WalkInv
  <1>9. CASE ~ MayEnter(r)
    <2>1. /\ sec_offset' = [sec_offset EXCEPT ![level] = @ + r.len]
          /\ dir_rem' = [dir_rem EXCEPT ![level] = Wrap(rem)]
          /\ Leave(Wrap(rem), n) /\ sec_loc' = sec_loc
      BY <1>1, <1>9 DEF Pass
    <2> HIDE DEF r, rem, o, n, d
    <2>2. /\ sec_offset'[level] = o + r.len /\ dir_rem'[level] = rem
          /\ \A l \in 0 .. level - 1 :
               sec_loc'[l] = sec_loc[l] /\ sec_offset'[l] = sec_offset[l] /\ dir_rem'[l] = dir_rem[l]
      BY <1>1, <1>6, <2>1, LastLevel DEF TypeInv, TypeOK, o
    <2>3. UpTo(img, chosen.rba, level, sec_loc', sec_offset', dir_rem', dirs)
      BY <1>1, <1>2, <2>2, UpToSame
    <2>4. StandsAt(img, d, n, o + r.len, rem) /\ Walked(img, chosen.rba, level, d, n, o + r.len, {})
      BY <1>5, <1>7, <1>9
    <2>5. rem = 0 => <<level, d>> \in Clean(img, chosen.rba)
      BY <1>1, <1>2, <1>5, <2>4, Exhausted DEF d
    <2>6. Here(img, chosen.rba, level, d, sec_loc'[level], sec_offset'[level], dir_rem'[level])
      BY <1>5, <2>1, <2>2, <2>4 DEF Here, n
    <2>7. Leave(rem, sec_loc[level])
      BY <1>6, <2>1 DEF n
    <2> QED BY <1>1, <1>5, <2>1, <2>2, <2>3, <2>5, <2>6, <2>7, LeaveKeeps DEF d
  <1> QED BY <1>8, <1>9

LEMMA FoundRight ==
  ASSUME TypeInv, WalkInv, Found
  PROVE  FileSizeRight'
  <1>1. img' = img /\ chosen' = chosen
    BY DEF Found, chosen
  <1>2. ASSUME Sound(img)
        PROVE  \E r \in Visible(img) : r.ext = chosen.rba /\ size' = r.size
    <2>1. /\ img \in Images /\ level \in Levels /\ sec_offset[level] \in Nat
          /\ Buffer = sec_loc[level]
      BY <1>2, Looking DEF Found
    <2>2. PICK dirs :
            /\ StandsAt(img, dirs[level], sec_loc[level], sec_offset[level], dir_rem[level])
            /\ dirs[level] \in Dirs(img)[level] /\ SoundDir(img, dirs[level])
      BY <1>2, Looking DEF Found
    <2> DEFINE n == sec_loc[level]
               o == sec_offset[level]
               d == dirs[level]
               r == RecordAt(n, o)
    <2>3. r.len # 0 /\ o # SECTOR /\ r.ext = chosen.rba /\ size' = r.size
      BY <2>1 DEF Found
    <2>4. o \in DOMAIN img.sectors[n] /\ r = img.sectors[n][o]
      BY <2>1, <2>2, <2>3, RecordThere
    <2>5. n \in DirSectors(img, d) /\ (n = d => \A p \in Heads(img, d) : p < o)
      BY <2>2 DEF StandsAt
    <2>6. o \in Places(img, d, n)
      <3>1. o \notin Heads(img, d) \/ n # d
        BY <2>1, <2>5
      <3> QED BY <2>4, <3>1 DEF Places
    <2>7. r \in Contents(img, d)
      BY <2>4, <2>5, <2>6 DEF Contents
    <2>8. r \in Visible(img)
      BY <2>1, <2>2, <2>7 DEF Visible
    <2> HIDE DEF r, n, o, d
    <2> QED BY <2>3, <2>8
  <1>3. Sound(img) =>
          LET same == {r \in Visible(img) : r.ext = chosen.rba}
          IN IF same = {} THEN size' = 0 ELSE \E r \in same : size' = r.size
    BY <1>2
  <1> QED BY <1>1, <1>3 DEF FileSizeRight

LEMMA NotFoundRight ==
  ASSUME TypeInv, WalkInv, NotFound
  PROVE  FileSizeRight'
  <1>1. img' = img /\ chosen' = chosen /\ size' = 0 /\ pc = "walk" /\ level < 0
    BY DEF NotFound, chosen
  <1>2. ASSUME Sound(img)
        PROVE  {r \in Visible(img) : r.ext = chosen.rba} = {}
    <2>1. <<0, img.root>> \in Clean(img, chosen.rba)
      BY <1>1, <1>2 DEF WalkInv, Trail
    <2> QED BY <2>1, CleanImage
  <1> QED BY <1>1, <1>2 DEF FileSizeRight

(* The walk is on a trail, and when it has ended the size is the file's.   *)
IInv == TypeInv /\ EntryInv /\ WalkInv /\ FileSizeRight

LEMMA InitIInv == Init => IInv
  <1> SUFFICES ASSUME Init PROVE IInv
    OBVIOUS
  <1>1. pc = "vds"
    BY DEF Init
  <1> QED BY <1>1, InitTypeInv, InitEntryInv DEF IInv, WalkInv, FileSizeRight

LEMMA IInvStep == IInv /\ [Next]_vars => IInv'
  <1> SUFFICES ASSUME IInv, [Next]_vars PROVE WalkInv' /\ FileSizeRight'
    BY TypeStep, EntryStep DEF IInv
  <1>1. CASE UNCHANGED vars
    <2>1. UNCHANGED <<pc, img, temp, level, sec_loc, sec_offset, dir_rem, size>> /\ chosen' = chosen
      BY <1>1 DEF vars, walk, chosen
    <2> QED BY <2>1 DEF IInv, WalkInv, FileSizeRight
  <1>2. CASE FindBc \/ ReadCatalog \/ TryEntry \/ NoEntry \/ BadOffset \/ ReadFails \/ LoadImage
    <2>1. pc' \notin {"walk", "image"}
      BY <1>2 DEF FindBc, ReadCatalog, TryEntry, NoEntry, BadOffset, ReadFails, LoadImage, Panic
    <2> QED BY <2>1 DEF WalkInv, FileSizeRight
  <1>3. CASE Found \/ NotFound
    <2>1. pc' = "image"
      BY <1>3 DEF Found, NotFound
    <2> QED BY <1>3, <2>1, FoundRight, NotFoundRight DEF IInv, WalkInv
  <1>4. CASE StartWalk \/ FirstRecords \/ NextSector \/ Pass
    <2>1. pc' # "image" /\ img' = img
      BY <1>4 DEF StartWalk, FirstRecords, NextSector, Pass, AtRecord, Leave, Panic
    <2>2. CASE Sound(img)
      BY <1>4, <2>1, <2>2, StartWalkKeeps, FirstRecordsKeeps, NextSectorKeeps, PassKeeps
        DEF IInv, FileSizeRight
    <2>3. CASE ~ Sound(img)
      BY <2>1, <2>3 DEF WalkInv, FileSizeRight
    <2> QED BY <2>2, <2>3
  <1> QED BY <1>1, <1>2, <1>3, <1>4 DEF Next

LEMMA Invariance == Spec => []IInv
  BY InitIInv, IInvStep, PTL DEF Spec

(* On a sound image no counter of the walk ever loses step: on every level *)
(* that has been begun, where the walk stands and what remains reach to    *)
(* the end of one directory of that depth (bootmap.c:623-677).             *)
THEOREM CountersKeepStep == Spec => []Accounting
  <1>1. IInv => Accounting
    <2> SUFFICES ASSUME IInv, pc = "walk", Sound(img), NEW l \in 0 .. level,
                        sec_offset[l] # 0 \/ dir_rem[l] # 0
                 PROVE  \E d \in Dirs(img)[l] :
                          /\ sec_loc[l] >= d
                          /\ sec_loc[l] * SECTOR + sec_offset[l] + dir_rem[l]
                               = d * SECTOR + DirSize(img, d)
      BY DEF Accounting
    <2>1. level >= 0 /\ level \in Int
      BY DEF IInv, TypeInv, TypeOK
    <2>2. img \in Images /\ level \in Levels /\ level \in Nat
      BY <2>1, Standing DEF IInv
    <2>3. PICK dirs :
            /\ UpTo(img, chosen.rba, level, sec_loc, sec_offset, dir_rem, dirs)
            /\ Here(img, chosen.rba, level, dirs[level], sec_loc[level],
                    sec_offset[level], dir_rem[level])
      BY <2>1, Standing DEF IInv
    <2>4. StandsAt(img, dirs[l], sec_loc[l], sec_offset[l], dir_rem[l])
      <3>1. CASE l = level
        BY <2>3, <3>1 DEF Here
      <3>2. CASE l # level
        <4>1. l \in 0 .. level - 1
          BY <2>2, <3>2
        <4> QED BY <2>3, <4>1 DEF UpTo
      <3> QED BY <3>1, <3>2
    <2>5. dirs[l] \in Dirs(img)[l] /\ l \in Levels
      BY <2>2, <2>3, LastLevel DEF UpTo
    <2>6. dirs[l] \in Nat /\ SoundDir(img, dirs[l])
      BY <2>2, <2>5, DirsType, SoundDirs
    <2>7. sec_offset[l] \in Nat /\ dir_rem[l] \in Nat
      BY <2>5, ElToritoAssumption DEF IInv, TypeInv, TypeOK
    <2>8. sec_loc[l] >= dirs[l]
      BY <2>2, <2>4, <2>6, <2>7, RoomLeft
    <2> QED BY <2>4, <2>5, <2>8 DEF StandsAt
  <1> QED BY Invariance, <1>1, PTL

(* The entry loaded is the one the load parameter asks for, all of its     *)
(* file is loaded, and on a sound image the size found is that of a file   *)
(* at its address, wherever in the tree it is (bootmap.c:602-706,          *)
(* 752-766).                                                               *)
THEOREM LoadsWhatWasAsked == Spec => []RightImage
  <1>1. IInv => RightImage
    BY DEF IInv, EntryInv, RightImage
  <1> QED BY Invariance, <1>1, PTL

=============================================================================
