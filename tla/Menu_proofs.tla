----------------------------- MODULE Menu_proofs -----------------------------
(***************************************************************************)
(* Proofs about the boot menu.  What the prompt booted is compared with    *)
(* what a line editor and a reader of numbers make of the keys, both of    *)
(* which are recursive functions: their recursion equations and what they  *)
(* compute are proved first, by induction over a set of numbers.           *)
(***************************************************************************)
EXTENDS Menu, SequenceTheorems, WellFoundedInduction, TLAPS

(* Induction, for a set of numbers.                                        *)
LEMMA Induction ==
  ASSUME NEW N \in Nat, NEW T \in SUBSET (0 .. N), 0 \in T,
         \A n \in T : n < N => n + 1 \in T
  PROVE  T = 0 .. N
  <1> SUFFICES ASSUME NEW U, U = (0 .. N) \ T, U # {}
               PROVE  FALSE
    OBVIOUS
  <1>1. U \subseteq Nat
    OBVIOUS
  <1>2. PICK n \in U : \A m \in U : ~ (<<m, n>> \in OpToRel(<, Nat))
    BY <1>1, NatLessThanWellFounded, WFMin, Zenon
  <1>3. n \in Nat /\ n # 0 /\ n \notin T /\ n <= N
    OBVIOUS
  <1>4. n - 1 \in Nat /\ n - 1 \in 0 .. N /\ n - 1 < n /\ n - 1 + 1 = n /\ n - 1 < N
    BY <1>3
  <1>5. n - 1 \notin U
    <2>1. <<n - 1, n>> \in OpToRel(<, Nat)
      BY <1>3, <1>4 DEF OpToRel
    <2> QED BY <1>2, <2>1
  <1>6. n - 1 \in T
    BY <1>4, <1>5
  <1> QED BY <1>3, <1>4, <1>6

(* A value for each number up to N, each made of the one before.           *)
Recurs(f, base, step, N) ==
  f = [n \in 0 .. N |-> IF n = 0 THEN base ELSE step[<<n, f[n - 1]>>]]

LEMMA RecursionExists ==
  ASSUME NEW N \in Nat, NEW S, NEW base \in S, NEW step \in [(1 .. N) \X S -> S]
  PROVE  \E f \in [0 .. N -> S] : Recurs(f, base, step, N)
  <1> DEFINE T == {n \in 0 .. N : \E f \in [0 .. n -> S] : Recurs(f, base, step, n)}
  <1>1. 0 \in T
    <2>1. [n \in 0 .. 0 |-> base] \in [0 .. 0 -> S]
      OBVIOUS
    <2>2. Recurs([n \in 0 .. 0 |-> base], base, step, 0)
      BY DEF Recurs
    <2> QED BY <2>1, <2>2
  <1>2. ASSUME NEW n \in T, n < N PROVE n + 1 \in T
    <2>1. n \in 0 .. N /\ n + 1 \in 1 .. N
      BY <1>2
    <2>2. PICK f \in [0 .. n -> S] : Recurs(f, base, step, n)
      BY <1>2
    <2> DEFINE g == [m \in 0 .. n + 1 |-> IF m = n + 1 THEN step[<<n + 1, f[n]>>] ELSE f[m]]
    <2>3. f[n] \in S /\ step[<<n + 1, f[n]>>] \in S
      BY <2>1
    <2>4. g \in [0 .. n + 1 -> S]
      BY <2>1, <2>3
    <2>5. ASSUME NEW m \in 0 .. n + 1
          PROVE  g[m] = IF m = 0 THEN base ELSE step[<<m, g[m - 1]>>]
      <3>1. CASE m = n + 1
        <4>1. m # 0 /\ m - 1 = n /\ n # n + 1 /\ n \in 0 .. n + 1
          BY <2>1, <3>1
        <4>2. g[m] = step[<<m, f[n]>>] /\ g[n] = f[n]
          BY <3>1, <4>1
        <4>3. g[m - 1] = f[n]
          BY <4>1, <4>2
        <4> HIDE DEF g
        <4> QED BY <3>1, <4>1, <4>2, <4>3
      <3>2. CASE m # n + 1
        <4>1. m \in 0 .. n /\ (m # 0 => m - 1 \in 0 .. n /\ m - 1 # n + 1)
          BY <2>1, <3>2
        <4>2. f[m] = IF m = 0 THEN base ELSE step[<<m, f[m - 1]>>]
          BY <2>2, <4>1 DEF Recurs
        <4>3. g[m] = f[m] /\ (m # 0 => g[m - 1] = f[m - 1])
          BY <3>2, <4>1
        <4> HIDE DEF g
        <4> QED BY <4>2, <4>3
      <3> QED BY <3>1, <3>2
    <2>6. Recurs(g, base, step, n + 1)
      BY <2>4, <2>5 DEF Recurs
    <2> HIDE DEF g
    <2> QED BY <2>1, <2>4, <2>6
  <1>3. T = 0 .. N
    <2> HIDE DEF T
    <2>1. T \in SUBSET (0 .. N)
      BY DEF T
    <2> QED BY <1>1, <1>2, <2>1, Induction
  <1> QED BY <1>3

(* Of two such functions, what one has the other has too.                  *)
LEMMA RecursionAgrees ==
  ASSUME NEW M \in Nat, NEW N \in Nat, M <= N,
         NEW S, NEW f \in [0 .. M -> S], NEW g, NEW base, NEW step, NEW other,
         Recurs(f, base, step, M), Recurs(g, base, other, N),
         \A n \in 1 .. M, s \in S : step[<<n, s>>] = other[<<n, s>>]
  PROVE  \A n \in 0 .. M : f[n] = g[n]
  <1> DEFINE T == {n \in 0 .. M : f[n] = g[n]}
  <1>1. 0 \in T
    <2>1. 0 \in 0 .. M /\ 0 \in 0 .. N
      OBVIOUS
    <2>2. f[0] = base /\ g[0] = base
      BY <2>1 DEF Recurs
    <2> QED BY <2>1, <2>2
  <1>2. ASSUME NEW n \in T, n < M PROVE n + 1 \in T
    <2>1. n + 1 \in 1 .. M /\ n + 1 \in 0 .. N /\ n + 1 \in 0 .. M /\ n + 1 - 1 = n /\ n + 1 # 0
      BY <1>2
    <2>2. f[n + 1] = step[<<n + 1, f[n]>>]
      BY <2>1 DEF Recurs
    <2>3. g[n + 1] = other[<<n + 1, g[n]>>]
      BY <2>1 DEF Recurs
    <2> QED BY <2>1, <2>2, <2>3
  <1>3. T = 0 .. M
    <2> HIDE DEF T
    <2>1. T \in SUBSET (0 .. M)
      BY DEF T
    <2> QED BY <1>1, <1>2, <2>1, Induction
  <1> QED BY <1>3

(* A function that is computed so, while its values are of S.              *)
LEMMA RecursionTyped ==
  ASSUME NEW N \in Nat, NEW S, NEW base \in S, NEW step \in [(1 .. N) \X S -> S],
         NEW R, NEW f \in [0 .. N -> R], f[0] = base,
         \A n \in 0 .. N - 1 : f[n] \in S => f[n + 1] = step[<<n + 1, f[n]>>]
  PROVE  f \in [0 .. N -> S] /\ Recurs(f, base, step, N)
  <1> DEFINE T == {n \in 0 .. N : f[n] \in S}
  <1>1. 0 \in T
    OBVIOUS
  <1>2. ASSUME NEW n \in T, n < N PROVE n + 1 \in T
    <2>1. n + 1 \in 1 .. N /\ n + 1 \in 0 .. N /\ n + 1 - 1 = n
      BY <1>2
    <2>2. n \in 0 .. N - 1 /\ f[n] \in S
      BY <1>2
    <2>3. f[n + 1] = step[<<n + 1, f[n]>>]
      BY <2>2
    <2>4. step[<<n + 1, f[n]>>] \in S
      BY <2>1, <2>2
    <2> QED BY <2>1, <2>3, <2>4
  <1>3. T = 0 .. N
    <2> HIDE DEF T
    <2>1. T \in SUBSET (0 .. N)
      BY DEF T
    <2> QED BY <1>1, <1>2, <2>1, Induction
  <1>4. f \in [0 .. N -> S]
    BY <1>3
  <1>5. \A n \in 0 .. N : f[n] = IF n = 0 THEN base ELSE step[<<n, f[n - 1]>>]
    <2>1. \A n \in 0 .. N : n # 0 => n - 1 \in 0 .. N - 1 /\ n - 1 + 1 = n
      OBVIOUS
    <2>2. \A n \in 0 .. N - 1 : f[n + 1] = step[<<n + 1, f[n]>>]
      BY <1>4
    <2> QED BY <2>1, <2>2
  <1> QED BY <1>4, <1>5 DEF Recurs

-----------------------------------------------------------------------------
(* The line editor, key by key.                                            *)
Texts == {t \in Seq(Keys) : Len(t) <= BUF_LEN}
EditStep(keys) ==
  [p \in (1 .. Len(keys)) \X Texts |-> Keystroke(p[2], keys[p[1]])]

LEMMA KeystrokeText == ASSUME NEW t \in Texts, NEW k PROVE Keystroke(t, k) \in Texts
  <1>1. t # <<>> => Front(t) \in Seq(Keys) /\ Len(Front(t)) = Len(t) - 1
    <2>1. t \in Seq(Keys) /\ Len(t) \in Nat /\ (t # <<>> => Len(t) # 0)
      BY EmptySeq DEF Texts
    <2>2. Front(t) = SubSeq(t, 1, Len(t) - 1) /\ \A n \in 1 .. Len(t) - 1 : t[n] \in Keys
      BY <2>1 DEF Front
    <2>3. /\ SubSeq(t, 1, Len(t) - 1) \in Seq(Keys)
          /\ Len(SubSeq(t, 1, Len(t) - 1)) =
               IF 1 <= Len(t) - 1 THEN Len(t) - 1 - 1 + 1 ELSE 0
      <3>1. 1 \in Int /\ Len(t) - 1 \in Int
        BY <2>1
      <3> QED BY <2>2, <3>1, SubSeqProperties
    <2>4. ASSUME NEW front, NEW l \in Nat, l # 0,
                 Len(front) = IF 1 <= l - 1 THEN l - 1 - 1 + 1 ELSE 0
          PROVE  Len(front) = l - 1
      BY <2>4
    <2>5. t # <<>> => Len(SubSeq(t, 1, Len(t) - 1)) = Len(t) - 1
      BY <2>1, <2>3, <2>4
    <2> QED BY <2>2, <2>3, <2>5
  <1>2. k \in Keys => Append(t, k) \in Seq(Keys) /\ Len(Append(t, k)) = Len(t) + 1
    BY DEF Texts
  <1> QED BY <1>1, <1>2, MenuAssumption DEF Keystroke, Texts

LEMMA EditRecurs ==
  ASSUME NEW keys, Len(keys) \in Nat
  PROVE  \E f \in [0 .. Len(keys) -> Texts] :
           /\ Edit(keys) = f[Len(keys)]
           /\ Recurs(f, <<>>, EditStep(keys), Len(keys))
  <1> DEFINE N == Len(keys)
             Is(f) == f = [n \in 0 .. N |->
                             IF n = 0 THEN <<>> ELSE Keystroke(f[n - 1], keys[n])]
             text == CHOOSE f : Is(f)
  <1>1. <<>> \in Texts /\ EditStep(keys) \in [(1 .. N) \X Texts -> Texts]
    BY KeystrokeText, MenuAssumption DEF Texts, EditStep
  <1>2. PICK g \in [0 .. N -> Texts] : Recurs(g, <<>>, EditStep(keys), N)
    BY <1>1, RecursionExists
  <1>3. Is(g)
    <2>1. ASSUME NEW n \in 0 .. N
          PROVE  g[n] = IF n = 0 THEN <<>> ELSE Keystroke(g[n - 1], keys[n])
      <3>1. n # 0 => n \in 1 .. N /\ n - 1 \in 0 .. N
        OBVIOUS
      <3>2. n # 0 => EditStep(keys)[<<n, g[n - 1]>>] = Keystroke(g[n - 1], keys[n])
        BY <3>1 DEF EditStep
      <3> QED BY <1>2, <3>2 DEF Recurs
    <2> QED BY <2>1
  <1>4. Is(text)
    <2> HIDE DEF Is
    <2> QED BY <1>3
  <1>5. text \in [0 .. N -> Texts] /\ Recurs(text, <<>>, EditStep(keys), N)
    <2> HIDE DEF text
    <2>1. text[0] = <<>>
      BY <1>4
    <2>3. PICK R : text \in [0 .. N -> R]
      <3>1. text \in [0 .. N -> {text[n] : n \in 0 .. N}]
        BY <1>4
      <3> QED BY <3>1
    <2>2. \A n \in 0 .. N - 1 : text[n] \in Texts =>
            text[n + 1] = EditStep(keys)[<<n + 1, text[n]>>]
      BY <1>4 DEF EditStep
    <2> QED BY <1>1, <2>1, <2>2, <2>3, RecursionTyped
  <1>6. Edit(keys) = text[N]
    BY DEF Edit
  <1> HIDE DEF text
  <1> QED BY <1>5, <1>6

LEMMA EditEmpty == Edit(<<>>) = <<>>
  <1>1. Len(<<>>) = 0
    OBVIOUS
  <1>2. PICK f \in [0 .. 0 -> Texts] :
          Edit(<<>>) = f[0] /\ Recurs(f, <<>>, EditStep(<<>>), 0)
    BY <1>1, EditRecurs
  <1> QED BY <1>2 DEF Recurs

LEMMA EditText == ASSUME NEW keys, Len(keys) \in Nat PROVE Edit(keys) \in Texts
  BY EditRecurs

LEMMA EditAppend ==
  ASSUME NEW K, NEW keys \in Seq(K), NEW k \in K
  PROVE  Edit(Append(keys, k)) = Keystroke(Edit(keys), k)
  <1> DEFINE N == Len(keys)
  <1> SUFFICES ASSUME NEW more, more = Append(keys, k)
               PROVE  Edit(more) = Keystroke(Edit(keys), k)
    OBVIOUS
  <1>1. /\ N \in Nat /\ Len(more) = N + 1 /\ more[N + 1] = k
        /\ \A n \in 1 .. N : more[n] = keys[n]
    BY AppendProperties, LenProperties
  <1>2. PICK f \in [0 .. N -> Texts] :
          Edit(keys) = f[N] /\ Recurs(f, <<>>, EditStep(keys), N)
    BY <1>1, EditRecurs
  <1>3. PICK g \in [0 .. N + 1 -> Texts] :
          Edit(more) = g[N + 1] /\ Recurs(g, <<>>, EditStep(more), N + 1)
    BY <1>1, EditRecurs
  <1>4. \A n \in 1 .. N, t \in Texts : EditStep(keys)[<<n, t>>] = EditStep(more)[<<n, t>>]
    BY <1>1 DEF EditStep
  <1>5. f[N] = g[N]
    <2>1. N <= N + 1 /\ N + 1 \in Nat /\ N \in 0 .. N
      BY <1>1
    <2> HIDE DEF N
    <2> QED BY <1>1, <1>2, <1>3, <1>4, <2>1, RecursionAgrees
  <1>6. g[N + 1] = Keystroke(g[N], k)
    <2>1. N + 1 # 0 /\ N + 1 \in 0 .. N + 1 /\ N + 1 \in 1 .. N + 1 /\ N + 1 - 1 = N /\ N \in 0 .. N + 1
      BY <1>1
    <2>2. g[N + 1] = EditStep(more)[<<N + 1, g[N]>>]
      BY <1>3, <2>1 DEF Recurs
    <2>3. EditStep(more)[<<N + 1, g[N]>>] = Keystroke(g[N], more[N + 1])
      BY <1>1, <1>3, <2>1 DEF EditStep
    <2> QED BY <1>1, <2>2, <2>3
  <1> QED BY <1>2, <1>3, <1>5, <1>6

-----------------------------------------------------------------------------
(* The value of an int.                                                    *)
LEMMA DivMod == ASSUME NEW x \in Int, NEW w \in Nat \ {0}
  PROVE  /\ x % w \in 0 .. w - 1 /\ x \div w \in Int
         /\ x = (x \div w) * w + (x % w)
  <1>1. x \div w \in Int
    OBVIOUS
  <1>2. x % w \in Int
    OBVIOUS
  <1>3. x % w >= 0 /\ x % w < w
    OBVIOUS
  <1>4. x = w * (x \div w) + (x % w)
    OBVIOUS
  <1>5. w * (x \div w) = (x \div w) * w
    BY <1>1
  <1> QED BY <1>1, <1>2, <1>3, <1>4, <1>5

LEMMA Half == WORD \div 2 \in Nat /\ WORD \div 2 < WORD
  BY WordAssumption

LEMMA Multiples == ASSUME NEW w \in Nat \ {0}, NEW k \in Int, NEW m \in Int, k < m
   PROVE k * w + w <= m * w
  <1>1. m = k + 1 + (m - k - 1) /\ m - k - 1 \in Nat
     OBVIOUS
  <1>2. \A j \in Nat : (k + 1 + j) * w = k * w + w + j * w /\ j * w >= 0
     OBVIOUS
  <1> QED BY <1>1, <1>2

LEMMA Unique == ASSUME NEW w \in Nat \ {0}, NEW k \in Int, NEW m \in Int, NEW r \in 0 .. w - 1, NEW s \in 0 .. w - 1,
   k * w + r = m * w + s
   PROVE r = s
  <1>0. k * w \in Int /\ m * w \in Int
    OBVIOUS
  <1>1. CASE k < m
     BY <1>0, <1>1, Multiples
  <1>2. CASE m < k
     BY <1>0, <1>2, Multiples
  <1>3. CASE k = m
     BY <1>0, <1>3
  <1> QED BY <1>1, <1>2, <1>3

LEMMA ModShift == ASSUME NEW w \in Nat \ {0}, NEW x \in Int, NEW k \in Int
   PROVE (x + k * w) % w = x % w
  <1> DEFINE y == x + k * w
  <1>0. k * w \in Int /\ y \in Int
     OBVIOUS
  <1>1. x = (x \div w) * w + (x % w) /\ x % w \in 0 .. w - 1 /\ x \div w \in Int
     BY DivMod
  <1>2. y = (y \div w) * w + (y % w) /\ y % w \in 0 .. w - 1 /\ y \div w \in Int
     BY DivMod, <1>0
  <1> DEFINE a == x \div w
             r == x % w
  <1>3. a * w + k * w = (a + k) * w /\ a + k \in Int /\ a * w \in Int /\ a \in Int /\ r \in Int
    BY <1>1
  <1> HIDE DEF y, a, r
  <1>4. y = (a + k) * w + r
    BY <1>0, <1>1, <1>3 DEF y, a, r
  <1>5. (y % w) = (x % w)
    BY <1>1, <1>2, <1>3, <1>4, Unique DEF r
  <1> QED BY <1>5 DEF y
LEMMA CIntShift == ASSUME NEW x \in Int, NEW k \in Int PROVE CInt(x + k * WORD) = CInt(x)
  <1> DEFINE h == WORD \div 2
  <1>1. h \in Int /\ k * WORD \in Int
    BY Half, WordAssumption
  <1>2. x + k * WORD + h = x + h + k * WORD /\ x + h \in Int
    BY <1>1
  <1>3. (x + h + k * WORD) % WORD = (x + h) % WORD
    BY <1>2, ModShift, WordAssumption
  <1> QED BY <1>2, <1>3 DEF CInt

LEMMA CIntIs == ASSUME NEW x \in Int PROVE CInt(x) \in Int /\ \E k \in Int : CInt(x) = x + k * WORD
  <1> DEFINE h == WORD \div 2
             q == (x + h) \div WORD
  <1>1. h \in Int /\ x + h \in Int
    BY Half
  <1>2. q \in Int /\ x + h = q * WORD + ((x + h) % WORD) /\ (x + h) % WORD \in Int
    BY <1>1, DivMod, WordAssumption
  <1> HIDE DEF q, h
  <1>3. (-q) * WORD = - (q * WORD) /\ q * WORD \in Int /\ -q \in Int
    BY <1>2, WordAssumption
  <1>4. CInt(x) = ((x + h) % WORD) - h
    BY DEF CInt, h
  <1>5. CInt(x) = x + (-q) * WORD
    BY <1>1, <1>2, <1>3, <1>4
  <1>6. CInt(x) \in Int
    BY <1>1, <1>2, <1>4
  <1> QED BY <1>3, <1>5, <1>6

LEMMA CIntZero == CInt(0) = 0
  <1> DEFINE h == WORD \div 2
  <1>1. h \in Nat /\ h < WORD
    BY Half
  <1>2. h % WORD = h
    BY <1>1, WordAssumption
  <1> QED BY <1>1, <1>2 DEF CInt
 
LEMMA CIntSmall == ASSUME NEW x \in 0 .. WORD \div 2 - 1 PROVE CInt(x) = x
  <1>1. /\ WORD \div 2 \in Nat /\ x \in Nat
        /\ x + WORD \div 2 \in 0 .. WORD - 1
    BY WordAssumption
  <1>2. (x + WORD \div 2) % WORD = x + WORD \div 2
    BY <1>1, WordAssumption
  <1> QED BY <1>1, <1>2 DEF CInt

LEMMA CIntTens == ASSUME NEW x \in Int, NEW d \in Int PROVE CInt(CInt(x) * 10 + d) = CInt(x * 10 + d)
  <1>1. PICK k \in Int : CInt(x) = x + k * WORD
    BY CIntIs
  <1>2. (x + k * WORD) * 10 + d = (x * 10 + d) + (k * 10) * WORD
    BY WordAssumption
  <1>3. CInt((x * 10 + d) + (k * 10) * WORD) = CInt(x * 10 + d)
    BY CIntShift
  <1> QED BY <1>1, <1>2, <1>3

-----------------------------------------------------------------------------
(* The number of a text of digits: the conversion, which wraps at each     *)
(* digit, is the int of what the digits stand for.                         *)
Digits == DOMAIN DigitValue
Value(t, n) == DigitValue[t[n]]

LEMMA DigitValues == ASSUME NEW d \in Digits PROVE DigitValue[d] \in Int
  BY DEF Digits, DigitValue

LEMMA Values ==
  ASSUME NEW t \in Seq(Digits), NEW n \in 1 .. Len(t)
  PROVE  Value(t, n) \in Int
  BY DigitValues DEF Value

LEMMA ConvertRecurs ==
  ASSUME NEW t \in Seq(Digits)
  PROVE  \E val \in [0 .. Len(t) -> Int] :
           /\ Convert(t, 1) = val[Len(t)]
           /\ val[0] = 0
           /\ \A n \in 0 .. Len(t) - 1 :
                val[n + 1] = CInt(val[n] * 10 + Value(t, n + 1))
  <1> DEFINE N == Len(t)
             step == [p \in (1 .. N) \X Int |-> CInt(p[2] * 10 + Value(t, p[1]))]
             Is(f) == f = [i \in 1 - 1 .. N |->
                             IF i < 1 THEN 0 ELSE CInt(f[i - 1] * 10 + DigitValue[t[i]])]
             val == CHOOSE f : Is(f)
             stops == {i \in 1 .. N : ~ isdigit(t[i])}
             stop == IF stops = {} THEN N + 1
                     ELSE CHOOSE i \in stops : \A j \in stops : i <= j
  <1>0. N \in Nat
    BY LenProperties
  <1>1. step \in [(1 .. N) \X Int -> Int]
    <2>1. \A x \in Int, n \in 1 .. N : CInt(x * 10 + Value(t, n)) \in Int
      BY CIntIs, Values
    <2> QED BY <2>1
  <1>2. PICK g \in [0 .. N -> Int] : Recurs(g, 0, step, N)
    <2>1. 0 \in Int
      OBVIOUS
    <2> HIDE DEF step, N
    <2> QED BY <1>0, <1>1, <2>1, RecursionExists
  <1>3. Is(g)
    <2>1. ASSUME NEW i \in 0 .. N
          PROVE  g[i] = IF i < 1 THEN 0 ELSE CInt(g[i - 1] * 10 + DigitValue[t[i]])
      <3>1. g[i] = IF i = 0 THEN 0 ELSE step[<<i, g[i - 1]>>]
        BY <1>2 DEF Recurs
      <3>2. i # 0 => i \in 1 .. N /\ i - 1 \in 0 .. N /\ ~ (i < 1)
        BY <1>0
      <3>3. i # 0 => step[<<i, g[i - 1]>>] = CInt(g[i - 1] * 10 + DigitValue[t[i]])
        BY <3>2 DEF Value
      <3> HIDE DEF step
      <3> QED BY <3>1, <3>2, <3>3
    <2>2. 1 - 1 = 0
      OBVIOUS
    <2> QED BY <2>1, <2>2
  <1>4. Is(val)
    <2> HIDE DEF Is
    <2> QED BY <1>3
  <1>5. /\ val = [n \in 0 .. N |-> val[n]] /\ val[0] = 0
        /\ \A n \in 0 .. N - 1 : val[n + 1] = CInt(val[n] * 10 + Value(t, n + 1))
    <2> HIDE DEF val, N
    <2> QED BY <1>0, <1>4 DEF Value
  <1>6. val \in [0 .. N -> Int]
    <2> HIDE DEF val
    <2>1. ASSUME NEW n \in 0 .. N - 1, val[n] \in Int
          PROVE  val[n + 1] = step[<<n + 1, val[n]>>]
      <3>1. n + 1 \in 1 .. N
        BY <1>0
      <3>2. step[<<n + 1, val[n]>>] = CInt(val[n] * 10 + Value(t, n + 1))
        BY <2>1, <3>1
      <3> HIDE DEF step
      <3> QED BY <1>5, <3>2
    <2>2. 0 \in Int /\ val[0] = 0
      BY <1>5
    <2>4. PICK R : val \in [0 .. N -> R]
      <3>1. val \in [0 .. N -> {val[n] : n \in 0 .. N}]
        BY <1>5
      <3> QED BY <3>1
    <2>3. \A n \in 0 .. N - 1 : val[n] \in Int => val[n + 1] = step[<<n + 1, val[n]>>]
      BY <2>1
    <2> HIDE DEF step, N
    <2>5. val \in [0 .. N -> Int] /\ Recurs(val, 0, step, N)
      BY <1>0, <1>1, <2>2, <2>3, <2>4, RecursionTyped
    <2> QED BY <2>5
  <1>7. stop - 1 = N
    <2>1. stops = {}
      BY DEF isdigit, Digits
    <2> QED BY <1>0, <2>1
  <1>8. Convert(t, 1) = val[stop - 1]
    BY DEF Convert
  <1> HIDE DEF val, stop
  <1> QED BY <1>5, <1>6, <1>7, <1>8

(* What each place counts, the last one first, and the sum of them.        *)
Places(N) ==
  CHOOSE f : f = [n \in 0 .. N |-> IF n = 0 THEN 1 ELSE 10 * f[n - 1]]
Sum(t, places) ==
  CHOOSE f : f = [n \in 0 .. Len(t) |->
                    IF n = 0 THEN 0
                    ELSE f[n - 1] + DigitValue[t[n]] * places[Len(t) - n]]

LEMMA PlacesRecurs ==
  ASSUME NEW N \in Nat
  PROVE  /\ Places(N) \in [0 .. N -> Int] /\ Places(N)[0] = 1
         /\ \A n \in 0 .. N - 1 : Places(N)[n + 1] = 10 * Places(N)[n]
  <1> DEFINE places == Places(N)
             step == [p \in (1 .. N) \X Int |-> 10 * p[2]]
             Is(f) == f = [n \in 0 .. N |-> IF n = 0 THEN 1 ELSE 10 * f[n - 1]]
  <1>1. step \in [(1 .. N) \X Int -> Int] /\ 1 \in Int
    OBVIOUS
  <1>2. PICK g \in [0 .. N -> Int] : Recurs(g, 1, step, N)
    <2> HIDE DEF step
    <2> QED BY <1>1, RecursionExists
  <1>3. Is(g)
    <2>1. ASSUME NEW i \in 0 .. N
          PROVE  g[i] = IF i = 0 THEN 1 ELSE 10 * g[i - 1]
      <3>1. g[i] = IF i = 0 THEN 1 ELSE step[<<i, g[i - 1]>>]
        BY <1>2 DEF Recurs
      <3>2. i # 0 => i \in 1 .. N /\ i - 1 \in 0 .. N
        OBVIOUS
      <3>3. i # 0 => step[<<i, g[i - 1]>>] = 10 * g[i - 1]
        BY <3>2
      <3> HIDE DEF step
      <3> QED BY <3>1, <3>2, <3>3
    <2> QED BY <2>1
  <1>4. Is(places)
    <2> HIDE DEF Is
    <2>1. places = CHOOSE f : Is(f)
      BY DEF Is, Places
    <2> QED BY <1>3, <2>1
  <1> HIDE DEF places
  <1>5. /\ places = [n \in 0 .. N |-> places[n]] /\ places[0] = 1
        /\ \A n \in 0 .. N - 1 : places[n + 1] = 10 * places[n]
    <2>1. places = [n \in 0 .. N |-> places[n]]
      BY <1>4
    <2>2. \A n \in 0 .. N : places[n] = IF n = 0 THEN 1 ELSE 10 * places[n - 1]
      BY <1>4
    <2>3. \A n \in 0 .. N - 1 : n + 1 \in 0 .. N /\ n + 1 # 0 /\ n + 1 - 1 = n
      OBVIOUS
    <2>4. 0 \in 0 .. N
      OBVIOUS
    <2>5. places[0] = 1
      BY <2>2, <2>4
    <2>6. ASSUME NEW n \in 0 .. N - 1 PROVE places[n + 1] = 10 * places[n]
      <3>1. places[n + 1] = 10 * places[n + 1 - 1]
        BY <2>2, <2>3
      <3>2. n + 1 - 1 = n
        BY <2>3
      <3> QED BY <3>1, <3>2
    <2> QED BY <2>1, <2>5, <2>6
  <1>6. places \in [0 .. N -> Int]
    <2>1. ASSUME NEW n \in 0 .. N - 1, places[n] \in Int
          PROVE  places[n + 1] = step[<<n + 1, places[n]>>]
      <3>1. n + 1 \in 1 .. N
        OBVIOUS
      <3>2. step[<<n + 1, places[n]>>] = 10 * places[n]
        BY <2>1, <3>1
      <3> HIDE DEF step
      <3> QED BY <1>5, <3>2
    <2>2. PICK R : places \in [0 .. N -> R]
      <3>1. places \in [0 .. N -> {places[n] : n \in 0 .. N}]
        BY <1>5
      <3> QED BY <3>1
    <2>3. /\ places[0] = 1
          /\ \A n \in 0 .. N - 1 : places[n] \in Int => places[n + 1] = step[<<n + 1, places[n]>>]
      BY <1>5, <2>1
    <2> HIDE DEF step
    <2>4. places \in [0 .. N -> Int] /\ Recurs(places, 1, step, N)
      BY <1>1, <2>2, <2>3, RecursionTyped
    <2> QED BY <2>4
  <1> QED BY <1>5, <1>6 DEF places

LEMMA SumRecurs ==
  ASSUME NEW t \in Seq(Digits), NEW places \in [0 .. Len(t) -> Int]
  PROVE  /\ Sum(t, places) \in [0 .. Len(t) -> Int] /\ Sum(t, places)[0] = 0
         /\ \A n \in 0 .. Len(t) - 1 :
              Sum(t, places)[n + 1] =
                Sum(t, places)[n] + Value(t, n + 1) * places[Len(t) - (n + 1)]
  <1> DEFINE N == Len(t)
             sum == Sum(t, places)
             step == [p \in (1 .. N) \X Int |-> p[2] + Value(t, p[1]) * places[N - p[1]]]
             Is(f) == f = [n \in 0 .. N |->
                             IF n = 0 THEN 0
                             ELSE f[n - 1] + DigitValue[t[n]] * places[N - n]]
  <1>0. N \in Nat /\ 0 \in Int
    BY LenProperties
  <1>1. step \in [(1 .. N) \X Int -> Int]
    <2>1. ASSUME NEW n \in 1 .. N PROVE Value(t, n) * places[N - n] \in Int
      <3>1. Value(t, n) \in Int /\ N - n \in 0 .. N
        BY <1>0, Values
      <3>2. places[N - n] \in Int
        BY <3>1
      <3>3. \A x, y \in Int : x * y \in Int
        OBVIOUS
      <3> QED BY <3>1, <3>2, <3>3
    <2> QED BY <2>1
  <1>2. PICK g \in [0 .. N -> Int] : Recurs(g, 0, step, N)
    <2> HIDE DEF step, N
    <2> QED BY <1>0, <1>1, RecursionExists
  <1>3. Is(g)
    <2>1. ASSUME NEW i \in 0 .. N
          PROVE  g[i] = IF i = 0 THEN 0 ELSE g[i - 1] + DigitValue[t[i]] * places[N - i]
      <3>1. g[i] = IF i = 0 THEN 0 ELSE step[<<i, g[i - 1]>>]
        BY <1>2 DEF Recurs
      <3>2. i # 0 => i \in 1 .. N /\ i - 1 \in 0 .. N
        BY <1>0
      <3>3. i # 0 => step[<<i, g[i - 1]>>] = g[i - 1] + DigitValue[t[i]] * places[N - i]
        BY <3>2 DEF Value
      <3> HIDE DEF step
      <3> QED BY <3>1, <3>2, <3>3
    <2> QED BY <2>1
  <1>4. Is(sum)
    <2> HIDE DEF Is
    <2>1. sum = CHOOSE f : Is(f)
      BY DEF Is, Sum
    <2> QED BY <1>3, <2>1
  <1> HIDE DEF sum
  <1>5. /\ sum = [n \in 0 .. N |-> sum[n]] /\ sum[0] = 0
        /\ \A n \in 0 .. N - 1 : sum[n + 1] = sum[n] + Value(t, n + 1) * places[N - (n + 1)]
    <2>1. \A n \in 0 .. N - 1 : n + 1 \in 0 .. N /\ n + 1 # 0 /\ n + 1 - 1 = n
      BY <1>0
    <2> HIDE DEF N
    <2>2. sum = [n \in 0 .. N |-> sum[n]]
      BY <1>4
    <2>3. \A n \in 0 .. N : sum[n] = IF n = 0 THEN 0
                                     ELSE sum[n - 1] + Value(t, n) * places[N - n]
      BY <1>4 DEF Value
    <2>4. 0 \in 0 .. N
      BY <1>0
    <2>5. ASSUME NEW n \in 0 .. N - 1
          PROVE  sum[n + 1] = sum[n] + Value(t, n + 1) * places[N - (n + 1)]
      <3>1. sum[n + 1] = sum[n + 1 - 1] + Value(t, n + 1) * places[N - (n + 1)]
        BY <2>1, <2>3
      <3>2. n + 1 - 1 = n
        BY <2>1
      <3> QED BY <3>1, <3>2
    <2> QED BY <2>2, <2>3, <2>4, <2>5
  <1>6. sum \in [0 .. N -> Int]
    <2>1. ASSUME NEW n \in 0 .. N - 1, sum[n] \in Int
          PROVE  sum[n + 1] = step[<<n + 1, sum[n]>>]
      <3>1. n + 1 \in 1 .. N
        BY <1>0
      <3>2. step[<<n + 1, sum[n]>>] = sum[n] + Value(t, n + 1) * places[N - (n + 1)]
        BY <2>1, <3>1
      <3> HIDE DEF step
      <3> QED BY <1>5, <3>2
    <2>2. PICK R : sum \in [0 .. N -> R]
      <3>1. sum \in [0 .. N -> {sum[n] : n \in 0 .. N}]
        BY <1>5
      <3> QED BY <3>1
    <2>3. sum[0] = 0 /\ \A n \in 0 .. N - 1 : sum[n] \in Int => sum[n + 1] = step[<<n + 1, sum[n]>>]
      BY <1>5, <2>1
    <2> HIDE DEF step, N
    <2>4. sum \in [0 .. N -> Int] /\ Recurs(sum, 0, step, N)
      BY <1>0, <1>1, <2>2, <2>3, RecursionTyped
    <2> QED BY <2>4
  <1> QED BY <1>5, <1>6 DEF sum

(* Both are the number that is read digit by digit without wrapping.       *)
LEMMA ConvertedNumber ==
  ASSUME NEW t \in Seq(Digits)
  PROVE  Convert(t, 1) = CInt(NumberOf(t))
  <1> DEFINE N == Len(t)
             places == Places(N)
             sum == Sum(t, places)
             step == [p \in (1 .. N) \X Int |-> p[2] * 10 + Value(t, p[1])]
  <1>0. N \in Nat /\ 0 \in Int /\ N \in 0 .. N /\ 0 \in 0 .. N
    BY LenProperties
  <1>1. PICK val \in [0 .. N -> Int] :
           /\ Convert(t, 1) = val[N]
           /\ val[0] = 0
           /\ \A n \in 0 .. N - 1 : val[n + 1] = CInt(val[n] * 10 + Value(t, n + 1))
    BY ConvertRecurs
  <1>2. /\ places \in [0 .. N -> Int] /\ places[0] = 1
        /\ \A n \in 0 .. N - 1 : places[n + 1] = 10 * places[n]
    BY <1>0, PlacesRecurs
  <1>3. /\ sum \in [0 .. N -> Int] /\ sum[0] = 0
        /\ \A n \in 0 .. N - 1 :
             sum[n + 1] = sum[n] + Value(t, n + 1) * places[N - (n + 1)]
    BY <1>2, SumRecurs
  <1>4. NumberOf(t) = sum[N]
    BY DEF NumberOf, Places, Sum
  <1>5. step \in [(1 .. N) \X Int -> Int]
    BY Values
  <1> HIDE DEF places, sum, N
  <1>6. PICK h \in [0 .. N -> Int] : Recurs(h, 0, step, N)
    <2> HIDE DEF step
    <2> QED BY <1>0, <1>5, RecursionExists
  <1>7. /\ h[0] = 0
        /\ \A n \in 0 .. N - 1 : h[n + 1] = h[n] * 10 + Value(t, n + 1)
    <2>1. h[0] = 0
      BY <1>0, <1>6 DEF Recurs
    <2>2. ASSUME NEW n \in 0 .. N - 1 PROVE h[n + 1] = h[n] * 10 + Value(t, n + 1)
      <3>1. n + 1 \in 0 .. N /\ n + 1 # 0 /\ n + 1 - 1 = n /\ n + 1 \in 1 .. N /\ n \in 0 .. N
        BY <1>0
      <3>2. h[n + 1] = step[<<n + 1, h[n]>>]
        <4> HIDE DEF step
        <4> QED BY <1>6, <3>1 DEF Recurs
      <3> QED BY <1>6, <3>1, <3>2
    <2> QED BY <2>1, <2>2
  <1>8. ASSUME NEW n \in 0 .. N - 1
        PROVE  /\ n \in 0 .. N /\ n + 1 \in 0 .. N /\ N - n \in 0 .. N
               /\ N - (n + 1) \in 0 .. N - 1 /\ N - (n + 1) + 1 = N - n
               /\ Value(t, n + 1) \in Int
    <2>1. n + 1 \in 1 .. N
      BY <1>0
    <2> QED BY <1>0, <2>1, Values DEF N
  <1>9. val[N] = CInt(h[N])
    <2> DEFINE T == {n \in 0 .. N : val[n] = CInt(h[n])}
    <2>1. 0 \in T
      BY <1>0, <1>1, <1>7, CIntZero
    <2>2. ASSUME NEW n \in T, n < N PROVE n + 1 \in T
      <3>1. n \in 0 .. N - 1 /\ val[n] = CInt(h[n])
        BY <1>0, <2>2
      <3>2. h[n] \in Int /\ Value(t, n + 1) \in Int
        BY <1>8, <3>1
      <3>3. CInt(CInt(h[n]) * 10 + Value(t, n + 1)) = CInt(h[n] * 10 + Value(t, n + 1))
        BY <3>2, CIntTens
      <3> QED BY <1>1, <1>7, <1>8, <3>1, <3>3
    <2>3. T = 0 .. N
      <3> HIDE DEF T
      <3>1. T \in SUBSET (0 .. N)
        BY DEF T
      <3> QED BY <1>0, <2>1, <2>2, <3>1, Induction
    <2> QED BY <1>0, <2>3
  <1>10. sum[N] = h[N]
    <2> DEFINE T == {n \in 0 .. N : sum[n] = h[n] * places[N - n]}
    <2>1. 0 \in T
      <3>1. N - 0 = N /\ places[N] \in Int
        BY <1>0, <1>2
      <3> QED BY <1>0, <1>3, <1>7, <3>1
    <2>2. ASSUME NEW n \in T, n < N PROVE n + 1 \in T
      <3>1. n \in 0 .. N - 1 /\ sum[n] = h[n] * places[N - n]
        BY <1>0, <2>2
      <3> DEFINE q == places[N - (n + 1)]
                 d == Value(t, n + 1)
      <3>2. q \in Int /\ d \in Int /\ h[n] \in Int /\ n + 1 \in 0 .. N
        BY <1>2, <1>8, <3>1
      <3>3. places[N - n] = 10 * q
        BY <1>2, <1>8, <3>1
      <3>4. sum[n + 1] = h[n] * (10 * q) + d * q
        BY <1>3, <3>1, <3>3
      <3>5. h[n + 1] = h[n] * 10 + d
        BY <1>7, <3>1
      <3> HIDE DEF q, d
      <3>6. \A x, y, z \in Int : x * (10 * y) + z * y = (x * 10 + z) * y
        OBVIOUS
      <3>7. sum[n + 1] = h[n + 1] * q
        BY <3>2, <3>4, <3>5, <3>6
      <3> QED BY <3>2, <3>7 DEF q
    <2>3. T = 0 .. N
      <3> HIDE DEF T
      <3>1. T \in SUBSET (0 .. N)
        BY DEF T
      <3> QED BY <1>0, <2>1, <2>2, <3>1, Induction
    <2> HIDE DEF T
    <2>4. N \in T
      BY <1>0, <2>3
    <2>5. N - N = 0 /\ h[N] \in Int
      BY <1>0
    <2>6. sum[N] = h[N] * places[0]
      BY <2>4, <2>5 DEF T
    <2> QED BY <1>2, <2>5, <2>6
  <1> QED BY <1>1, <1>4, <1>9, <1>10 DEF N

LEMMA AtouiNumber ==
  ASSUME NEW t \in Seq(Digits), t # <<>>
  PROVE  atoui(t) = CInt(NumberOf(t))
  <1>1. 1 \in 1 .. Len(t) + 1 /\ 1 \in 1 .. Len(t) /\ 1 \in DOMAIN t /\ Len(t) \in Nat
    BY EmptySeq, LenProperties
  <1>2. t[1] # " "
    <2>1. t[1] \in Digits
      BY <1>1, ElementOfSeq
    <2>2. " " \notin Digits
      BY DEF Digits, DigitValue
    <2> QED BY <2>1, <2>2
  <1>3. Spaces(t) = 1
    <2> DEFINE Ends(i) == /\ \A j \in 1 .. i - 1 : t[j] = " "
                          /\ i \in DOMAIN t => t[i] # " "
    <2>1. Ends(1)
      <3>1. 1 .. 1 - 1 = {}
        OBVIOUS
      <3> QED BY <1>2, <3>1
    <2>2. ASSUME NEW i \in 1 .. Len(t) + 1, Ends(i) PROVE i = 1
      <3>1. i # 1 => 1 \in 1 .. i - 1
        BY <1>1
      <3>2. \A j \in 1 .. i - 1 : t[j] = " "
        BY <2>2
      <3> QED BY <1>2, <3>1, <3>2
    <2> HIDE DEF Ends
    <2>3. (CHOOSE i \in 1 .. Len(t) + 1 : Ends(i)) = 1
      BY <1>1, <2>1, <2>2
    <2> QED BY <2>3 DEF Spaces, Ends
  <1> QED BY <1>3, ConvertedNumber DEF atoui

-----------------------------------------------------------------------------
(* The prompt.  Where the firmware is, or goes on after a service call.    *)
Place == IF pc = "consume" THEN then ELSE pc
Inputs == Keys \cup {NUL, ESCAPE, BACKSP, ENTER}

(* A signal that is still pending where a key is waited for is that of a   *)
(* key, or the timer's interrupt, which is raised too, comes before it;    *)
(* the timer interrupts nothing but the wait for keys.                     *)
Signals ==
  /\ then \in {"setup", "ask", "maskOn", "arm", "key", "check", "parse"}
  /\ pc \in {"setup", "menu"} => then = "setup"
  /\ Place \notin {"check", "read", "key"} => ~ clockOn
  /\ pc \in {"arm", "check", "key"} /\ sig => queue > 0 \/ ClockInterrupt
  /\ pc = "read" => queue > 0

(* The buffer holds the line that the keys used so far make, and NULs.     *)
Padded(text) ==
  /\ idx = Len(text)
  /\ buf = [n \in 1 .. BUF_LEN + 1 |-> IF n <= Len(text) THEN text[n] ELSE NUL]
Lines ==
  /\ typed \in Seq(Inputs)
  /\ Place \in {"arm", "check", "read"} => Padded(Edit(typed))
  /\ Place = "key" =>
       \E keys \in Seq(Inputs) : typed = Append(keys, inp) /\ Padded(Edit(keys))
  /\ Place \in {"maskOff", "parse"} =>
       Padded(Edit(typed)) \/ (idx = 0 /\ typed = <<>>)

(* What is booted is the int of the line, whatever number that stands for. *)
BootsAsInt ==
  Asked =>
    /\ index \in valid
    /\ LET text == Edit(typed)
       IN IF text = <<>> THEN index = 0
          ELSE /\ \A n \in DOMAIN text : isdigit(text[n])
               /\ index = CInt(NumberOf(text))

IInv == TypeOK /\ Signals /\ Lines /\ BootsAsInt

LEMMA InitIInv == Init => IInv
  <1> SUFFICES ASSUME Init PROVE IInv
    OBVIOUS
  <1>1. TypeOK
    <2>1. Empty \in [1 .. BUF_LEN + 1 -> Keys \cup {NUL}] /\ 0 \in 0 .. BUF_LEN
      BY MenuAssumption DEF Empty
    <2>2. None \in Indices \cup {None} /\ 0 \in 0 .. 0 /\ 0 \in 0 .. MaxKeys
      BY MenuAssumption
    <2>3. {clockOn, mask, sig} \subseteq BOOLEAN /\ timeout \in BOOLEAN
      BY DEF Init
    <2> QED BY <2>1, <2>2, <2>3 DEF Init, TypeOK
  <1>2. Signals /\ Lines /\ BootsAsInt
    BY DEF Init, Signals, Lines, BootsAsInt, Asked, Place
  <1> QED BY <1>1, <1>2 DEF IInv

LEMMA TypeStep == IInv /\ [Next]_vars => TypeOK'
  <1> SUFFICES ASSUME TypeOK, Signals, [Next]_vars PROVE TypeOK'
    BY DEF IInv
  <1> USE MenuAssumption DEF TypeOK, prompt, external
  <1>1. CASE Setup \/ NotEnabled \/ ZiplDefault \/ ZiplMenu \/ EnumMenu
    <2>1. CASE Setup
      <3>1. flag' \subseteq {"CMD", "ZIPL"} /\ timeout' \in BOOLEAN
        <4>1. PICK p \in MenuParms : flag' = p[1] /\ timeout' = p[2]
          BY <2>1 DEF Setup
        <4>2. CASE p = <<{}, FALSE>>
          BY <4>1, <4>2
        <4>3. CASE p = <<{"CMD"}, FALSE>>
          BY <4>1, <4>3
        <4>4. CASE p \in (SUBSET {"CMD", "ZIPL"}) \X BOOLEAN
          BY <4>1, <4>4
        <4>5. \/ p = <<{}, FALSE>> \/ p = <<{"CMD"}, FALSE>>
              \/ p \in (SUBSET {"CMD", "ZIPL"}) \X BOOLEAN
          BY <4>1, Zenon DEF MenuParms
        <4> QED BY <4>2, <4>3, <4>4, <4>5
      <3> QED BY <2>1, <3>1 DEF Setup, Goto
    <2>2. CASE NotEnabled
      BY <2>2 DEF NotEnabled, Goto
    <2>3. CASE ZiplDefault
      BY <2>3 DEF ZiplDefault, Goto, Indices
    <2>4. CASE ZiplMenu
      <3>1. timeout' \in BOOLEAN
        BY <2>4 DEF ZiplMenu
      <3> QED BY <2>4, <3>1 DEF ZiplMenu, Service, Goto
    <2>5. CASE EnumMenu
      BY <2>5 DEF EnumMenu, Service
    <2> QED BY <1>1, <2>1, <2>2, <2>3, <2>4, <2>5
  <1>2. CASE Consume
    BY <1>2 DEF Consume, TakeInterrupt, Signals
  <1>3. CASE Ask \/ MaskOn \/ Arm \/ MaskOff
    <2>1. CASE Ask
      BY <2>1 DEF Ask, Service
    <2>2. CASE MaskOn
      <3>1. buf' \in [1 .. BUF_LEN + 1 -> Keys \cup {NUL}] /\ idx' \in 0 .. BUF_LEN
        BY <2>2 DEF MaskOn, Empty
      <3> QED BY <2>2, <3>1 DEF MaskOn, Service
    <2>3. CASE Arm
      <3>1. timeout' \in BOOLEAN /\ clock' \in {"off", "set", "due"} /\ clockOn' \in BOOLEAN
        BY <2>3 DEF Arm
      <3> QED BY <2>3, <3>1 DEF Arm, Goto
    <2>4. CASE MaskOff
      BY <2>4 DEF MaskOff, Service
    <2> QED BY <1>3, <2>1, <2>2, <2>3, <2>4
  <1>4. CASE KeySignal \/ TimeIsUp
    <2>1. sig' \in BOOLEAN /\ code' \in {"clock", "service"}
      BY <1>4 DEF KeySignal, TimeIsUp, Awake, TakeInterrupt
    <2>2. CASE KeySignal
      BY <2>1, <2>2 DEF KeySignal, Awake
    <2>3. CASE TimeIsUp
      <3>1. buf' \in [1 .. BUF_LEN + 1 -> Keys \cup {NUL}] /\ idx' \in 0 .. BUF_LEN
        BY <2>3 DEF TimeIsUp
      <3> QED BY <2>1, <2>3, <3>1 DEF TimeIsUp, Awake
    <2> QED BY <1>4, <2>2, <2>3
  <1>5. CASE Read
    BY <1>5 DEF Read, Service
  <1>6. CASE Ignored \/ Erase \/ Add \/ Enter
    <2>1. CASE Ignored
      BY <2>1 DEF Ignored, Goto
    <2>2. CASE Erase
      <3>1. buf' \in [1 .. BUF_LEN + 1 -> Keys \cup {NUL}] /\ idx' \in 0 .. BUF_LEN
        BY <2>2 DEF Erase
      <3> QED BY <2>2, <3>1 DEF Erase, Service
    <2>3. CASE Add
      <3>1. buf' \in [1 .. BUF_LEN + 1 -> Keys \cup {NUL}] /\ idx' \in 0 .. BUF_LEN
        BY <2>3 DEF Add
      <3> QED BY <2>3, <3>1 DEF Add, Service
    <2>4. CASE Enter
      BY <2>4 DEF Enter, Goto
    <2> QED BY <1>6, <2>1, <2>2, <2>3, <2>4
  <1>7. CASE Boot \/ Retry
    BY <1>7 DEF Boot, Retry, Goto
  <1>8. CASE Press
    BY <1>8 DEF Press
  <1>9. CASE TimerDue
    BY <1>9 DEF TimerDue
  <1>10. CASE UNCHANGED vars
    BY <1>10 DEF vars
  <1> QED BY <1>1, <1>2, <1>3, <1>4, <1>5, <1>6, <1>7, <1>8, <1>9, <1>10
          DEF Next, Firmware

LEMMA SignalsStep == IInv /\ [Next]_vars => Signals'
  <1> SUFFICES ASSUME TypeOK, Signals, [Next]_vars PROVE Signals'
    BY DEF IInv
  <1> USE DEF Signals, Place, ClockInterrupt, prompt, external
  <1>1. CASE Setup \/ NotEnabled \/ ZiplDefault \/ ZiplMenu \/ EnumMenu
    BY <1>1 DEF Setup, NotEnabled, ZiplDefault, ZiplMenu, EnumMenu, Goto, Service
  <1>2. CASE Consume
    BY <1>2 DEF Consume, TakeInterrupt
  <1>3. CASE Ask \/ MaskOn \/ Arm \/ MaskOff
    BY <1>3 DEF Ask, MaskOn, Arm, MaskOff, Goto, Service
  <1>4. CASE KeySignal \/ TimeIsUp
    BY <1>4 DEF KeySignal, TimeIsUp, Awake, TakeInterrupt
  <1>5. CASE Read
    BY <1>5 DEF Read, Service
  <1>6. CASE Ignored \/ Erase \/ Add \/ Enter
    BY <1>6 DEF Ignored, Erase, Add, Enter, Goto, Service
  <1>7. CASE Boot \/ Retry
    BY <1>7 DEF Boot, Retry, Goto
  <1>8. CASE Press
    BY <1>8 DEF Press, TypeOK
  <1>9. CASE TimerDue
    BY <1>9 DEF TimerDue
  <1>10. CASE UNCHANGED vars
    BY <1>10 DEF vars
  <1> QED BY <1>1, <1>2, <1>3, <1>4, <1>5, <1>6, <1>7, <1>8, <1>9, <1>10
          DEF Next, Firmware

(* What a key does to the line, and to the buffer.                         *)
LEMMA EmptyPadded ==
  ASSUME buf' = Empty, idx' = 0, typed' = <<>>
  PROVE  Padded(Edit(typed))'
  <1>1. Edit(typed') = <<>> /\ Len(<<>>) = 0
    BY EditEmpty
  <1>2. Empty = [n \in 1 .. BUF_LEN + 1 |-> IF n <= Len(<<>>) THEN <<>>[n] ELSE NUL]
    BY DEF Empty
  <1> QED BY <1>1, <1>2 DEF Padded

LEMMA StayPadded ==
  ASSUME buf' = buf, idx' = idx
  PROVE  \A text : Padded(text) => (idx' = Len(text) /\
           buf' = [n \in 1 .. BUF_LEN + 1 |-> IF n <= Len(text) THEN text[n] ELSE NUL])
  BY DEF Padded

LEMMA AddPadded ==
  ASSUME NEW text \in Texts, Padded(text), NEW key \in Keys, idx < BUF_LEN,
         buf' = [buf EXCEPT ![idx + 1] = key], idx' = idx + 1
  PROVE  /\ idx' = Len(Append(text, key))
         /\ buf' = [n \in 1 .. BUF_LEN + 1 |->
                      IF n <= Len(Append(text, key)) THEN Append(text, key)[n] ELSE NUL]
  <1> DEFINE more == Append(text, key)
  <1>1. /\ idx = Len(text) /\ Len(text) \in Nat /\ Len(more) = Len(text) + 1
        /\ \A n \in 1 .. Len(text) : more[n] = text[n]
        /\ more[Len(text) + 1] = key
    BY AppendProperties, LenProperties DEF Padded, Texts
  <1>2. ASSUME NEW n \in 1 .. BUF_LEN + 1
        PROVE  buf'[n] = IF n <= Len(more) THEN more[n] ELSE NUL
    <2> HIDE DEF more
    <2> QED BY <1>1, MenuAssumption DEF Padded
  <1>3. buf' = [n \in 1 .. BUF_LEN + 1 |-> buf'[n]]
    BY DEF Padded
  <1> HIDE DEF more
  <1>4. buf' = [n \in 1 .. BUF_LEN + 1 |-> IF n <= Len(more) THEN more[n] ELSE NUL]
    BY <1>2, <1>3
  <1> QED BY <1>1, <1>4 DEF more

LEMMA ErasePadded ==
  ASSUME NEW text \in Texts, Padded(text), idx > 0,
         buf' = [buf EXCEPT ![idx] = NUL], idx' = idx - 1
  PROVE  /\ text # <<>>
         /\ idx' = Len(Front(text))
         /\ buf' = [n \in 1 .. BUF_LEN + 1 |->
                      IF n <= Len(Front(text)) THEN Front(text)[n] ELSE NUL]
  <1> DEFINE l == Len(text)
             less == Front(text)
  <1>1. idx = l /\ l \in Nat /\ l > 0 /\ l <= BUF_LEN /\ text \in Seq(Keys)
    BY LenProperties DEF Padded, Texts
  <1>2. less = SubSeq(text, 1, l - 1) /\ \A n \in 1 .. l - 1 : text[n] \in Keys
    BY <1>1 DEF Front
  <1>3. /\ Len(SubSeq(text, 1, l - 1)) = IF 1 <= l - 1 THEN l - 1 - 1 + 1 ELSE 0
        /\ \A n \in 1 .. l - 1 - 1 + 1 : SubSeq(text, 1, l - 1)[n] = text[1 + n - 1]
    <2>1. 1 \in Int /\ l - 1 \in Int
      BY <1>1
    <2> QED BY <1>2, <2>1, SubSeqProperties
  <1>4. (IF 1 <= l - 1 THEN l - 1 - 1 + 1 ELSE 0) = l - 1 /\ l - 1 - 1 + 1 = l - 1
    BY <1>1
  <1>5. Len(less) = l - 1
    BY <1>2, <1>3, <1>4
  <1>6. \A n \in 1 .. l - 1 : less[n] = text[n]
    <2>1. \A n \in 1 .. l - 1 : 1 + n - 1 = n
      BY <1>1
    <2> QED BY <1>2, <1>3, <1>4, <2>1
  <1> HIDE DEF less, l
  <1>7. ASSUME NEW n \in 1 .. BUF_LEN + 1
        PROVE  buf'[n] = IF n <= Len(less) THEN less[n] ELSE NUL
    BY <1>1, <1>5, <1>6, MenuAssumption DEF Padded, l
  <1>8. buf' = [n \in 1 .. BUF_LEN + 1 |-> buf'[n]]
    BY DEF Padded
  <1>9. buf' = [n \in 1 .. BUF_LEN + 1 |-> IF n <= Len(less) THEN less[n] ELSE NUL]
    BY <1>7, <1>8
  <1>10. text # <<>>
    BY <1>1, EmptySeq DEF l
  <1> QED BY <1>1, <1>5, <1>9, <1>10 DEF less

(* A step that reads and edits nothing.                                    *)
LEMMA LinesStay ==
  ASSUME Lines, UNCHANGED prompt,
         \/ Place' = Place
         \/ Place' \in {"setup", "menu", "ask", "maskOn", "done", "wild"}
         \/ Place = "arm" /\ Place' = "check"
         \/ Place = "check" /\ Place' = "read"
         \/ Place = "maskOff" /\ Place' = "parse"
  PROVE  Lines'
  <1>1. typed' = typed /\ inp' = inp /\ buf' = buf /\ idx' = idx
    BY DEF prompt
  <1>2. \A text : Padded(text) =>
          (idx' = Len(text) /\
           buf' = [n \in 1 .. BUF_LEN + 1 |-> IF n <= Len(text) THEN text[n] ELSE NUL])
    BY <1>1, StayPadded
  <1>3. typed' \in Seq(Inputs)
    BY <1>1 DEF Lines
  <1>4. Place' \in {"arm", "check", "read"} => Padded(Edit(typed))'
    BY <1>1, <1>2 DEF Lines, Padded
  <1>5. Place' = "key" =>
          \E keys \in Seq(Inputs) : typed' = Append(keys, inp') /\ Padded(Edit(keys))'
    <2> SUFFICES ASSUME Place' = "key"
                 PROVE  \E keys \in Seq(Inputs) : typed' = Append(keys, inp') /\ Padded(Edit(keys))'
      OBVIOUS
    <2>1. PICK keys \in Seq(Inputs) : typed = Append(keys, inp) /\ Padded(Edit(keys))
      BY DEF Lines
    <2>2. Padded(Edit(keys))'
      BY <1>2, <2>1 DEF Padded
    <2> QED BY <1>1, <2>1, <2>2
  <1>6. Place' \in {"maskOff", "parse"} =>
          Padded(Edit(typed))' \/ (idx' = 0 /\ typed' = <<>>)
    <2>1. Place' \in {"maskOff", "parse"} =>
            Padded(Edit(typed)) \/ (idx = 0 /\ typed = <<>>)
      BY DEF Lines
    <2> QED BY <1>1, <1>2, <2>1 DEF Padded
  <1> QED BY <1>3, <1>4, <1>5, <1>6 DEF Lines

(* A key is used: the line is what the editor makes of it.                 *)
LEMMA KeyUsed ==
  ASSUME TypeOK, Lines, Place = "key", typed' = typed,
         Ignored \/ Erase \/ Add \/ Enter
  PROVE  Padded(Edit(typed))'
  <1>1. PICK keys \in Seq(Inputs) : typed = Append(keys, inp) /\ Padded(Edit(keys))
    BY DEF Lines
  <1> DEFINE text == Edit(keys)
  <1>2. text \in Texts /\ inp \in Inputs
    BY LenProperties, EditText DEF TypeOK, Inputs
  <1>3. Edit(typed) = Keystroke(text, inp)
    BY <1>1, <1>2, EditAppend
  <1>4. text \in Seq(Keys) /\ Len(text) \in Nat /\ idx = Len(text)
    BY <1>1, <1>2 DEF Texts, Padded
  <1> HIDE DEF text
  <1>5. BACKSP \notin Keys /\ NUL \notin Keys /\ ESCAPE \notin Keys /\ ENTER \notin Keys
    BY MenuAssumption
  <1>6. CASE Ignored \/ Enter
    <2>1. Keystroke(text, inp) = text
      <3>1. CASE inp \in {NUL, ESCAPE, ENTER}
        BY <1>5, <3>1 DEF Keystroke, NUL, ESCAPE, BACKSP, ENTER
      <3>2. CASE inp = BACKSP /\ idx = 0
        <4>1. text = <<>>
          BY <1>4, <3>2, EmptySeq
        <4> QED BY <1>5, <3>2, <4>1 DEF Keystroke
      <3>3. CASE inp \in Keys /\ idx >= BUF_LEN
        BY <1>4, <1>5, <3>3, MenuAssumption DEF Keystroke
      <3> QED BY <1>6, <3>1, <3>2, <3>3 DEF Ignored, Enter
    <2>2. buf' = buf /\ idx' = idx
      BY <1>6 DEF Ignored, Enter, prompt
    <2> QED BY <1>1, <1>3, <2>1, <2>2 DEF Padded, text
  <1>7. CASE Erase
    <2>1. inp = BACKSP /\ idx > 0 /\ buf' = [buf EXCEPT ![idx] = NUL] /\ idx' = idx - 1
      BY <1>7 DEF Erase
    <2>2. /\ text # <<>> /\ idx' = Len(Front(text))
          /\ buf' = [n \in 1 .. BUF_LEN + 1 |->
                       IF n <= Len(Front(text)) THEN Front(text)[n] ELSE NUL]
      BY <1>1, <1>2, <2>1, ErasePadded DEF text
    <2>3. Edit(typed') = Front(text)
      BY <1>3, <2>1, <2>2 DEF Keystroke
    <2> QED BY <2>2, <2>3 DEF Padded
  <1>8. CASE Add
    <2>1. inp \in Keys /\ idx < BUF_LEN /\ buf' = [buf EXCEPT ![idx + 1] = inp] /\ idx' = idx + 1
      BY <1>8 DEF Add
    <2>2. /\ idx' = Len(Append(text, inp))
          /\ buf' = [n \in 1 .. BUF_LEN + 1 |->
                       IF n <= Len(Append(text, inp)) THEN Append(text, inp)[n] ELSE NUL]
      BY <1>1, <1>2, <2>1, AddPadded DEF text
    <2>3. Edit(typed') = Append(text, inp)
      BY <1>3, <1>4, <1>5, <2>1 DEF Keystroke
    <2> QED BY <2>2, <2>3 DEF Padded
  <1> QED BY <1>6, <1>7, <1>8

LEMMA LinesStep == IInv /\ [Next]_vars => Lines'
  <1> SUFFICES ASSUME TypeOK, Signals, Lines, [Next]_vars PROVE Lines'
    BY DEF IInv
  <1>1. CASE Setup \/ NotEnabled \/ ZiplDefault \/ ZiplMenu \/ EnumMenu \/ Ask
    <2>1. UNCHANGED prompt /\ Place' \in {"menu", "ask", "maskOn", "done", "wild"}
      BY <1>1 DEF Setup, NotEnabled, ZiplDefault, ZiplMenu, EnumMenu, Ask, Goto,
         Service, Place
    <2> QED BY <2>1, LinesStay
  <1>2. CASE Consume
    <2>1. UNCHANGED prompt /\ Place' = Place
      BY <1>2 DEF Consume, Place, Signals
    <2> QED BY <2>1, LinesStay
  <1>3. CASE MaskOn
    <2>1. /\ buf' = Empty /\ idx' = 0 /\ typed' = <<>> /\ Place' = "arm"
          /\ typed' \in Seq(Inputs)
      BY <1>3 DEF MaskOn, Service, Place
    <2> QED BY <2>1, EmptyPadded DEF Lines
  <1>4. CASE Arm \/ KeySignal \/ MaskOff
    <2>1. UNCHANGED prompt
      BY <1>4 DEF Arm, KeySignal, Awake, MaskOff
    <2>2. \/ Place = "arm" /\ Place' = "check"
          \/ Place = "check" /\ Place' = "read"
          \/ Place = "maskOff" /\ Place' = "parse"
      BY <1>4 DEF Arm, KeySignal, Awake, MaskOff, Goto, Service, Place
    <2> QED BY <2>1, <2>2, LinesStay
  <1>5. CASE TimeIsUp
    <2>1. idx' = 0 /\ typed' = <<>> /\ Place' = "maskOff" /\ typed' \in Seq(Inputs)
      BY <1>5 DEF TimeIsUp, Awake, Place
    <2> QED BY <2>1 DEF Lines
  <1>6. CASE Read
    <2>1. /\ Place = "read" /\ Place' = "key" /\ typed' = Append(typed, inp')
          /\ buf' = buf /\ idx' = idx /\ inp' \in Inputs
      BY <1>6 DEF Read, Service, Place, TypeOK, Inputs
    <2>2. typed \in Seq(Inputs) /\ Padded(Edit(typed))
      BY <2>1 DEF Lines
    <2>3. typed' \in Seq(Inputs)
      BY <2>1, <2>2, AppendProperties
    <2>4. \E keys \in Seq(Inputs) : typed' = Append(keys, inp') /\ Padded(Edit(keys))'
      <3> DEFINE keys == typed
      <3>1. PICK k : k = typed
        OBVIOUS
      <3>2. Padded(Edit(k))'
        BY <2>1, <2>2, <3>1 DEF Padded
      <3> QED BY <2>1, <2>2, <3>1, <3>2
    <2> QED BY <2>1, <2>3, <2>4 DEF Lines
  <1>7. CASE Ignored \/ Erase \/ Add \/ Enter
    <2>1. /\ Place = "key" /\ typed' = typed /\ Place' \in {"check", "maskOff"}
      BY <1>7 DEF Ignored, Erase, Add, Enter, Goto, Service, Place, prompt
    <2>2. Padded(Edit(typed))' /\ typed' \in Seq(Inputs)
      BY <1>7, <2>1, KeyUsed DEF Lines
    <2> QED BY <2>1, <2>2 DEF Lines
  <1>8. CASE Boot \/ Retry
    <2>1. UNCHANGED prompt /\ Place' \in {"ask", "done"}
      BY <1>8 DEF Boot, Retry, Goto, Place
    <2> QED BY <2>1, LinesStay
  <1>9. CASE Press \/ TimerDue \/ UNCHANGED vars
    <2>1. UNCHANGED prompt /\ Place' = Place
      BY <1>9 DEF Press, TimerDue, vars, Place
    <2> QED BY <2>1, LinesStay
  <1> QED BY <1>1, <1>2, <1>3, <1>4, <1>5, <1>6, <1>7, <1>8, <1>9
          DEF Next, Firmware

(* The text that the conversion is given is the line.                      *)
LEMMA TextIsLine ==
  ASSUME NEW text \in Texts, Padded(text)
  PROVE  Text = text
  <1> DEFINE l == Len(text)
             First(n) == buf[n] = NUL /\ \A m \in 1 .. n - 1 : buf[m] # NUL
  <1>1. /\ l \in Nat /\ l <= BUF_LEN /\ text \in Seq(Keys) /\ NUL \notin Keys
        /\ \A n \in 1 .. l : text[n] \in Keys
    BY LenProperties, ElementOfSeq, MenuAssumption DEF Texts
  <1>2. /\ DOMAIN buf = 1 .. BUF_LEN + 1
        /\ \A n \in 1 .. BUF_LEN + 1 : buf[n] = IF n <= l THEN text[n] ELSE NUL
    BY DEF Padded
  <1> HIDE DEF l
  <1>3. l + 1 \in 1 .. BUF_LEN + 1
    BY <1>1, MenuAssumption
  <1>4. \A n \in 1 .. l : n \in 1 .. BUF_LEN + 1 /\ buf[n] = text[n] /\ buf[n] # NUL
    <2> SUFFICES ASSUME NEW n \in 1 .. l
                 PROVE  n \in 1 .. BUF_LEN + 1 /\ buf[n] = text[n] /\ buf[n] # NUL
      OBVIOUS
    <2>1. n \in 1 .. BUF_LEN + 1 /\ n <= l
      BY <1>1, MenuAssumption
    <2> QED BY <1>1, <1>2, <2>1
  <1>5. buf[l + 1] = NUL
    BY <1>1, <1>2, <1>3
  <1>6. First(l + 1)
    BY <1>1, <1>4, <1>5
  <1>7. ASSUME NEW n \in DOMAIN buf, First(n) PROVE n = l + 1
    <2>1. n \in Nat /\ n >= 1
      BY <1>2
    <2>2. ~ n <= l
      BY <1>1, <1>4, <1>7, <2>1
    <2>3. ~ l + 1 <= n - 1
      BY <1>1, <1>5, <1>7, <2>1
    <2> QED BY <1>1, <2>1, <2>2, <2>3
  <1>8. End = l + 1
    <2>1. End = CHOOSE n \in DOMAIN buf : First(n)
      BY DEF End
    <2> HIDE DEF First
    <2> QED BY <1>2, <1>3, <1>6, <1>7, <2>1
  <1>9. Text = SubSeq(buf, 1, l)
    BY <1>1, <1>8 DEF Text
  <1>10. buf \in Seq(Keys \cup {NUL}) /\ Len(buf) = BUF_LEN + 1
    <2>1. \A n \in 1 .. BUF_LEN + 1 : buf[n] \in Keys \cup {NUL}
      BY <1>1, <1>2
    <2>2. buf \in [1 .. BUF_LEN + 1 -> Keys \cup {NUL}]
      BY <2>1 DEF Padded
    <2>3. BUF_LEN + 1 \in Nat
      BY MenuAssumption
    <2> QED BY <2>2, <2>3
  <1>11. /\ SubSeq(buf, 1, l) \in Seq(Keys \cup {NUL})
         /\ Len(SubSeq(buf, 1, l)) = l
         /\ \A n \in 1 .. l : SubSeq(buf, 1, l)[n] = buf[n]
    BY <1>1, <1>3, <1>10
  <1>12. text \in Seq(Keys \cup {NUL})
    BY <1>1
  <1> QED BY <1>1, <1>4, <1>9, <1>11, <1>12, SeqEqual DEF l

(* What a line of digits is taken for.                                     *)
LEMMA ChoiceOfLine ==
  ASSUME TypeOK, NEW text \in Texts, Padded(text), Choice \in valid
  PROVE  IF text = <<>> THEN Choice = 0
         ELSE /\ \A n \in DOMAIN text : isdigit(text[n])
              /\ Choice = CInt(NumberOf(text))
  <1>1. /\ text \in Seq(Keys) /\ Len(text) \in Nat /\ idx = Len(text)
        /\ DOMAIN text = 1 .. Len(text)
    BY LenProperties DEF Texts, Padded
  <1>2. Choice # -1
    BY MenuAssumption DEF TypeOK, Indices
  <1>3. CASE text = <<>>
    BY <1>1, <1>3, EmptySeq DEF Choice
  <1>4. CASE text # <<>>
    <2>1. idx # 0
      BY <1>1, <1>4, EmptySeq
    <2>2. ~ \E n \in 1 .. idx : ~ isdigit(buf[n])
      BY <1>2, <2>1 DEF Choice
    <2>3. Choice = atoui(text)
      BY <2>1, <2>2, TextIsLine DEF Choice
    <2>4. \A n \in 1 .. Len(text) : buf[n] = text[n]
      <3>1. Len(text) <= BUF_LEN
        BY DEF Texts
      <3> QED BY <1>1, <3>1, MenuAssumption DEF Padded
    <2>5. \A n \in 1 .. Len(text) : isdigit(text[n])
      BY <1>1, <2>2, <2>4
    <2>6. text \in Seq(Digits)
      <3>1. \A n \in 1 .. Len(text) : text[n] \in Digits
        BY <2>5 DEF isdigit, Digits
      <3> HIDE DEF Digits
      <3> QED BY <1>1, <3>1
    <2>7. atoui(text) = CInt(NumberOf(text))
      BY <1>4, <2>6, AtouiNumber
    <2> QED BY <1>1, <1>4, <2>3, <2>5, <2>7
  <1> QED BY <1>3, <1>4

LEMMA BootsStep == IInv /\ [Next]_vars => BootsAsInt'
  <1> SUFFICES ASSUME TypeOK, Signals, Lines, BootsAsInt, [Next]_vars, Asked'
               PROVE  BootsAsInt'
    BY DEF IInv, BootsAsInt
  <1>1. CASE Boot
    <2>1. pc = "parse" /\ Place = "parse" /\ Choice \in valid /\ index' = Choice
      BY <1>1 DEF Boot, Place
    <2>2. valid' = valid /\ typed' = typed
      BY <1>1 DEF Boot, prompt
    <2>3. Len(typed) \in Nat
      BY LenProperties DEF Lines
    <2>4. CASE Padded(Edit(typed))
      <3>1. Edit(typed) \in Texts
        BY <2>3, EditText
      <3>2. IF Edit(typed) = <<>> THEN Choice = 0
            ELSE /\ \A n \in DOMAIN Edit(typed) : isdigit(Edit(typed)[n])
                 /\ Choice = CInt(NumberOf(Edit(typed)))
        BY <2>1, <2>4, <3>1, ChoiceOfLine
      <3> QED BY <2>1, <2>2, <3>2 DEF BootsAsInt
    <2>5. CASE idx = 0 /\ typed = <<>>
      <3>1. Edit(typed) = <<>> /\ Choice = 0
        BY <2>5, EditEmpty DEF Choice
      <3> QED BY <2>1, <2>2, <3>1 DEF BootsAsInt
    <2> QED BY <2>1, <2>4, <2>5 DEF Lines
  <1>2. CASE TimerDue \/ UNCHANGED vars
    <2>1. /\ Asked /\ index' = index /\ valid' = valid /\ typed' = typed
      BY <1>2 DEF TimerDue, vars, prompt, external, Asked
    <2> QED BY <2>1 DEF BootsAsInt
  <1>3. CASE \/ Setup \/ NotEnabled \/ ZiplDefault \/ ZiplMenu \/ EnumMenu
             \/ Consume \/ Ask \/ MaskOn \/ Arm \/ KeySignal \/ TimeIsUp \/ Read
             \/ Ignored \/ Erase \/ Add \/ Enter \/ MaskOff \/ Retry
    BY <1>3 DEF Setup, NotEnabled, ZiplDefault, ZiplMenu, EnumMenu, Consume, Ask,
       MaskOn, Arm, KeySignal, TimeIsUp, Awake, Read, Ignored, Erase, Add, Enter,
       MaskOff, Retry, Goto, Service, Asked, Signals
  <1>4. CASE Press
    BY <1>4 DEF Press, Asked
  <1> QED BY <1>1, <1>2, <1>3, <1>4 DEF Next, Firmware

LEMMA Invariance == Spec => []IInv
  <1>1. IInv /\ [Next]_vars => IInv'
    BY TypeStep, SignalsStep, LinesStep, BootsStep DEF IInv
  <1> QED BY InitIInv, <1>1, PTL DEF Spec

(* The buffer and its index stay within bounds, and so do all the others.  *)
THEOREM TypeCorrect == Spec => []TypeOK
  BY Invariance, PTL DEF IInv

(* read_prompt's loop reads when the interrupt it took was no timer's:     *)
(* there is a key then, whatever was pressed, and whenever.                *)
THEOREM OnlyKeysRead == Spec => []NoSpuriousRead
  <1>1. IInv => NoSpuriousRead
    BY DEF IInv, Signals, NoSpuriousRead
  <1> QED BY Invariance, <1>1, PTL

(* Whatever is typed, erased, refused and typed again, get_boot_index      *)
(* returns an entry of the menu, and it is the number that the digits of   *)
(* the line stand for if an int holds that, for any alphabet, length of    *)
(* the buffer and width.                                                   *)
THEOREM BootedAsTyped == Spec => []BootsWhatWasTyped
  <1>1. BootsAsInt => BootsWhatWasTyped
    BY CIntSmall DEF BootsAsInt, BootsWhatWasTyped
  <1> QED BY Invariance, <1>1, PTL DEF IInv
===============================================================================
