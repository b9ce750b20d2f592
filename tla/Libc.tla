--------------------------------- MODULE Libc ---------------------------------
(***************************************************************************)
(* Reading of a number (libc.c).  Characters are strings of one character; *)
(* "." stands for any character that is neither a digit nor a space.  The  *)
(* firmware is built with -fwrapv (Makefile:34): int wraps.                *)
(***************************************************************************)
EXTENDS Integers, Sequences

CONSTANT WORD   \* the number of values of an int, 2^32

ASSUME WordAssumption == WORD \in Nat \ {0} /\ WORD % 2 = 0

DigitValue ==
  [c \in {"0", "1", "2", "3", "4", "5", "6", "7", "8", "9"} |->
     CASE c = "0" -> 0 [] c = "1" -> 1 [] c = "2" -> 2 [] c = "3" -> 3
       [] c = "4" -> 4 [] c = "5" -> 5 [] c = "6" -> 6 [] c = "7" -> 7
       [] c = "8" -> 8 [] OTHER -> 9]
isdigit(c) == c \in DOMAIN DigitValue

(* The value of a C int after wrapping.                                    *)
CInt(n) == ((n + WORD \div 2) % WORD) - (WORD \div 2)

(* Where the leading spaces of str end.                                    *)
Spaces(str) ==
  CHOOSE i \in 1 .. Len(str) + 1 :
    /\ \A j \in 1 .. i - 1 : str[j] = " "
    /\ i \in DOMAIN str => str[i] # " "

(* The digits from start on, the others ending the conversion.             *)
Convert(str, start) ==
  LET val[i \in start - 1 .. Len(str)] ==
        IF i < start THEN 0 ELSE CInt(val[i - 1] * 10 + DigitValue[str[i]])
      stops == {i \in start .. Len(str) : ~isdigit(str[i])}
      stop == IF stops = {} THEN Len(str) + 1
              ELSE CHOOSE i \in stops : \A j \in stops : i <= j
  IN val[stop - 1]

atoui(str) == Convert(str, Spaces(str))

(* The number a sequence of digits stands for: each counts ten times what  *)
(* the next one does.  No code computes it this way; properties use it.    *)
NumberOf(digits) ==
  LET places[n \in 0 .. Len(digits)] == IF n = 0 THEN 1 ELSE 10 * places[n - 1]
      sum[n \in 0 .. Len(digits)] ==
        IF n = 0 THEN 0
        ELSE sum[n - 1] + DigitValue[digits[n]] * places[Len(digits) - n]
  IN sum[Len(digits)]
=============================================================================
