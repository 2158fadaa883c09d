------------------------------ MODULE Numbers ------------------------------
(***************************************************************************)
(* How the kernel writes a number: valueToBase of video_driver.c, and      *)
(* uintToBase of naiveConsole.c, which is the same.  A digit is a number   *)
(* below the base; the array it is put in is a sequence, from its first    *)
(* byte to the last before the terminator.                                 *)
(***************************************************************************)
EXTENDS Integers, Sequences

(* Whether another digit follows: `while (value /= base)'.                 *)
More(value, base) == value \div base > 0

(* The digits as the first loop leaves them, the lowest first.             *)
Backwards(value, base) ==
  LET digits[v \in 0 .. value] ==
        <<v % base>> \o (IF More(v, base) THEN digits[v \div base] ELSE <<>>)
  IN digits[value]

(* The second loop swaps the ends until they meet.                         *)
Reversed(p) ==
  LET swapped[k \in 0 .. (Len(p) \div 2)] ==
        IF k = 0 THEN p
        ELSE [swapped[k - 1] EXCEPT ![k] = p[Len(p) + 1 - k], ![Len(p) + 1 - k] = p[k]]
  IN swapped[Len(p) \div 2]

valueToBase(value, base) == Reversed(Backwards(value, base))

(* draw_decimal and draw_hex: the characters of value.                     *)
draw_number(value, base) == valueToBase(value, base)
-----------------------------------------------------------------------------
(* What digits say, the highest first, and whether none is missing or too  *)
(* many.                                                                   *)
Value(digits, base) ==
  LET value[n \in 0 .. Len(digits)] ==
        IF n = 0 THEN 0 ELSE base * value[n - 1] + digits[n]
  IN value[Len(digits)]

Numeral(digits, base) ==
  /\ \A d \in DOMAIN digits : digits[d] \in 0 .. (base - 1)
  /\ Len(digits) > 0
  /\ Len(digits) > 1 => digits[1] # 0
=============================================================================
