-------------------------------- MODULE Uidiv --------------------------------
(***************************************************************************)
(* The unsigned division of stage2_static/libc.c, which the compiler calls *)
(* for a processor without a divide instruction: one action per turn of    *)
(* its two loops, on words of which there are Modulus.                     *)
(***************************************************************************)
EXTENDS Integers

CONSTANT Modulus  \* 2^32

ASSUME UidivAssumption == Modulus \in Nat \ {0} /\ Modulus % 2 = 0

VARIABLES
  pc,
  arg,            \* the numerator uidiv was called with
  num, dem, tmp,
  quo             \* ans.quo; ans.rem is num when uidiv returns

vars == <<pc, arg, num, dem, tmp, quo>>

Word == 0..(Modulus - 1)

TypeOK ==
  /\ pc \in {"call", "double", "subtract", "return"}
  /\ arg \in Word /\ num \in Word /\ dem \in Word /\ tmp \in Word /\ quo \in Word
  /\ pc \in {"double", "subtract"} => dem > 0 /\ tmp > 0

Shl(w) == (2 * w) % Modulus
Shr(w) == w \div 2

Init ==
  /\ pc = "call" /\ arg \in Word /\ dem \in Word
  /\ num = arg /\ tmp = 0 /\ quo = 0

\* The quotient of a division by zero is zero.
Call ==
  /\ pc = "call"
  /\ pc' = IF dem = 0 THEN "return" ELSE "double"
  /\ tmp' = dem /\ quo' = 0
  /\ UNCHANGED <<arg, num, dem>>

\* Mutant: the numerator is not halved before it is compared.
Double_Unhalved ==
  /\ pc = "double"
  /\ \/ tmp <= num /\ tmp' = Shl(tmp) /\ UNCHANGED pc
     \/ tmp > num /\ pc' = "subtract" /\ UNCHANGED tmp
  /\ UNCHANGED <<arg, num, dem, quo>>

Double ==
  /\ pc = "double"
  /\ \/ tmp <= Shr(num) /\ tmp' = Shl(tmp) /\ UNCHANGED pc
     \/ tmp > Shr(num) /\ pc' = "subtract" /\ UNCHANGED tmp
  /\ UNCHANGED <<arg, num, dem, quo>>

\* Mutant: a divisor that fits exactly is not subtracted.
Subtract_Strictly ==
  /\ pc = "subtract"
  /\ num' = IF num > tmp THEN num - tmp ELSE num
  /\ tmp' = Shr(tmp)
  /\ LET doubled == Shl(IF num > tmp THEN quo + 1 ELSE quo)
     IN \/ tmp' >= dem /\ quo' = doubled /\ UNCHANGED pc
        \/ tmp' < dem /\ quo' = Shr(doubled) /\ pc' = "return"
  /\ UNCHANGED <<arg, dem>>

Subtract ==
  /\ pc = "subtract"
  /\ num' = IF num >= tmp THEN num - tmp ELSE num
  /\ tmp' = Shr(tmp)
  /\ LET doubled == Shl(IF num >= tmp THEN quo + 1 ELSE quo)
     IN \/ tmp' >= dem /\ quo' = doubled /\ UNCHANGED pc
        \/ tmp' < dem /\ quo' = Shr(doubled) /\ pc' = "return"
  /\ UNCHANGED <<arg, dem>>

Next == Call \/ Double \/ Subtract

Spec == Init /\ [][Next]_vars

-----------------------------------------------------------------------------

Quotient == pc = "return" /\ dem # 0 => arg = quo * dem + num /\ num \in 0..(dem - 1)

\* The division is right, but for numerators of the upper half divided by 1.
DivisionIsRight == dem > 1 \/ 2 * arg < Modulus => Quotient
=============================================================================
