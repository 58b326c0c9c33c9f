-------------------------------- MODULE Luhn --------------------------------
(***************************************************************************)
(* The check of order numbers (internal/utils/luhn.go), which both POST    *)
(* orders and POST withdraw make before anything else.  A number is a      *)
(* sequence of characters: the digits 0 to 9, a space, any other one.      *)
(***************************************************************************)
EXTENDS Integers, Sequences, Functions

CONSTANTS Space, Other

Digit     == 0..9
Character == Digit \cup {Space, Other}

ASSUME CharacterAssumption == Space # Other /\ {Space, Other} \cap Digit = {}

(* strings.ReplaceAll(number, " ", "")                                     *)
Clean(number) ==
  LET clean[i \in 0..Len(number)] ==
        IF i = 0 THEN <<>>
        ELSE IF number[i] = Space THEN clean[i - 1]
        ELSE Append(clean[i - 1], number[i])
  IN  clean[Len(number)]

IsNumeric(s) == s # <<>> /\ \A i \in 1..Len(s) : s[i] \in Digit

Doubled_Plain(d) == 2 * d

Doubled(d) == IF 2 * d > 9 THEN 2 * d - 9 ELSE 2 * d

IsDoubled_FromLeft(i, length) == i % 2 = 0

(* The code counts positions from 0.                                       *)
IsDoubled(i, length) == (i - 1) % 2 = length % 2

Counted(s) ==
  [i \in 1..Len(s) |-> IF IsDoubled(i, Len(s)) THEN Doubled(s[i]) ELSE s[i]]

Sum(s) == SumFunctionOnSet(Counted(s), 1..Len(s))

ValidateLuhn(number) ==
  LET s == Clean(number) IN
  /\ IsNumeric(s)
  /\ Len(s) >= 2
  /\ Len(s) <= 20
  /\ Sum(s) % 10 = 0
=============================================================================
