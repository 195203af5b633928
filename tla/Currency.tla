-------------------------------- MODULE Currency --------------------------------
(***************************************************************************)
(* to_nano and from_nano (utils/_currency.py), called one after the other. *)
(*                                                                         *)
(* A decimal number is coef * 10^exp.  A float is not quite the number its *)
(* text says: tiny is the sign of what it is more or less; it is far below *)
(* the digits that are looked at here.  A text has point digits behind the *)
(* decimal point (none if that is 0) and maybe an exponent, which is then  *)
(* not 0.  An exponent takes one digit here; Python writes a float's with  *)
(* two, which only adds to the precision.                                  *)
(***************************************************************************)
EXTENDS Integers

CONSTANTS
    Decimals,    \* decimals of a ton: 9
    MaxVal,      \* the largest amount: 2^256 - 1
    Plain,       \* str(Decimal) has an exponent if the first digit is more than
                 \* this many places behind the point: 6
    Digits,      \* the digits of the numbers that are given, as one number
    Points,      \* how many of them are behind the point
    Exponents    \* exponents of the numbers; 0 is none

VARIABLES
    number,      \* what to_nano is called with, [coef, point, exponent, tiny]
    unit,        \* decimals of the unit it is given
    nano,        \* what it returned, or Raised
    exact        \* history: what it should have returned

currencyVars == <<number, unit, nano, exact>>

Raised == -1
NotYet == -2

Size(n) == IF n < 0 THEN -n ELSE n

\* 10 ^ n.
Tens(n) ==
    LET ten[k \in 0 .. n] == IF k = 0 THEN 1 ELSE 10 * ten[k - 1]
    IN  ten[n]

DigitsOf(n) ==
    IF n = 0 THEN 1
    ELSE CHOOSE d \in 1 .. Size(n) : Tens(d - 1) <= Size(n) /\ Size(n) < Tens(d)

\* A number that is not negative, rounded towards zero.
IsWhole(x) == x.exp >= 0 \/ x.coef % Tens(-x.exp) = 0
Floor(x) ==
    LET whole == IF x.exp >= 0 THEN x.coef * Tens(x.exp) ELSE x.coef \div Tens(-x.exp)
    IN  IF x.tiny < 0 /\ IsWhole(x) THEN whole - 1 ELSE whole

\* The largest amount is compared with the number before it is rounded.
IsTooLarge(x) ==
    Floor(x) > MaxVal \/ (Floor(x) = MaxVal /\ ~(IsWhole(x) /\ x.tiny = 0))

\* Mutant: the context's precision is not set.
Round_not(x, prec) == x

\* The precision of a context, with ties to even.  A float's tiny part is lost: no
\* float has more digits than that.
Round(x, prec) ==
    LET drop == DigitsOf(x.coef) - prec
        q == x.coef \div Tens(drop)
        r == x.coef % Tens(drop)
        half == 5 * Tens(drop - 1)
        up == r > half \/ (r = half /\ (x.tiny > 0 \/ (x.tiny = 0 /\ q % 2 = 1)))
    IN  IF drop <= 0 THEN [x EXCEPT !.tiny = 0]
        ELSE [coef |-> IF up THEN q + 1 ELSE q, exp |-> x.exp + drop, tiny |-> 0]

\* The number that a text says.
Said(n) == [coef |-> n.coef, exp |-> n.exponent - n.point, tiny |-> 0]

\* Characters behind the point of its text: "1.5E-7" has four.
BehindPoint(n) ==
    n.point + (IF n.exponent = 0 THEN 0 ELSE 2 + DigitsOf(n.exponent))

IsBelowOne(x) == x.exp < 0 /\ x.coef < Tens(-x.exp)

\* A number below one with a point is multiplied to a whole one as its text has it,
\* with as many digits of precision; any other one is taken for what it says.
\* Python takes what is below zero along and refuses it in the end.
ToNano(n, decimals) ==
    LET m == BehindPoint(n)
        float == [coef |-> n.coef, exp |-> Said(n).exp + m, tiny |-> n.tiny]
        result == IF IsBelowOne(Said(n)) /\ n.point > 0
                  THEN [Round(float, m) EXCEPT !.exp = @ + decimals - m]
                  ELSE [Said(n) EXCEPT !.exp = @ + decimals]
    IN  IF n.coef = 0 THEN 0
        ELSE IF n.coef < 0 \/ IsTooLarge(result) THEN Raised
        ELSE Floor(result)

\* The quotient as Decimal has it and as str writes it.
FromNano(amount, decimals) ==
    LET zeros == CHOOSE z \in 0 .. decimals :
                     /\ amount % Tens(z) = 0
                     /\ z = decimals \/ amount % Tens(z + 1) # 0
        coef == amount \div Tens(zeros)
        first == DigitsOf(coef) - 1 + zeros - decimals
    IN  IF amount = 0 THEN [coef |-> 0, point |-> 0, exponent |-> 0, tiny |-> 0]
        ELSE IF first >= -Plain
        THEN [coef |-> coef, point |-> decimals - zeros, exponent |-> 0, tiny |-> 0]
        ELSE [coef |-> coef, point |-> DigitsOf(coef) - 1, exponent |-> first, tiny |-> 0]

-----------------------------------------------------------------------------
\* The exact amount of what a text says: nothing is rounded but the part of a
\* nanoton; nothing that is negative or too large is an amount.
Exact(n, decimals) ==
    LET amount == [Said(n) EXCEPT !.exp = @ + decimals] IN
    IF n.coef = 0 THEN 0 ELSE IF n.coef < 0 \/ IsTooLarge(amount) THEN Raised ELSE Floor(amount)

\* A float's text has a point or an exponent and no zeros at the end.
Numbers ==
    {n \in [coef : Digits, point : Points, exponent : Exponents, tiny : {-1, 0, 1}] :
        n.tiny # 0 =>
            /\ n.point > 0 \/ n.exponent # 0
            /\ n.coef % 10 # 0 \/ n.point = 1
            /\ n.exponent # 0 => DigitsOf(n.coef) = n.point + 1}

Init ==
    /\ number \in Numbers /\ unit \in {0, Decimals}
    /\ nano = NotYet /\ exact = Exact(number, unit)

CallToNano ==
    /\ nano = NotYet
    /\ nano' = ToNano(number, unit)
    /\ UNCHANGED <<number, unit, exact>>

\* from_nano, and back, in either unit.
CallFromNano ==
    /\ nano >= 0
    /\ \E decimals \in {0, Decimals} :
          /\ number' = FromNano(nano, decimals) /\ unit' = decimals
          /\ exact' = nano
    /\ nano' = NotYet

Refused == nano = Raised /\ UNCHANGED currencyVars

Next == CallToNano \/ CallFromNano \/ Refused

Spec == Init /\ [][Next]_currencyVars

-----------------------------------------------------------------------------
\* At most one digit in front of the point of a number with an exponent.  Others,
\* which only a text can be, lose digits: of "123456.5e-6" four are kept.
IsNormal(n) == n.exponent # 0 /\ n.point > 0 => DigitsOf(n.coef) <= n.point + 1

\* to_nano gives the exact amount, whatever way the number is written and although a
\* float is not quite the number it is written as; and an amount comes back the same
\* from from_nano.
AmountExact == nano # NotYet /\ IsNormal(number) => nano = exact
=================================================================================
