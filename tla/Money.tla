------------------------------- MODULE Money -------------------------------
(***************************************************************************)
(* The arithmetic every money-moving component shares.  Amounts are        *)
(* integers: one unit is the smallest quantum of the currency              *)
(* (Currency.decimals), so quantize_money is the rounding of a fraction to *)
(* an integer.  One currency is modelled: a UserBalance row, a deal, a     *)
(* deposit and a withdrawal each belong to exactly one currency and no     *)
(* handler moves money between two.                                        *)
(***************************************************************************)
EXTENDS Integers

(* num/den rounded to an integer, ties to even: quantize_money with        *)
(* MONEY_ROUNDING = ROUND_HALF_EVEN.                                       *)
RoundHalfEven(num, den) ==
  LET quot == num \div den
      rest == num % den
  IN  IF \/ 2 * rest > den
         \/ 2 * rest = den /\ quot % 2 = 1
      THEN quot + 1
      ELSE quot

(* The part of amt that percent stands for: the commission of a deal and   *)
(* the buyer's share of a split.                                           *)
PercentOf(amt, percent) == RoundHalfEven(amt * percent, 100)

(* max(Decimal(0), x): every decrement of UserBalance.locked is clamped.   *)
AtLeastZero(x) == IF x < 0 THEN 0 ELSE x

(* f[1] + ... + f[n].  A recursive function rather than a RECURSIVE        *)
(* operator, so that MoneyTheorems can prove facts about it.               *)
Total(f, n) ==
  LET partial[k \in 0..n] == IF k = 0 THEN 0 ELSE partial[k-1] + f[k]
  IN  partial[n]
=============================================================================
