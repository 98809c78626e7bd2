------------------------------- MODULE Money -------------------------------
(***************************************************************************)
(* Amounts of money as the API, Go and PostgreSQL see them.                *)
(*                                                                         *)
(* The API takes an amount as a JSON number, the services compute with it  *)
(* as a float64, and the columns that hold it have two decimals: those of  *)
(* entries, balances and rules are NUMERIC(19, 2), those of goals          *)
(* NUMERIC(14, 2).  Nothing validates the number of decimals of an input,  *)
(* so a value may be finer than a cent until a column stores it.  An amount*)
(* is therefore an integer number of units, Scale units to the cent: Scale *)
(* = 1 when every amount is in whole cents, Scale = 10 when inputs may have*)
(* a third decimal.                                                        *)
(***************************************************************************)
EXTENDS Integers

CONSTANT Scale

ASSUME ScaleAssumption == Scale \in Nat \ {0}

(* The nearest multiple of Scale to n >= 0, a tie going up.                *)
RoundUp(n) == ((2 * n + Scale) \div (2 * Scale)) * Scale

(* What such a column stores for an amount: the nearest cent, a tie going  *)
(* away from zero.                                                         *)
Round(x) == IF x >= 0 THEN RoundUp(x) ELSE -RoundUp(-x)

(* The amounts, none of them negative, that such a column may hold.        *)
Cents == {n \in Nat : Round(n) = n}
=============================================================================
