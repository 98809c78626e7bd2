----------------------------- MODULE MCCalendar -----------------------------
(* A small instance of Calendar for TLC. *)
EXTENDS Calendar

Date(y, m, d) == [y |-> y, m |-> m, d |-> d]

(* The ends of the months before short ones, with and without a leap year, *)
(* the turn of a year, and a century that is no leap year.                 *)
MCStarts ==
  {Date(2023, 12, 28), Date(2023, 12, 31), Date(2024, 1, 30), Date(2025, 1, 29),
   Date(2100, 1, 31)}

MCEnds == {Null, Date(2024, 2, 29), Date(2025, 3, 1)}
=============================================================================
