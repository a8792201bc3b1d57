------------------------------ MODULE Calendar ------------------------------
(***************************************************************************)
(* The calendar of the TLS resolver (src/src/tls_reload.rs): the number of *)
(* the day of a date, counted from 1970-01-01.                             *)
(***************************************************************************)
EXTENDS Integers

(* Mutated is_leap_year: no centuries. *)
is_leap_yearJulian(year) == year % 4 = 0

is_leap_year(year) == year % 4 = 0 /\ (year % 100 /= 0 \/ year % 400 = 0)

days_in_month(year, month) ==
  CASE month = 2 -> IF is_leap_year(year) THEN 29 ELSE 28
    [] month \in {4, 6, 9, 11} -> 30
    [] OTHER -> 31

(* Rust's division, towards zero. *)
Quotient(a, b) == IF a >= 0 THEN a \div b ELSE -((-a) \div b)

days_from_civil(year, month, day) ==
  LET adjusted_year == IF month <= 2 THEN year - 1 ELSE year
      era == Quotient(IF adjusted_year >= 0 THEN adjusted_year ELSE adjusted_year - 399, 400)
      year_of_era == adjusted_year - era * 400
      month_of_year == IF month > 2 THEN month - 3 ELSE month + 9
      day_of_year == (153 * month_of_year + 2) \div 5 + day - 1
  IN era * 146097 + year_of_era * 365 + year_of_era \div 4 - year_of_era \div 100
       + day_of_year - 719468

-----------------------------------------------------------------------------
(* The reference: how the days follow each other. *)
YearDays(y) == IF is_leap_year(y) THEN 366 ELSE 365
SampleYears == {0, 1, 4, 100, 400, 1900, 1950, 1970, 1999, 2000, 2001, 2024, 2049, 2100, 9999}

(* Day 0 is 1970-01-01, every year begins a year's days after the last one *)
(* did, and every day of a year follows the day before it.                 *)
CalendarCounts ==
  /\ days_from_civil(1970, 1, 1) = 0
  /\ \A y \in 0..9998 : days_from_civil(y + 1, 1, 1) = days_from_civil(y, 1, 1) + YearDays(y)
  /\ \A y \in SampleYears, m \in 1..12 :
       /\ \A d \in 2..days_in_month(y, m) :
            days_from_civil(y, m, d) = days_from_civil(y, m, d - 1) + 1
       /\ m > 1 => days_from_civil(y, m, 1) =
                     days_from_civil(y, m - 1, days_in_month(y, m - 1)) + 1
=============================================================================
