----------------------------- MODULE TimeUtils ------------------------------
(***************************************************************************)
(* The calendar arithmetic of utils/src/time_utils.c, in ints of their     *)
(* width, and the test for the end of a blocking call in                   *)
(* modules/src/http_client.c.  A broken-down time is a record of numbers;  *)
(* a printed time is the record of the numbers printed.                    *)
(***************************************************************************)
EXTENDS Integers, FiniteSetsExt, FiniteSets

CONSTANTS
  IntMax,      \* the largest int
  ClockMax,    \* the largest int again, for the milliseconds of the clock:
               \* a small one lets TLC count past it
  ClockRange   \* 2^64, the number of values of a uint64_t

ASSUME WidthAssumption ==
    /\ IntMax \in Nat /\ ClockMax \in Nat
    /\ ClockRange \in Nat /\ ClockRange > 4 * (ClockMax + 1)

-----------------------------------------------------------------------------
(* The Gregorian calendar.                                                 *)
IsLeap(year) == (year % 4 = 0 /\ year % 100 # 0) \/ year % 400 = 0
MonthLength(year, month) ==
    IF month = 2 THEN IF IsLeap(year) THEN 29 ELSE 28
    ELSE IF month \in {4, 6, 9, 11} THEN 30 ELSE 31

(* The days from 1970-01-01 to a date, counted one year and one month      *)
(* after the other.                                                        *)
YearStart(year) ==
    365 * (year - 1970) + Cardinality({y \in 1970..(year - 1) : IsLeap(y)})
                        - Cardinality({y \in year..1969 : IsLeap(y)})
DayNumber(year, month, day) ==
    YearStart(year) + MapThenSumSet(LAMBDA m : MonthLength(year, m), 1..(month - 1)) + day - 1

(* The second a broken-down time stands for.                               *)
Second(tm) == 86400 * DayNumber(tm.year, tm.mon + 1, tm.mday)
                + 3600 * tm.hour + 60 * tm.min + tm.sec

(* gmtime, for the years the calls below meet.                             *)
gmtime(t) ==
    LET day   == t \div 86400
        year  == Max({y \in 1970..(1970 + day \div 365) : YearStart(y) <= day})
        month == Max({m \in 1..12 : DayNumber(year, m, 1) <= day})
    IN  [year |-> year, mon |-> month - 1, mday |-> day - DayNumber(year, month, 1) + 1,
         hour |-> (t % 86400) \div 3600, min |-> (t % 3600) \div 60, sec |-> t % 60]

-----------------------------------------------------------------------------
(* timegm                                                                  *)

Undefined == [rc |-> "undefined"]
Epoch(t)  == [rc |-> "ok", t |-> t]
MinusOne  == [rc |-> "error"]

(* The division of C rounds towards zero.                                  *)
CDiv(a, b) == IF a >= 0 THEN a \div b ELSE -((-a) \div b)

days_in_month == <<31, 28, 31, 30, 31, 30, 31, 31, 30, 31, 30, 31>>

(* Mutant: the day of a leap year is added a year late.                    *)
LeapDayLate(year) == (year - 1970) * 365 + CDiv(year - 1970, 4)

DaysBefore(year) ==
    (year - 1970) * 365 + CDiv(year - 1969, 4) - CDiv(year - 1901, 100) + CDiv(year - 1601, 400)

(* A month after the twelfth is read from beyond the table; a second that  *)
(* does not fit an int overflows.                                          *)
timegm(tm) ==
    LET days    == DaysBefore(tm.year)
                     + MapThenSumSet(LAMBDA i : days_in_month[i + 1], 0..(tm.mon - 1))
                     + (IF tm.mon > 1 /\ IsLeap(tm.year) THEN 1 ELSE 0)
                     + tm.mday - 1
        minutes == (days * 24 + tm.hour) * 60 + tm.min
    IN  IF \/ tm.mon > 12
           \/ minutes > (IntMax - tm.sec) \div 60 \/ -minutes > IntMax \div 60
        THEN Undefined
        ELSE Epoch(minutes * 60 + tm.sec)

-----------------------------------------------------------------------------
(* Reading and printing.  dir, utc_hour and utc_min are what is printed    *)
(* after the time: the direction of the offset, its hours and its minutes. *)

(* parse_iso_full_datetime_string_to_epoch: %02d reads two characters, so  *)
(* a negative number of two digits does not go through.  The minutes of    *)
(* the offset are read and not used.                                       *)
ParseFull(s) ==
    IF s.utc_hour < -9 \/ s.dir \notin {"+", "-"} THEN MinusOne
    ELSE timegm([s.tm EXCEPT !.hour = IF s.dir = "+" THEN @ - s.utc_hour ELSE @ + s.utc_hour])

(* parse_epoch_to_iso_full_datetime_string prints the time in UTC and puts *)
(* the offset after it, with the sign of a negative one twice.             *)
PrintFull(t, offset) ==
    IF offset \notin -12..12 THEN MinusOne
    ELSE [rc |-> "ok", tm |-> gmtime(t), dir |-> IF offset < 0 THEN "-" ELSE "+",
          utc_hour |-> offset, utc_min |-> 0]

(* parse_iso_datetime_string_to_epoch and                                  *)
(* parse_epoch_to_iso_datetime_string have no seconds,                     *)
(* parse_epoch_to_iso_short_datetime_string and epoch_to_utc_date_string   *)
(* print the date only.                                                    *)
ParseIso(tm)  == timegm([tm EXCEPT !.sec = 0])
PrintIso(t)   == [gmtime(t) EXCEPT !.sec = 0]
PrintShort(t) == [gmtime(t) EXCEPT !.hour = 0, !.min = 0, !.sec = 0]

(* epoch_now_day and epoch_now_day_utc, epoch_now_hour, epoch_now_min.     *)
epoch_now_day(now)  == timegm([gmtime(now) EXCEPT !.hour = 0, !.min = 0, !.sec = 0])
epoch_now_hour(now) == timegm([gmtime(now) EXCEPT !.min = 0, !.sec = 0])
epoch_now_min(now)  == timegm([gmtime(now) EXCEPT !.sec = 0])

-----------------------------------------------------------------------------
(* (int)now                                                                *)
AsInt(now) ==
    LET low == now % (2 * (ClockMax + 1))
    IN  IF low > ClockMax THEN low - 2 * (ClockMax + 1) ELSE low

(* Mutant: the time of the call is compared with the clock itself.         *)
LateByClock(now, start, timeout) == timeout > 0 /\ now > timeout

(* The test at the head of the loop of http_blocking_work: the difference  *)
(* is one of uint64_t.                                                     *)
Expired(now, start, timeout) ==
    timeout > 0 /\ (AsInt(now) - start) % ClockRange > timeout
=============================================================================
