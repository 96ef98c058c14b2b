---------------------------- MODULE SeasonalTheme ----------------------------
(***************************************************************************)
(* The calendar of the galaxy (SeasonalThemeResolver): which theme is worn *)
(* on which day in which region, and what the operator's choices make of   *)
(* it.  A date is its ordinal, as in datetime.date; the state is the year  *)
(* the server's clock reads and the region the operator chose.             *)
(***************************************************************************)
EXTENDS Integers, FiniteSets

CONSTANTS
    FirstYear, LastYear,    \* bound: the years the calendar is followed through
    Region                  \* the regions the operator may choose

\* The members of CanadianRegion; those in which the third Monday of February is kept.
CanadianRegion == {"ca-qc", "ca-on", "ca-ab", "ca-bc", "ca-sk", "ca-nb", "ca-other"}
FamilyDayRegions == {"ca-on", "ca-ab", "ca-bc", "ca-sk", "ca-nb"}
GalaxyTheme ==
    {"default", "halloween", "easter", "christmas", "remembrance-day", "canada-day",
     "fete-nationale", "thanksgiving", "new-year", "family-day"}

ASSUME CalendarAssumption ==
    /\ FirstYear \in Nat \ {0} /\ LastYear \in Nat
    /\ Region \subseteq CanadianRegion

VARIABLES year, region

calendarVars == <<year, region>>
------------------------------------------------------------------------------
\* datetime.date: the proleptic Gregorian calendar, 1 January of year 1 being day 1.
Leap(y) == y % 4 = 0 /\ (y % 100 = 0 => y % 400 = 0)
MonthDays(y) == <<31, IF Leap(y) THEN 29 ELSE 28, 31, 30, 31, 30, 31, 31, 30, 31, 30, 31>>
Before == <<0, 31, 59, 90, 120, 151, 181, 212, 243, 273, 304, 334>>
Date(y, m, d) ==
    LET past == y - 1 IN
    365 * past + past \div 4 - past \div 100 + past \div 400
        + Before[m] + (IF m > 2 /\ Leap(y) THEN 1 ELSE 0) + d
Weekday(date) == (date + 6) % 7      \* Monday is 0

\* Mutant: the offset is taken backwards.
nth_weekday_back(y, m, weekday, occurrence) ==
    Date(y, m, 1) + ((Weekday(Date(y, m, 1)) - weekday) % 7) + (occurrence - 1) * 7

nth_weekday(y, m, weekday, occurrence) ==
    Date(y, m, 1) + ((weekday - Weekday(Date(y, m, 1))) % 7) + (occurrence - 1) * 7

easter_sunday(y) ==
    LET a == y % 19
        b == y \div 100
        c == y % 100
        g == (b - (b + 8) \div 25 + 1) \div 3
        h == (19 * a + b - b \div 4 - g + 15) % 30
        offset == (32 + 2 * (b % 4) + 2 * (c \div 4) - h - (c % 4)) % 7
        m == (a + 11 * h + 22 * offset) \div 451
        n == h + offset - 7 * m + 114
    IN Date(y, n \div 31, (n % 31) + 1)

\* The theme of the day d of month m.
resolve(y, m, d, r) ==
    LET day == Date(y, m, d)
        thanksgiving == nth_weekday(y, 10, 0, 2)
        familyDay == nth_weekday(y, 2, 0, 3)
        easter == easter_sunday(y)
    IN
    IF <<m, d>> \in {<<12, 31>>, <<1, 1>>} THEN "new-year"
    ELSE IF (m = 12 /\ d \in 20..30) \/ (m = 1 /\ d \in 2..6) THEN "christmas"
    ELSE IF <<m, d>> = <<11, 11>> THEN "remembrance-day"
    ELSE IF (m = 10 /\ d >= 25) \/ (m = 11 /\ d <= 1) THEN "halloween"
    ELSE IF day \in (thanksgiving - 2)..thanksgiving THEN "thanksgiving"
    ELSE IF <<m, d>> = <<6, 30>> \/ (m = 7 /\ d <= 2) THEN "canada-day"
    ELSE IF r = "ca-qc" /\ m = 6 /\ d \in {23, 24} THEN "fete-nationale"
    ELSE IF r \in FamilyDayRegions /\ day \in (familyDay - 2)..familyDay THEN "family-day"
    ELSE IF day \in (easter - 2)..(easter + 1) THEN "easter"
    ELSE "default"

\* The themes that are kept of a request: the default cannot be disabled.
Enabled(themes) == themes \cup {"default"}

\* effective(): auto is the calendar's candidate, manual the operator's.
Effective(candidate, themes) == IF candidate \in Enabled(themes) THEN candidate ELSE "default"

CalendarInit == year = FirstYear /\ region \in Region

\* The clock runs on into the next year; the operator moves the galaxy.
NewYear ==
    /\ year < LastYear
    /\ year' = year + 1
    /\ UNCHANGED region
SetRegion(r) == region' = r /\ UNCHANGED year

CalendarNext == NewYear \/ \E r \in Region : SetRegion(r)

CalendarSpec == CalendarInit /\ [][CalendarNext]_calendarVars
------------------------------------------------------------------------------
\* The rule of the church: Easter is the first Sunday after the full moon that the
\* golden number and the epact give, which is on 21 March or later.
PaschalMoon(y) ==
    LET golden == (y % 19) + 1
        century == y \div 100 + 1
        sun == (3 * century) \div 4 - 12
        moon == (8 * century + 5) \div 25 - 5
        epact == (11 * golden + 20 + moon - sun) % 30
        corrected == IF epact = 24 \/ (epact = 25 /\ golden > 11) THEN epact + 1 ELSE epact
    IN Date(y, 3, 1) + (IF corrected <= 23 THEN 43 ELSE 73) - corrected
Easter(y) == CHOOSE n \in (PaschalMoon(y) + 1)..(PaschalMoon(y) + 7) : Weekday(n) = 6

\* The month's occurrence-th Monday, counted.
MondayOf(y, m, occurrence) ==
    CHOOSE n \in Date(y, m, 1)..Date(y, m, 28) :
        Weekday(n) = 0 /\ Cardinality({k \in Date(y, m, 1)..n : Weekday(k) = 0}) = occurrence

\* The holidays and what is worn on them.
Holidays(y, r) ==
    {<<Date(y, 1, 1), "new-year">>, <<Date(y, 12, 31), "new-year">>,
     <<Date(y, 12, 25), "christmas">>, <<Date(y, 11, 11), "remembrance-day">>,
     <<Date(y, 10, 31), "halloween">>, <<MondayOf(y, 10, 2), "thanksgiving">>,
     <<Date(y, 7, 1), "canada-day">>}
    \cup {<<n, "easter">> : n \in (Easter(y) - 2)..(Easter(y) + 1)}
    \cup (IF r = "ca-qc" THEN {<<Date(y, 6, 24), "fete-nationale">>} ELSE {})
    \cup (IF r \in FamilyDayRegions THEN {<<MondayOf(y, 2, 3), "family-day">>} ELSE {})

Month(y, n) == CHOOSE m \in 1..12 : n \in Date(y, m, 1)..(Date(y, m, 1) + MonthDays(y)[m] - 1)

\* Every holiday the region keeps is worn on its own day, whatever else falls there;
\* a season is one run of days, broken by nothing and worn nowhere it is not kept; a
\* disabled theme is worn never.
SeasonIsRight ==
    LET theme(n) ==
            LET m == Month(year, n) IN resolve(year, m, n - Date(year, m, 1) + 1, region)
        worn == {<<n, theme(n)>> : n \in Date(year, 1, 1)..Date(year, 12, 31)}
        season(t) == {p[1] : p \in {q \in worn : q[2] = t}}
        kept == Holidays(year, region)
    IN
    /\ kept \subseteq worn
    /\ \A t \in GalaxyTheme \ {"default", "christmas", "new-year"} :
          /\ season(t) # {} => \E h \in kept : h[2] = t
          /\ \A n, k \in season(t) : n..k \subseteq season(t)
    /\ \A t, candidate \in GalaxyTheme :
          /\ Effective(candidate, GalaxyTheme \ {t}) \in (GalaxyTheme \ {t}) \cup {"default"}
          /\ candidate # t => Effective(candidate, GalaxyTheme \ {t}) = candidate
==============================================================================
