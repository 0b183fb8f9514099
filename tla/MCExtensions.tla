--------------------------- MODULE MCExtensions ---------------------------
(***************************************************************************)
(* The models of the extension modules in one state space: part says which *)
(* of them moves, the variables of the others stay as they are: those of   *)
(* Curl and Sqlite as they start, the rest Off.                            *)
(***************************************************************************)
EXTENDS Curl, Sqlite, TLC

CONSTANT Off

VARIABLES
    part,
    n, date, weekday, ordinal, back,
    dt, threw, torn

curlVars == vars
dayVars == <<n, date, weekday, ordinal, back>>
dateVars == <<dt, threw, torn>>

\* The objects and the functions of Curl are interchangeable
Symmetry == Permutations(Objs) \cup Permutations(Vals)

\* A century each side of the year 1, four from 1601 on, the first years of the Julian calendar
Days == INSTANCE CalendarDays WITH
    GregorianSpan <- 40200, ModernSpan <- 147000, JulianSpan <- 3000

\* Dates around the epoch of COM dates, the thirtieth of December of 1899, and
\* around the leap day that 1900 has in the Julian calendar only
ComEpochDay == 693594
Dates == INSTANCE DateTime WITH
    Years <- {0, 1900}, Months <- {-1, 0, 2}, MonthDays <- {-1, 0, 29},
    Hours <- {0, 23, 24}, Minutes <- {59}, Seconds <- {0, 60},
    AbsDates <- {ComEpochDay - 1, ComEpochDay}, AbsTimes <- {0, 43200, 86400, 86401},
    ComDates <- { [int |-> 0, frac |-> -43200], [int |-> 0, frac |-> 43200],
                  [int |-> -1, frac |-> -43200], [int |-> 61, frac |-> 0],
                  [int |-> 1, frac |-> 7200] },
    DayOffsets <- {-1, 0, 1}, TimeOffsets <- {-259200, -216000, -86400, 43200, 216000},
    FirstDate <- ComEpochDay - 2, LastDate <- ComEpochDay + 2

ASSUME
    /\ Days!SpanAssumption
    /\ Dates!DateTimeAssumption /\ Dates!ComEpoch = ComEpochDay

-----------------------------------------------------------------------------
DaysOff == n = Off /\ date = Off /\ weekday = Off /\ ordinal = Off /\ back = Off
DatesOff == dt = Off /\ threw = Off /\ torn = Off

MCInit ==
    /\ Init /\ SqliteInit
    /\ \/ part \in {"curl", "sqlite"} /\ DaysOff /\ DatesOff
       \/ part = "days" /\ Days!Init /\ DatesOff
       \/ part = "dates" /\ Dates!Init /\ DaysOff

MCNext ==
    /\ UNCHANGED part
    /\ \/ part = "curl" /\ Next /\ UNCHANGED <<sqliteVars, dayVars, dateVars>>
       \/ part = "sqlite" /\ SqliteNext /\ UNCHANGED <<curlVars, dayVars, dateVars>>
       \/ part = "days" /\ Days!Next /\ UNCHANGED <<curlVars, sqliteVars, dateVars>>
       \/ part = "dates" /\ Dates!Next /\ UNCHANGED <<curlVars, sqliteVars, dayVars>>

MCSpec == MCInit /\ [][MCNext]_<<part, curlVars, sqliteVars, dayVars, dateVars>>

-----------------------------------------------------------------------------
\* Dates are found from numbers and back: see CalendarDays.CalendarExact
CalendarExact == part = "days" => Days!CalendarExact

\* The fields of a DateTime name one moment: see DateTime.MomentAgrees
MomentAgrees == part = "dates" => Dates!MomentAgrees
=============================================================================
