-------------------------- MODULE MCAnalyticsReport --------------------------
(***************************************************************************)
(* AnalyticsReport for TLC: a link with clicks on two dates.  Today is 20, *)
(* and a period of more than 3 days is too long.                           *)
(***************************************************************************)
EXTENDS AnalyticsReport, TLC

CONSTANTS m1, m2, m3, yesterday, today

OneOfToday == [m \in Clicks |-> IF m = m3 THEN today ELSE yesterday]
OneLink    == [k \in StatKeys |-> "l"]
TwoDates   == [k \in StatKeys |-> IF k = today THEN 20 ELSE 19]

\* The default, a period that is too long, one that ends yesterday, and one
\* that ends tomorrow.
SomePeriods == {[from |-> Unset, to |-> Unset], [from |-> 10, to |-> Unset],
                [from |-> 17, to |-> 19], [from |-> 18, to |-> 21]}
=============================================================================
