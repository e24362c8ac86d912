--------------------------- MODULE AnalyticsReport ---------------------------
(***************************************************************************)
(* GET /links/{id}/analytics beside the workers of ClickPipeline: the      *)
(* period is taken from the query, then the summary and the daily rows are *)
(* read by two statements, between which the workers go on.                *)
(*                                                                         *)
(* Dates are numbered; the time of day that "now" carries is dropped by    *)
(* the comparison with a DATE column.  Of a daily row only total_clicks is *)
(* kept, as in ClickPipeline, and of the daily rows their sum.             *)
(***************************************************************************)
EXTENDS ClickPipeline, FiniteSetsExt

CONSTANTS
    LinkOfKey,      \* the link of a key
    DateOfKey,      \* its date
    Queries,        \* the periods asked for
    Unset,          \* a date the query does not give
    Today,
    DefaultDays,    \* the default period reaches back so many days
    MaxRange        \* the longest period, in days

ASSUME ReportAssumption ==
    /\ IsFiniteSet(StatKeys)
    /\ DateOfKey \in [StatKeys -> Int]
    /\ Unset \notin Int
    /\ Queries \subseteq [from : Int \cup {Unset}, to : Int \cup {Unset}]
    /\ Today \in Int
    /\ DefaultDays \in Nat
    /\ MaxRange \in Nat

VARIABLE report     \* the report being made

reportVars == <<vars, report>>
-----------------------------------------------------------------------------
NoReport == [step |-> "none"]

\* The dates of a query, with the defaults filled in.
Asked(q) == [from |-> IF q.from = Unset THEN Today - DefaultDays ELSE q.from,
             to   |-> IF q.to = Unset THEN Today ELSE q.to]

\* A mutant, used to test the properties: a period that is too long is cut at
\* its end.
ParseTimeRangeCutEnd(q) ==
    LET a == Asked(q)
        to == IF a.to - a.from > MaxRange THEN a.from + MaxRange ELSE a.to
    IN  [from |-> a.from, to |-> IF to > Today THEN Today ELSE to]

\* The cap comes first, counted from the end that was asked for, and then the
\* end is moved back to now.
ParseTimeRange(q) ==
    LET a == Asked(q)
    IN  [from |-> IF a.to - a.from > MaxRange THEN a.to - MaxRange ELSE a.from,
         to   |-> IF a.to > Today THEN Today ELSE a.to]

\* WHERE link_id = $1 AND date >= $2 AND date <= $3.
InPeriod(k, l, p) ==
    LinkOfKey[k] = l /\ DateOfKey[k] >= p.from /\ DateOfKey[k] <= p.to

\* SUM(total_clicks) of a table, and the sum over the rows themselves.
SumIn(rows, l, p) ==
    MapThenSumSet(LAMBDA k : rows[k], {k \in StatKeys : InPeriod(k, l, p)})

SumOfRows(l, p) == SumIn(stats, l, p)

\* The clicks of S in the period.
ClicksIn(S, l, p) == Cardinality({m \in S : InPeriod(KeyOf[m], l, p)})

ReportInit == Init /\ report = NoReport

\* Beside the answer, what had been acknowledged when the report was begun.
GetAnalyticsSummary(l, q) ==
    LET p == ParseTimeRange(q)
    IN  /\ report = NoReport
        /\ report' = [step |-> "summary", link |-> l, query |-> q, period |-> p,
                      total |-> SumOfRows(l, p),
                      done |-> ClicksIn(acked \ Poison, l, p)]

\* The response is built from both.
GetDailyStats ==
    /\ report.step = "summary"
    /\ report' = [step |-> "built", link |-> report.link, query |-> report.query,
                  period |-> report.period, total |-> report.total,
                  done |-> report.done,
                  daily |-> SumOfRows(report.link, report.period)]

\* The response has been written; or the second statement has failed.
EndReport == report # NoReport /\ report' = NoReport

Report ==
    \/ \E k \in StatKeys, q \in Queries : GetAnalyticsSummary(LinkOfKey[k], q)
    \/ GetDailyStats
    \/ EndReport

ReportNext ==
    \/ Next /\ UNCHANGED report
    \/ Report /\ UNCHANGED vars

ReportSpec == ReportInit /\ [][ReportNext]_reportVars
-----------------------------------------------------------------------------
(* Properties. *)

\* The period is at most MaxRange long and ends today at the latest; and of a
\* period that ends in the past the last MaxRange days are all there.
PeriodHonoured ==
    report # NoReport =>
        LET p == report.period
            a == Asked(report.query)
        IN  /\ p.to <= Today
            /\ p.to - p.from <= MaxRange
            /\ a.to <= Today => \A d \in a.from .. a.to :
                   d >= a.to - MaxRange => d >= p.from /\ d <= p.to

\* A click that had been acknowledged when the report was begun is in its
\* summary: the statistics are written before XACK, and no retry or failure
\* writes an older count over them.  The second statement may see a later
\* moment: the summary never counts a click that the daily rows of the same
\* response lack, and neither counts more than the rows of click_events.  With
\* one worker.
ReportAgrees ==
    /\ report # NoReport => report.done <= report.total
    /\ report.step = "built" =>
        /\ report.total <= report.daily
        /\ report.daily <= ClicksIn(stored, report.link, report.period)
-----------------------------------------------------------------------------
(* Inductive invariants, for the proofs. *)

\* The period of a report is what parseTimeRange made of its query.
AskedInv ==
    report # NoReport =>
        /\ report.query \in Queries
        /\ report.period = ParseTimeRange(report.query)

\* One worker: what a summary has counted stays counted until the daily rows
\* are read.
SummaryInv ==
    /\ report # NoReport => report.total \in Nat /\ report.done \in Nat
    /\ ReportAgrees
    /\ report.step = "summary" => report.total <= SumOfRows(report.link, report.period)
    /\ report.step = "built" => report.daily \in Nat
=============================================================================
