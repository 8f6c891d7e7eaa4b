------------------------------ MODULE StatsReport ------------------------------
(***************************************************************************)
(* What Proxy.Stats in src/pkg/proxy/proxy.go reads of the statistics      *)
(* while the sessions of SessionAdmission flush theirs.  It takes no lock  *)
(* that keeps them out: a flush may come between any two of its readings.  *)
(* The lock that GetOpStatsAll takes only keeps new entries out.           *)
(***************************************************************************)
EXTENDS SessionAdmission

VARIABLES
    stats,    \* where Proxy.Stats is: idle, calls, fails, shown
    report    \* what it has read: the total, the command's calls and fails

statsVars == <<stats, report>>
reportVars == <<vars, statsVars>>

NoReport == [total |-> 0, calls |-> 0, fails |-> 0]

ReportInit == Init /\ stats = "idle" /\ report = NoReport

-----------------------------------------------------------------------------
(* The total is read first.                                                *)
ReadTotal ==
    /\ stats = "idle" /\ stats' = "calls"
    /\ report' = [NoReport EXCEPT !.total = op.total]
    /\ UNCHANGED vars

(* GetOpStatsAll goes through opmap, which may still be empty.             *)
ReadCalls ==
    /\ stats = "calls"
    /\ IF opmap = 0
       THEN stats' = "shown" /\ UNCHANGED report
       ELSE /\ stats' = "fails"
            /\ report' = [report EXCEPT !.calls = entries[opmap].calls]
    /\ UNCHANGED vars

(* OpStats reads the failures of an entry after its calls.                 *)
ReadFails ==
    /\ stats = "fails" /\ stats' = "shown"
    /\ report' = [report EXCEPT !.fails = entries[opmap].fails]
    /\ UNCHANGED vars

Answered ==
    /\ stats = "shown" /\ stats' = "idle"
    /\ report' = NoReport
    /\ UNCHANGED vars

ReportNext ==
    \/ Next /\ UNCHANGED statsVars
    \/ ReadTotal \/ ReadCalls \/ ReadFails \/ Answered

ReportSpec == ReportInit /\ [][ReportNext]_reportVars

-----------------------------------------------------------------------------
(* Properties.                                                             *)

(* A report may show more commands ended than its own total, which it read *)
(* first; but only by what was received since: all that it shows as ended  *)
(* is in the total by the time it is complete, as each session flushes its *)
(* total before what ended of it (session.go 260-271, proxy.go 399-406).   *)
ReportedWereReceived ==
    stats = "shown" => report.calls + report.fails <= op.total

=============================================================================
