---------------------------- MODULE MCCronService ----------------------------
(* Instances of CronService for TLC: a loss-sensitive batch job that fires in *)
(* minutes 1 and 2 and a coalescing maintenance job that shares the single    *)
(* heavy slot with it, starts a minute late and declares no timeout.          *)
EXTENDS CronService

CONSTANTS a, b

MCJobs == {a, b}
MCCoalescing == {b}
MCLane == [j \in MCJobs |-> IF j = a THEN "batch" ELSE "maintenance"]
MCDue == [j \in MCJobs |-> IF j = a THEN {1, 2} ELSE {2}]
MCDelay == [j \in MCJobs |-> IF j = a THEN 0 ELSE 1]
MCTimeout == [j \in MCJobs |-> IF j = a THEN 1 ELSE 0]
MCRetryDelay == [n \in 1 .. MaxAttempts |-> n]
MCMaxDef == [j \in MCJobs |-> IF j = a THEN 2 ELSE 1]

\* One loss-sensitive job is enough for the two runs that expect a violation.
OneJob == {a}
NoJob == {}
OneLane == [j \in OneJob |-> "light"]
OneDue == [j \in OneJob |-> {1}]
TwoDue == [j \in OneJob |-> {1, 2}]
NoDelay == [j \in OneJob |-> 0]
OneEach == [j \in OneJob |-> 1]
==============================================================================
