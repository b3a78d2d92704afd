--------------------------- MODULE EcuTaskSchedule ---------------------------
(***************************************************************************)
(* The cyclic tasks of a simulated ECU: _task_run_summary of               *)
(* ecus/service.py computes which executions fall into an advance of the   *)
(* logical clock; no step runs once per execution.                         *)
(***************************************************************************)
EXTENDS Integers

CONSTANTS
    MaxPeriod,    \* bound on the period of a task
    None          \* absence of an execution, fault, command or request

ASSUME ScheduleAssumption == MaxPeriod \in Nat \ {0}

\* EcuCyclicTask: the offset is smaller than the period.
Tasks == {t \in [period : 1 .. MaxPeriod, offset : 0 .. MaxPeriod - 1] : t.offset < t.period}

FirstSchedule(t) == IF t.offset > 0 THEN t.offset ELSE t.period

ExecutionsAtOrBefore(t, at) ==
    IF at < FirstSchedule(t) THEN 0
    ELSE (at - FirstSchedule(t)) \div t.period + 1

TaskRunSummary(t, start, end) ==
    LET previous == ExecutionsAtOrBefore(t, start)
        total == ExecutionsAtOrBefore(t, end)
    IN  [count |-> total - previous,
         first |-> IF total = previous THEN None ELSE FirstSchedule(t) + previous * t.period,
         last |-> IF total = previous THEN None ELSE FirstSchedule(t) + (total - 1) * t.period]
=============================================================================
