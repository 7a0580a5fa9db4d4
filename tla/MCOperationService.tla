------------------------- MODULE MCOperationService -------------------------
(***************************************************************************)
(* The operation service with one session, for its deliveries and its      *)
(* progress.                                                               *)
(***************************************************************************)
EXTENDS OperationService

CONSTANTS s1, q1, q2

CallerOf == [r \in Requests |-> s1]
ServiceBudget(callers, progresses, throws, records, calls) ==
    [callers |-> callers, progress |-> progresses, failures |-> throws,
     published |-> records, removals |-> calls]
ServiceBudgetChoices ==
    {ServiceBudget({q1}, 1, 1, 0, 2), ServiceBudget({q1}, 0, 1, 1, 0),
     ServiceBudget({q1}, 0, 0, 1, 1), ServiceBudget({q1, q2}, 0, 0, 0, 0)}

=============================================================================
