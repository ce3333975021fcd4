----------------------------- MODULE JobPromise -----------------------------
(***************************************************************************)
(* What the queue promises its callers (packages/queue/src/job-queue.ts,   *)
(* ADR-058), whatever the processes behind it do: a request stays owed     *)
(* until a handler that could see it has finished, or its job is dead; a   *)
(* dead job waits for an admin, who retries it or gives it up.             *)
(***************************************************************************)
CONSTANT Requests

VARIABLE fate

Fates == {"unasked", "owed", "dead", "done", "given"}

TypeOK == fate \in [Requests -> Fates]

Init == fate = [r \in Requests |-> "unasked"]

\* One step may move several requests: one job may stand for all of them.
Moves(from, to) ==
    \E R \in SUBSET Requests :
       /\ R # {}
       /\ \A r \in R : fate[r] \in from
       /\ fate' = [r \in Requests |-> IF r \in R THEN to ELSE fate[r]]

Ask == Moves({"unasked"}, "owed")
\* The run of another job may serve one given up on.
Finish == Moves({"owed", "dead", "given"}, "done")
Die == Moves({"owed"}, "dead")
Retry == Moves({"dead"}, "owed")
GiveUp == Moves({"owed", "dead"}, "given")

Next == Ask \/ Finish \/ Die \/ Retry \/ GiveUp

Spec == Init /\ [][Next]_fate

=============================================================================
