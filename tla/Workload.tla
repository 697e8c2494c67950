----------------------------- MODULE Workload -----------------------------
(* The traffic generator and the reconciliation runs it triggers. The     *)
(* trigger is answered when the run has ended; the generator waits for no *)
(* longer than for any other call, so that the runs may overlap.          *)
EXTENDS Traffic, Batch

VARIABLE awaited  \* the run of the trigger under way, as a set of at most one

vars == <<trafficVars, batchVars, awaited>>

TypeOK ==
  /\ TrafficTypeOK /\ BatchTypeOK
  /\ awaited \subseteq Runs /\ Cardinality(awaited) <= 1

Init == TrafficInit /\ BatchInit /\ awaited = {}

Triggering == stage = "calling" /\ Head(todo).kind = "batch job"

\* POST /jobs/reconciliation arrives. Runs bounds how often one is made.
Trigger(r) ==
  /\ mix = "batch" /\ Triggering /\ awaited = {}
  /\ Launch(r) \/ RefuseLaunch(r)
  /\ awaited' = {r}
  /\ UNCHANGED trafficVars

\* An answer to a trigger needs the end of its run.
Answer ==
  /\ Triggering => \E r \in awaited : run[r] \in Ended
  /\ AccountCreated \/ PaymentInitiated \/ Answered
  /\ awaited' = {}
  /\ UNCHANGED batchVars

NoAnswer ==
  /\ CallFails \/ GiveUpWaiting \/ Stop
  /\ awaited' = {}
  /\ UNCHANGED batchVars

Generator ==
  /\ Proceed \/ TokenIssued \/ TokenRefused \/ AccountRestart \/ Tick
  /\ UNCHANGED <<batchVars, awaited>>

BatchStep(r) ==
  /\ RunStep(r)
  /\ UNCHANGED <<trafficVars, awaited>>

Rest ==
  /\ stage = "done" /\ In(Active) = {}
  /\ UNCHANGED vars

Next ==
  \/ \E r \in Runs : Trigger(r) \/ BatchStep(r)
  \/ Answer \/ NoAnswer \/ Generator
  \/ Rest

\* Time passes, the generator's one thread goes on, services answer all but
\* MaxLosses calls in time, and each run has a thread of its own.
Fairness ==
  /\ WF_vars(Tick /\ UNCHANGED <<batchVars, awaited>>)
  /\ WF_vars((Proceed \/ TokenIssued) /\ UNCHANGED <<batchVars, awaited>>)
  /\ WF_vars(Answer)
  /\ WF_vars(GiveUpWaiting /\ awaited' = {} /\ UNCHANGED batchVars)
  /\ \A r \in Runs : WF_vars(BatchStep(r))

Spec     == Init /\ [][Next]_vars
FairSpec == Spec /\ Fairness

---------------------------------------------------------------------------
(* Properties                                                             *)

\* "Return a valid JWT ..., refreshing if within 60 s of expiry": while a call
\* may still be on its way to the gateway, the token it carries is valid, though
\* the generator counts its life from too late a moment.
TokenOutlivesCall ==
  stage = "calling" /\ bearer => left[Head(todo).user] > 0

\* "Clears any previously cached IDs first so stale accounts are dropped rather
\* than accumulated forever": the pool holds an account that account-service does
\* not know only if it has restarted since the last seeding began.
StaleOnlyAfterRestart == pool \subseteq known \/ restarted

\* "Reseeding periodically keeps the account pool valid across account-service
\* restarts": again and again there is a pool, and all of it is known.
PoolRecovers ==
  []<>(stage = "done" \/ (pool # {} /\ pool \subseteq known))

\* A run that completes has written every row its query returns, whatever came
\* before it and whoever closed its reader, unless another cursor was opened on the
\* shared reader while a run was reading. (The job's comment promises more: "Reads
\* all settled transactions". Its query leaves out those settled before yesterday
\* and, with RECONCILIATION_SCENARIO_ENABLED, those in JPY.)
CompletedReadsAll ==
  \A r \in Runs : run[r] = "completed" /\ r \notin sharing => written[r] = Rows

\* A run fails for its own database's or for an overlapping run's sake: failed
\* and overlapping runs leave nothing behind in the reader for later ones.
FailedForCause ==
  \A r \in Runs : run[r] = "failed" => r \in overlapped \cup broken

\* Each run ends, the overlapping ones too.
EveryRunEnds ==
  \A r \in Runs : (run[r] \in Active) ~> (run[r] \in Ended)
===========================================================================
