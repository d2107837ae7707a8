-------------------------- MODULE WorkflowRegistry --------------------------
(***************************************************************************)
(* The two registries of the API process: JobRegistry (jobs.py) of every   *)
(* background job, and WorkflowRuns (workflows/runs.py) of the jobs that   *)
(* carry a run; and how they forget finished entries.  All of it runs on   *)
(* the event loop.  Jobs are numbered as they are submitted.               *)
(***************************************************************************)
EXTENDS Integers, Sequences, FiniteSets, Sublists

CONSTANTS
  MaxJobEntries,  \* JobRegistry's max_entries
  MaxRunEntries,  \* WorkflowRuns' max_runs
  MaxConcurrency, \* the semaphore's slots
  MaxSubmits      \* bound: jobs submitted

ASSUME WorkflowRegistryAssumption ==
  /\ MaxJobEntries \in Nat /\ MaxRunEntries \in Nat
  /\ MaxConcurrency \in Nat \ {0} /\ MaxSubmits \in Nat

VARIABLES
  jobEntries,  \* jobs JobRegistry knows
  runEntries,  \* jobs whose run WorkflowRuns knows
  carriesRun,  \* jobs submitted with a run
  jobStatus,   \* "queued", "running" or "ended" of each job submitted
  runDone,     \* runs that are done
  updated,     \* jobs by updated_at, the longest ago first
  mostJobs,    \* the most jobs unfinished at once (history)
  mostRuns     \* ... and the most runs

registryVars == <<jobEntries, runEntries, carriesRun, jobStatus, runDone, updated, mostJobs, mostRuns>>

Submitted == DOMAIN jobStatus
Touched(j) == Append(Sublist(updated, Submitted \ {j}), j)
Larger(x, y) == IF x > y THEN x ELSE y

-----------------------------------------------------------------------------
\* Mutant: unfinished entries count.
FinishedEntries_All(entries, over) == Sublist(updated, entries)

\* Which entries are finished, of those a full registry looks through.
FinishedEntries(entries, over) == Sublist(updated, entries \cap over)

\* A full registry forgets the older half of its finished entries, at least one.
Evicted(entries, over, max) ==
  LET finished == FinishedEntries(entries, over)
      n == Larger(1, Len(finished) \div 2)
  IN IF Cardinality(entries) < max THEN {}
     ELSE {finished[i] : i \in {i \in DOMAIN finished : i <= n}}

Ended == {j \in Submitted : jobStatus[j] = "ended"}

\* WorkflowRuns.start(), or submit() alone for a document's ingest.
SubmitJob(withRun) ==
  /\ Len(jobStatus) < MaxSubmits
  /\ LET j == Len(jobStatus) + 1
     IN /\ runEntries' = IF withRun
                           THEN (runEntries \ Evicted(runEntries, runDone, MaxRunEntries)) \cup {j}
                           ELSE runEntries
        /\ carriesRun' = IF withRun THEN carriesRun \cup {j} ELSE carriesRun
        /\ jobEntries' = (jobEntries \ Evicted(jobEntries, Ended, MaxJobEntries)) \cup {j}
        /\ jobStatus' = Append(jobStatus, "queued")
        /\ updated' = Touched(j)
        /\ mostJobs' = Larger(mostJobs, Cardinality(Submitted \ Ended) + 1)
        /\ mostRuns' = Larger(mostRuns, Cardinality(carriesRun' \ runDone))
  /\ UNCHANGED runDone

RunningJobs == {j \in Submitted : jobStatus[j] = "running"}

\* _run: the slot is acquired, first come first served.
BeginJob(j) ==
  /\ jobStatus[j] = "queued" /\ \A i \in 1..j - 1 : jobStatus[i] # "queued"
  /\ Cardinality(RunningJobs) < MaxConcurrency
  /\ jobStatus' = [jobStatus EXCEPT ![j] = "running"]
  /\ updated' = Touched(j)
  /\ UNCHANGED <<jobEntries, runEntries, carriesRun, runDone, mostJobs, mostRuns>>

\* The end of a run, published to the loop before its work returns.
RunIsDone(j) ==
  /\ j \in carriesRun \ runDone /\ jobStatus[j] = "running"
  /\ runDone' = runDone \cup {j}
  /\ UNCHANGED <<jobEntries, runEntries, carriesRun, jobStatus, updated, mostJobs, mostRuns>>

EndJob(j) ==
  /\ jobStatus[j] = "running" /\ (j \in carriesRun => j \in runDone)
  /\ jobStatus' = [jobStatus EXCEPT ![j] = "ended"]
  /\ updated' = Touched(j)
  /\ UNCHANGED <<jobEntries, runEntries, carriesRun, runDone, mostJobs, mostRuns>>

RegistryInit ==
  /\ jobEntries = {} /\ runEntries = {} /\ carriesRun = {} /\ jobStatus = <<>>
  /\ runDone = {} /\ updated = <<>> /\ mostJobs = 0 /\ mostRuns = 0

RegistryNext ==
  \/ \E withRun \in BOOLEAN : SubmitJob(withRun)
  \/ \E j \in Submitted : BeginJob(j) \/ RunIsDone(j) \/ EndJob(j)

RegistrySpec == RegistryInit /\ [][RegistryNext]_registryVars

-----------------------------------------------------------------------------
(* Properties *)

RegistryTypeOK ==
  /\ jobEntries \subseteq Submitted /\ carriesRun \subseteq Submitted
  /\ runEntries \subseteq carriesRun /\ runDone \subseteq carriesRun
  /\ jobStatus \in Seq({"queued", "running", "ended"})
  /\ Members(updated) = Submitted /\ Len(updated) = Len(jobStatus)

\* Eviction never forgets what is not finished, in either registry; and a
\* registry is over its limit only as far as unfinished entries once filled it:
\* "it only ever grows that way" (workflows/runs.py:123).
UnfinishedKept ==
  /\ Submitted \ Ended \subseteq jobEntries
  /\ carriesRun \ runDone \subseteq runEntries
  /\ Cardinality(jobEntries) <= Larger(MaxJobEntries, mostJobs)
  /\ Cardinality(runEntries) <= Larger(MaxRunEntries, mostRuns)
=============================================================================
