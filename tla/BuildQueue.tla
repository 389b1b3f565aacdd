----------------------------- MODULE BuildQueue -----------------------------
(***************************************************************************)
(* Cloud builds of one tenant: the request that queues a build, the queue  *)
(* with its retries, the worker's steps around the container, the counter  *)
(* that limits a tenant's builds, and the dead letters.                    *)
(*                                                                         *)
(* What a deployment does is left to Activation.  Cloning, Docker and      *)
(* BullMQ are external: they may fail wherever the worker waits for them.  *)
(***************************************************************************)
EXTENDS Integers, FiniteSets

CONSTANTS
    Builds,         \* build requests, one row and one job each
    Limit,          \* BUILD_MAX_CONCURRENT_PER_TENANT
    Concurrency,    \* jobs the worker process runs at once
    MaxAttempts,    \* attempts of a job
    MaxStalls,      \* times BullMQ gives a job of a dead worker out again
    MaxCrashes,     \* bound: deaths of the worker process
    EarlyLapse,     \* the counter's lease may run out under a build
    FaultAt,        \* steps where an exception may strike
    CrashAt         \* steps at which no job may be for the process to die

Steps == {"clone", "slot", "create", "start", "run", "remove", "release",
          "validate", "deploy", "complete"}
Catch == {"kill", "free", "mark", "bury", "return", "rethrow"}
ErrorTypes == {"retryable", "permanent"}

ASSUME BuildConstants ==
    /\ IsFiniteSet(Builds)
    /\ Limit \in Nat \ {0} /\ Concurrency \in Nat \ {0}
    /\ MaxAttempts \in Nat \ {0} /\ MaxStalls \in Nat /\ MaxCrashes \in Nat
    /\ EarlyLapse \in BOOLEAN
    /\ FaultAt \subseteq {"add", "link", "releaseCall", "slotAnswer", "rm"} \cup Steps \cup Catch
    /\ CrashAt \subseteq Steps \cup Catch

VARIABLES
    request,    \* next step of triggerCloudBuild
    buildRow,   \* status of the row in builds
    linked,     \* the row has its job_id
    job,        \* state of the BullMQ job
    attempts,   \* attemptsMade: failed attempts before this one
    stalls,     \* times the job was found stalled
    pc,         \* next step of the worker on the job
    error,      \* classification of the error being handled
    holds,      \* slotAcquired
    counter,    \* build:sem:{tenant}; a missing key counts as 0
    ttl,        \* the counter has an expiry
    container,  \* the container cloudisy-build-{jobId}
    live,       \* the deployment of the build went live
    dlq,        \* builds in the dead letters
    crashes

queue == <<request, linked, job, attempts, stalls>>
slots == <<counter, ttl>>
buildVars == <<request, buildRow, linked, job, attempts, stalls, pc, error,
               holds, counter, ttl, container, live, dlq, crashes>>

BuildTypeOK ==
    /\ request \in [Builds -> {"insert", "add", "link", "over"}]
    /\ buildRow \in [Builds -> {"absent", "queued", "completed", "failed"}]
    /\ linked \in [Builds -> BOOLEAN]
    /\ job \in [Builds -> {"none", "waiting", "active", "done", "failed"}]
    /\ attempts \in [Builds -> 0..MaxAttempts]
    /\ stalls \in [Builds -> 0..MaxStalls]
    /\ pc \in [Builds -> {"idle"} \cup Steps \cup Catch]
    /\ error \in [Builds -> ErrorTypes]
    /\ holds \in [Builds -> BOOLEAN]
    /\ counter \in Int /\ ttl \in BOOLEAN
    /\ container \in [Builds -> {"none", "created", "running", "exited"}]
    /\ live \in [Builds -> BOOLEAN]
    /\ dlq \subseteq Builds
    /\ crashes \in 0..MaxCrashes

BuildInit ==
    /\ request = [b \in Builds |-> "insert"]
    /\ buildRow = [b \in Builds |-> "absent"]
    /\ linked = [b \in Builds |-> FALSE]
    /\ job = [b \in Builds |-> "none"]
    /\ attempts = [b \in Builds |-> 0]
    /\ stalls = [b \in Builds |-> 0]
    /\ pc = [b \in Builds |-> "idle"]
    /\ error = [b \in Builds |-> "retryable"]
    /\ holds = [b \in Builds |-> FALSE]
    /\ counter = 0 /\ ttl = FALSE
    /\ container = [b \in Builds |-> "none"]
    /\ live = [b \in Builds |-> FALSE]
    /\ dlq = {}
    /\ crashes = 0

-----------------------------------------------------------------------------
(* triggerCloudBuild: three calls, and an exception ends it where it is.   *)

InsertBuild(b) ==
    /\ request[b] = "insert"
    /\ buildRow' = [buildRow EXCEPT ![b] = "queued"]
    /\ request' = [request EXCEPT ![b] = "add"]
    /\ UNCHANGED <<linked, job, attempts, stalls, pc, error, holds, slots,
                   container, live, dlq, crashes>>

AddJob(b) ==
    /\ request[b] = "add"
    /\ \/ /\ job' = [job EXCEPT ![b] = "waiting"]
          /\ request' = [request EXCEPT ![b] = "link"]
       \/ /\ "add" \in FaultAt
          /\ request' = [request EXCEPT ![b] = "over"]
          /\ UNCHANGED job
    /\ UNCHANGED <<buildRow, linked, attempts, stalls, pc, error, holds, slots,
                   container, live, dlq, crashes>>

(* The worker may have taken the job, or ended it, by now.                 *)
LinkJob(b) ==
    /\ request[b] = "link"
    /\ request' = [request EXCEPT ![b] = "over"]
    /\ \/ linked' = [linked EXCEPT ![b] = TRUE]
       \/ "link" \in FaultAt /\ UNCHANGED linked
    /\ UNCHANGED <<buildRow, job, attempts, stalls, pc, error, holds, slots,
                   container, live, dlq, crashes>>

-----------------------------------------------------------------------------
(* The job.  A delay before a retry is a job that waits.                   *)

Active == {b \in Builds : job[b] = "active"}

Take(b) ==
    /\ job[b] = "waiting"
    /\ Cardinality(Active) < Concurrency
    /\ job' = [job EXCEPT ![b] = "active"]
    /\ pc' = [pc EXCEPT ![b] = "clone"]
    /\ UNCHANGED <<request, buildRow, linked, attempts, stalls, error, holds, slots,
                   container, live, dlq, crashes>>

At(b, step) == job[b] = "active" /\ pc[b] = step
Goto(b, step) == pc' = [pc EXCEPT ![b] = step]

(* An exception of the given class: the catch block, where it starts.      *)
Raise(b, class) ==
    /\ error' = [error EXCEPT ![b] = class]
    /\ Goto(b, "kill")

Fault(b, class) ==
    \E step \in FaultAt \cap Steps :
        /\ At(b, step)
        /\ Raise(b, class)
        /\ UNCHANGED <<queue, buildRow, holds, slots, container, live, dlq, crashes>>

(* A failed clone, call of Docker, query or deploy may be tried again; the *)
(* failed validation of what was built and the absence of files may not.   *)
FaultClass(b) ==
    IF pc[b] = "validate" THEN ErrorTypes ELSE {"retryable"}

Throw(b) == \E class \in FaultClass(b) : Fault(b, class)

Clone(b) ==
    /\ At(b, "clone")
    /\ Goto(b, "slot")
    /\ UNCHANGED <<queue, buildRow, error, holds, slots, container, live, dlq, crashes>>

BugSlotFree == counter <= Limit
SlotFree == counter < Limit

BugLease == UNCHANGED ttl
Lease == ttl' = TRUE

(* The script takes a slot and renews the lease of all of them.            *)
AcquireSlot(b) ==
    /\ At(b, "slot")
    /\ SlotFree
    /\ counter' = counter + 1
    /\ Lease
    /\ \/ /\ holds' = [holds EXCEPT ![b] = TRUE]
          /\ Goto(b, "create")
          /\ UNCHANGED error
       \/ /\ "slotAnswer" \in FaultAt        \* the answer is lost
          /\ Raise(b, "retryable")
          /\ UNCHANGED holds
    /\ UNCHANGED <<queue, buildRow, container, live, dlq, crashes>>

(* No slot: an exception like any other, which uses up an attempt.         *)
RefuseSlot(b) ==
    /\ At(b, "slot")
    /\ ~SlotFree
    /\ Raise(b, "retryable")
    /\ UNCHANGED <<queue, buildRow, holds, slots, container, live, dlq, crashes>>

(* The name of a container an earlier attempt has left is taken.           *)
CreateContainer(b) ==
    /\ At(b, "create")
    /\ IF container[b] = "none"
       THEN /\ container' = [container EXCEPT ![b] = "created"]
            /\ Goto(b, "start")
            /\ UNCHANGED error
       ELSE Raise(b, "retryable") /\ UNCHANGED container
    /\ UNCHANGED <<queue, buildRow, holds, slots, live, dlq, crashes>>

StartContainer(b) ==
    /\ At(b, "start")
    /\ container' = [container EXCEPT ![b] = "running"]
    /\ Goto(b, "run")
    /\ UNCHANGED <<queue, buildRow, error, holds, slots, live, dlq, crashes>>

(* The container ends; a command that failed is an exception.              *)
EndRun(b) ==
    /\ At(b, "run")
    /\ container' = [container EXCEPT ![b] = "exited"]
    /\ \/ Goto(b, "remove") /\ UNCHANGED error
       \/ Raise(b, "retryable")
    /\ UNCHANGED <<queue, buildRow, holds, slots, live, dlq, crashes>>

(* An error of docker rm is not one of the build.                          *)
RemoveContainer(b) ==
    /\ At(b, "remove")
    /\ \/ container' = [container EXCEPT ![b] = "none"]
       \/ "rm" \in FaultAt /\ UNCHANGED container
    /\ Goto(b, "release")
    /\ UNCHANGED <<queue, buildRow, error, holds, slots, live, dlq, crashes>>

(* DECR; an error is swallowed.  On a missing key it leaves -1, no expiry. *)
Decrement ==
    \/ counter' = counter - 1 /\ UNCHANGED ttl
    \/ "releaseCall" \in FaultAt /\ UNCHANGED slots

ReleaseSlot(b) ==
    /\ At(b, "release")
    /\ Decrement
    /\ holds' = [holds EXCEPT ![b] = FALSE]
    /\ Goto(b, "validate")
    /\ UNCHANGED <<queue, buildRow, error, container, live, dlq, crashes>>

Validate(b) ==
    /\ At(b, "validate")
    /\ Goto(b, "deploy")
    /\ UNCHANGED <<queue, buildRow, error, holds, slots, container, live, dlq, crashes>>

Deploy(b) ==
    /\ At(b, "deploy")
    /\ live' = [live EXCEPT ![b] = TRUE]
    /\ Goto(b, "complete")
    /\ UNCHANGED <<queue, buildRow, error, holds, slots, container, dlq, crashes>>

(* An attempt before may have left its error in the row: it stays there.   *)
Complete(b) ==
    /\ At(b, "complete")
    /\ buildRow' = [buildRow EXCEPT ![b] = "completed"]
    /\ Goto(b, "return")
    /\ UNCHANGED <<queue, error, holds, slots, container, live, dlq, crashes>>

-----------------------------------------------------------------------------
(* The catch block.                                                        *)

(* docker kill is not awaited: it is taken to land before another build    *)
(* has created, filled and started a container.  Nothing removes it.       *)
Kill(b) ==
    /\ At(b, "kill")
    /\ container' = [container EXCEPT ![b] = IF @ = "running" THEN "exited" ELSE @]
    /\ Goto(b, "free")
    /\ UNCHANGED <<queue, buildRow, error, holds, slots, live, dlq, crashes>>

MustRelease(b) == holds[b]

FreeSlot(b) ==
    /\ At(b, "free")
    /\ IF MustRelease(b) THEN Decrement ELSE UNCHANGED slots
    /\ holds' = [holds EXCEPT ![b] = FALSE]
    /\ Goto(b, "mark")
    /\ UNCHANGED <<queue, buildRow, error, container, live, dlq, crashes>>

(* The job's attempts so far do not count the one that is failing.         *)
Exhausted(b) == attempts[b] >= MaxAttempts
Buried(b) == error[b] = "permanent" \/ Exhausted(b)

BugMarks(b) == Buried(b)
Marks(b) == TRUE

MarkRow(b) ==
    /\ At(b, "mark")
    /\ \/ /\ buildRow' = [buildRow EXCEPT ![b] = IF Marks(b) THEN "failed" ELSE @]
          /\ Goto(b, IF Buried(b) THEN "bury" ELSE "rethrow")
       \/ /\ "mark" \in FaultAt
          /\ Goto(b, "rethrow")
          /\ UNCHANGED buildRow
    /\ UNCHANGED <<queue, error, holds, slots, container, live, dlq, crashes>>

AfterBurial(b) == IF error[b] = "permanent" THEN "return" ELSE "rethrow"

Bury(b) ==
    /\ At(b, "bury")
    /\ \/ dlq' = dlq \cup {b} /\ Goto(b, AfterBurial(b))
       \/ "bury" \in FaultAt /\ Goto(b, "rethrow") /\ UNCHANGED dlq
    /\ UNCHANGED <<queue, buildRow, error, holds, slots, container, live, crashes>>

-----------------------------------------------------------------------------
(* What BullMQ does with the job.                                          *)

Return(b) ==
    /\ At(b, "return")
    /\ job' = [job EXCEPT ![b] = "done"]
    /\ Goto(b, "idle")
    /\ UNCHANGED <<request, buildRow, linked, attempts, stalls, error, holds, slots,
                   container, live, dlq, crashes>>

RetryLeft(b) == attempts[b] + 1 < MaxAttempts

Rethrow(b) ==
    /\ At(b, "rethrow")
    /\ attempts' = [attempts EXCEPT ![b] = @ + 1]
    /\ job' = [job EXCEPT ![b] = IF RetryLeft(b) THEN "waiting" ELSE "failed"]
    /\ Goto(b, "idle")
    /\ UNCHANGED <<request, buildRow, linked, stalls, error, holds, slots,
                   container, live, dlq, crashes>>

(* The worker process dies with all it runs.  BullMQ finds the jobs        *)
(* stalled and gives them out again, MaxStalls times; the container, and   *)
(* what the counter has counted, are left.                                 *)
CrashWorker ==
    /\ crashes < MaxCrashes
    /\ Active # {}
    /\ \A b \in Active : pc[b] \in CrashAt
    /\ crashes' = crashes + 1
    /\ job' = [b \in Builds |-> IF b \notin Active THEN job[b]
                                ELSE IF stalls[b] < MaxStalls THEN "waiting" ELSE "failed"]
    /\ stalls' = [b \in Builds |-> IF b \in Active /\ stalls[b] < MaxStalls
                                   THEN stalls[b] + 1 ELSE stalls[b]]
    /\ pc' = [b \in Builds |-> "idle"]
    /\ holds' = [b \in Builds |-> FALSE]
    /\ UNCHANGED <<request, buildRow, linked, attempts, error, slots, container,
                   live, dlq>>

(* A container nobody attends to runs to its end.                          *)
OrphanEnds(b) ==
    /\ container[b] = "running"
    /\ job[b] # "active" \/ pc[b] \in {"clone", "slot", "create"}
    /\ container' = [container EXCEPT ![b] = "exited"]
    /\ UNCHANGED <<queue, buildRow, pc, error, holds, slots, live, dlq, crashes>>

(* The key expires: unless EarlyLapse, no build outlasts the lease.        *)
Outlasted == \A b \in Builds : ~holds[b] /\ container[b] # "running"

LeaseLapse ==
    /\ ttl
    /\ EarlyLapse \/ Outlasted
    /\ counter' = 0 /\ ttl' = FALSE
    /\ UNCHANGED <<queue, buildRow, pc, error, holds, container, live, dlq, crashes>>

-----------------------------------------------------------------------------
RunRequest(b) == InsertBuild(b) \/ AddJob(b) \/ LinkJob(b)

RunJob(b) ==
    \/ Take(b) \/ Throw(b)
    \/ Clone(b) \/ AcquireSlot(b) \/ RefuseSlot(b)
    \/ CreateContainer(b) \/ StartContainer(b) \/ EndRun(b) \/ RemoveContainer(b)
    \/ ReleaseSlot(b) \/ Validate(b) \/ Deploy(b) \/ Complete(b)
    \/ Kill(b) \/ FreeSlot(b) \/ MarkRow(b) \/ Bury(b) \/ Return(b) \/ Rethrow(b)

BuildNext ==
    \/ \E b \in Builds : RunRequest(b) \/ RunJob(b) \/ OrphanEnds(b)
    \/ CrashWorker
    \/ LeaseLapse

BuildSpec == BuildInit /\ [][BuildNext]_buildVars

(* The event loop runs a request and a job on; containers end; keys expire.*)
BuildFairSpec ==
    /\ BuildSpec
    /\ \A b \in Builds : WF_buildVars(RunJob(b)) /\ WF_buildVars(OrphanEnds(b))
    /\ WF_buildVars(LeaseLapse)

-----------------------------------------------------------------------------
(* acquireTenantSlot: no tenant runs more containers at once than its      *)
(* limit, those a dead worker has left included.                           *)
WithinLimit == Cardinality({b \in Builds : container[b] = "running"}) <= Limit

(* A build that was queued comes to be completed or failed in its row and  *)
(* its job ends, whatever fails on the way.                                *)
EveryBuildSettles ==
    \A b \in Builds : job[b] = "waiting"
        ~> buildRow[b] \in {"completed", "failed"} /\ job[b] \in {"done", "failed"}

(* Whatever crashes and lost releases leave behind, a tenant comes to have *)
(* all its slots again: the lease sees to it.                              *)
SlotsComeFree == []<>(counter <= 0)
=============================================================================
