------------------------------ MODULE Analytics ------------------------------
(***************************************************************************)
(* The statistics of one site on one day: requests are put on a channel,   *)
(* workers count them in a Redis hash, a flusher adds the hash to the row  *)
(* in PostgreSQL and sets it to zero, and Cleanup ends all of them.        *)
(*                                                                         *)
(* Of the fields of the hash there are two, "requests" and "class", which  *)
(* stands for the buckets a request falls into: one command each.  Workers *)
(* are alike and are counted, not named.                                   *)
(***************************************************************************)
EXTENDS Integers

CONSTANTS
    MaxEvents,      \* bound: requests recorded
    Capacity,       \* of the channel
    Workers,        \* goroutines that take from it
    Flushers,       \* flushers that use the hash: one for each instance
    MaxKills,       \* bound: deaths of the process
    CountFaults     \* calls that may fail, and "die" between upsert and reset

Fields == {"requests", "class"}
FlushSteps == {"idle", "upsert", "reset", "gone"}

ASSUME AnalyticsConstants ==
    /\ MaxEvents \in Nat /\ Capacity \in Nat /\ Workers \in Nat \ {0} /\ MaxKills \in Nat
    /\ CountFaults \subseteq {"count", "upsert", "reset", "die"}

VARIABLES
    accepted,   \* requests taken up by the channel
    channel,    \* how many are in it
    taken,      \* workers with an event no command has landed of
    half,       \* workers whose event is counted in "requests" alone
    left,       \* workers that have ended
    statsHash,  \* the hash stats:{site}:{day}
    db,         \* the row of site_daily_stats
    flushStep,  \* of each flusher
    snap,       \* what it has read
    done,       \* the channel done is closed
    kills,      \* deaths so far
    missed,     \* history: increments whose command failed or was never sent
    lost        \* history: increments a reset has wiped out

hash == <<statsHash, db, missed, lost>>
pool == <<channel, taken, half, left>>
analyticsVars == <<accepted, channel, taken, half, left, statsHash, db, flushStep, snap,
                   done, kills, missed, lost>>

Zero == [f \in Fields |-> 0]

AnalyticsTypeOK ==
    /\ accepted \in 0..MaxEvents
    /\ channel \in 0..Capacity
    /\ taken \in Nat /\ half \in Nat /\ left \in Nat
    /\ taken + half + left <= Workers
    /\ statsHash \in [Fields -> Nat] /\ db \in [Fields -> Nat]
    /\ flushStep \in [Flushers -> FlushSteps]
    /\ snap \in [Flushers -> [Fields -> Nat]]
    /\ done \in BOOLEAN
    /\ kills \in 0..MaxKills
    /\ missed \in [Fields -> Nat] /\ lost \in [Fields -> Int]

AnalyticsInit ==
    /\ accepted = 0
    /\ channel = 0 /\ taken = 0 /\ half = 0 /\ left = 0
    /\ statsHash = Zero /\ db = Zero
    /\ flushStep = [u \in Flushers |-> "idle"]
    /\ snap = [u \in Flushers |-> Zero]
    /\ done = FALSE /\ kills = 0
    /\ missed = Zero /\ lost = Zero

-----------------------------------------------------------------------------
IdleWorkers == Workers - taken - half - left

(* Record never waits: a request that finds the channel full is not taken  *)
(* up, and changes nothing.  None is recorded once Cleanup has begun.      *)
Record ==
    /\ accepted < MaxEvents /\ ~done
    /\ channel < Capacity
    /\ channel' = channel + 1
    /\ accepted' = accepted + 1
    /\ UNCHANGED <<taken, half, left, flushStep, snap, done, kills, hash>>

TakeEvent ==
    /\ channel > 0 /\ IdleWorkers > 0
    /\ channel' = channel - 1 /\ taken' = taken + 1
    /\ UNCHANGED <<accepted, half, left, flushStep, snap, done, kills, hash>>

Plus(count, fields) == [f \in Fields |-> count[f] + IF f \in fields THEN 1 ELSE 0]

(* The commands of a pipeline are not a transaction.                       *)
CountRequest ==
    /\ taken > 0
    /\ taken' = taken - 1 /\ half' = half + 1
    /\ statsHash' = Plus(statsHash, {"requests"})
    /\ UNCHANGED <<accepted, channel, left, flushStep, snap, done, kills, db, missed, lost>>

CountClass ==
    /\ half > 0
    /\ half' = half - 1
    /\ statsHash' = Plus(statsHash, {"class"})
    /\ UNCHANGED <<accepted, channel, taken, left, flushStep, snap, done, kills, db,
                   missed, lost>>

(* An error of Exec is ignored.                                            *)
FailCount ==
    /\ "count" \in CountFaults
    /\ \/ /\ taken > 0
          /\ taken' = taken - 1 /\ UNCHANGED half
          /\ missed' = Plus(missed, Fields)
       \/ /\ half > 0
          /\ half' = half - 1 /\ UNCHANGED taken
          /\ missed' = Plus(missed, {"class"})
    /\ UNCHANGED <<accepted, channel, left, flushStep, snap, done, kills, statsHash, db, lost>>

(* A worker that has seen done drains the channel before it ends.          *)
MayExit == done /\ channel = 0

ExitWorker ==
    /\ MayExit /\ IdleWorkers > 0
    /\ left' = left + 1
    /\ UNCHANGED <<accepted, channel, taken, half, flushStep, snap, done, kills, hash>>

-----------------------------------------------------------------------------
(* flushKey                                                                *)

(* A flush that leaves the flusher's loop ends the goroutine: the final    *)
(* one, and a flush under way when done is closed runs another first.      *)
Rest == IF done THEN {"idle", "gone"} ELSE {"idle"}

ReadHash(u) ==
    /\ flushStep[u] = "idle"
    /\ IF statsHash["requests"] = 0
       THEN /\ done                       \* nothing to do, and time to go
            /\ flushStep' = [flushStep EXCEPT ![u] = "gone"]
            /\ UNCHANGED snap
       ELSE /\ flushStep' = [flushStep EXCEPT ![u] = "upsert"]
            /\ snap' = [snap EXCEPT ![u] = statsHash]
    /\ UNCHANGED <<accepted, pool, done, kills, hash>>

BugAdded(u) == snap[u]
Added(u) == [f \in Fields |-> db[f] + snap[u][f]]

Upsert(u) ==
    /\ flushStep[u] = "upsert"
    /\ db' = Added(u)
    /\ flushStep' = [flushStep EXCEPT ![u] = "reset"]
    /\ UNCHANGED <<accepted, pool, snap, done, kills, statsHash, missed, lost>>

(* "We'll retry on the next flush cycle."                                  *)
FailUpsert(u) ==
    /\ "upsert" \in CountFaults /\ flushStep[u] = "upsert"
    /\ \E next \in Rest : flushStep' = [flushStep EXCEPT ![u] = next]
    /\ UNCHANGED <<accepted, pool, snap, done, kills, hash>>

(* HSET to zero, whatever has been counted since the read.                 *)
BugAfterReset == statsHash
AfterReset == Zero

Reset(u) ==
    /\ flushStep[u] = "reset"
    /\ \/ /\ statsHash' = AfterReset
          /\ lost' = [f \in Fields |-> lost[f] + (statsHash[f] - snap[u][f])]
       \/ "reset" \in CountFaults /\ UNCHANGED <<statsHash, lost>>
    /\ \E next \in Rest : flushStep' = [flushStep EXCEPT ![u] = next]
    /\ UNCHANGED <<accepted, pool, snap, done, kills, db, missed>>

-----------------------------------------------------------------------------
(* Cleanup closes done and waits for all goroutines.                       *)
Cleanup ==
    /\ ~done
    /\ done' = TRUE
    /\ UNCHANGED <<accepted, pool, flushStep, snap, kills, hash>>

Ended == done /\ left = Workers /\ \A u \in Flushers : flushStep[u] = "gone"

Fresh ==
    /\ channel' = 0 /\ taken' = 0 /\ half' = 0 /\ left' = 0
    /\ flushStep' = [u \in Flushers |-> "idle"]
    /\ snap' = [u \in Flushers |-> Zero]
    /\ done' = FALSE

(* The next process finds what is left in Redis, and has a channel of its  *)
(* own.                                                                    *)
Restart ==
    /\ Ended
    /\ Fresh
    /\ missed' = [f \in Fields |-> missed[f] + channel]
    /\ UNCHANGED <<accepted, kills, statsHash, db, lost>>

Crash ==
    /\ kills < MaxKills
    /\ "die" \in CountFaults \/ \A u \in Flushers : flushStep[u] # "reset"
    /\ kills' = kills + 1
    /\ Fresh
    /\ missed' = [f \in Fields |-> missed[f] + channel + taken
                                       + IF f = "class" THEN half ELSE 0]
    /\ UNCHANGED <<accepted, statsHash, db, lost>>

-----------------------------------------------------------------------------
Work == TakeEvent \/ CountRequest \/ CountClass \/ FailCount \/ ExitWorker
Flush(u) == ReadHash(u) \/ Upsert(u) \/ FailUpsert(u) \/ Reset(u)

AnalyticsNext ==
    Record \/ Work \/ (\E u \in Flushers : Flush(u)) \/ Cleanup \/ Restart \/ Crash

AnalyticsSpec == AnalyticsInit /\ [][AnalyticsNext]_analyticsVars

-----------------------------------------------------------------------------
(* A flush between its upsert and its reset has its snapshot in both.      *)
Twice(f) == IF \E u \in Flushers : flushStep[u] = "reset"
            THEN snap[CHOOSE u \in Flushers : flushStep[u] = "reset"][f] ELSE 0

(* flushKey "resets the Redis counters to zero to prevent double-counting" *)
(* and what it can lose is what was counted between its read and its       *)
(* reset: every request taken up is in the channel, with a worker, in the  *)
(* hash, in the row, or accounted for as missed or lost, and once.         *)
EachOnce ==
    \A f \in Fields :
        accepted = channel + taken + (IF f = "class" THEN half ELSE 0)
                   + statsHash[f] + db[f] - Twice(f) + missed[f] + lost[f]

(* "Drain remaining events before exiting so we don't lose data": when     *)
(* Cleanup returns no event is left in the channel or with a worker.       *)
Drained == Ended => channel = 0 /\ taken = 0 /\ half = 0

Accounting == EachOnce /\ Drained

(* The row counts requests once each, whenever it is read.                 *)
CountsOnce == INSTANCE RequestCount WITH counted <- db["requests"]
CountsEachOnce == CountsOnce!CountSpec
==============================================================================
