--------------------------- MODULE DeploymentLock ---------------------------
(***************************************************************************)
(* The per-page exclusive deployment lock: one Redis key                   *)
(* deploy:lock:{pageId} whose value is the id of its holder and whose TTL  *)
(* is refreshed by the holder.  Each operator is one Lua script, hence     *)
(* atomic (services/api/services/deployment-lock.service.ts).              *)
(* Wall-clock time is abstracted: Lapse is the TTL running out, and the    *)
(* modules that use the lock say when it may.                              *)
(***************************************************************************)
CONSTANT
    Free        \* the value of `lock' while the key is absent

VARIABLE lock   \* the holder id stored in deploy:lock:{pageId}, or Free

(* HELD_LOCK_LUA *)
IsHeldBy(h) == lock = h

(* ACQUIRE_LOCK_LUA succeeds on an absent key and, re-entrantly, for the   *)
(* holder that is already there: the guard of its two branches.            *)
BugAcquirable(h) == TRUE
Acquirable(h) == lock \in {Free, h}

(* ACQUIRE_LOCK_LUA returning 1: SET with a TTL, or EXPIRE again.          *)
Acquire(h) ==
    /\ Acquirable(h)
    /\ lock' = h

(* ACQUIRE_LOCK_LUA returning 0.                                           *)
Refused(h) ==
    /\ ~Acquirable(h)
    /\ UNCHANGED lock

(* RELEASE_LOCK_LUA: deletes the key only on behalf of its current holder. *)
BugReleaseLock(h) == lock' = Free
ReleaseLock(h) == lock' = IF lock = h THEN Free ELSE lock

(* The TTL runs out.                                                       *)
Lapse ==
    /\ lock # Free
    /\ lock' = Free
=============================================================================
