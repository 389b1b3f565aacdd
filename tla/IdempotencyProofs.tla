------------------------- MODULE IdempotencyProofs -------------------------
(***************************************************************************)
(* Theorems about Idempotency, for every set of requests and of other      *)
(* deploys, every number of versions and every placement of faults.        *)
(***************************************************************************)
EXTENDS Idempotency, FiniteSetTheorems, TLAPS

(* The steps a prepare and a commit go through.                            *)
Control ==
    /\ \A p \in Prepares : pc[p] \in PrepareSteps \cup {"idle", "done"}
    /\ \A c \in Commits : pc[c] \in CommitSteps \cup {"idle", "done"}

(* A commit under way has a token's payload in hand, and a deployment      *)
(* once it has made one.                                                   *)
Loaded ==
    \A c \in Commits :
        /\ pc[c] \in CommitSteps => load[c] \in Payload
        /\ pc[c] = "activate" => dep[c] \in Versions

Typed == TypeOK /\ Control /\ Loaded

LEMMA TypedInit == Init => Typed
BY ConstantsAssumption
DEF Init, Typed, TypeOK, Control, Loaded, Versions, Requests, Payload, Outcomes,
    CommitSteps, Guarded, PrepareSteps

LEMMA PrepareMove ==
    ASSUME Typed, NEW p \in Prepares,
           NEW s \in PrepareSteps \cup {"idle", "done"}, Goto(p, s)
    PROVE  /\ pc' \in [Requests \cup Rivals ->
                          PrepareSteps \cup CommitSteps \cup {"idle", "deploy", "done"}]
           /\ Control'
           /\ \A c \in Commits : pc'[c] = pc[c]
BY ConstantsAssumption DEF Typed, TypeOK, Control, Goto, Requests

LEMMA CommitMove ==
    ASSUME Typed, NEW c \in Commits,
           NEW s \in CommitSteps \cup {"idle", "done"}, Goto(c, s)
    PROVE  /\ pc' \in [Requests \cup Rivals ->
                          PrepareSteps \cup CommitSteps \cup {"idle", "deploy", "done"}]
           /\ Control'
           /\ \A p \in Prepares : pc'[p] = pc[p]
           /\ \A d \in Commits : d # c => pc'[d] = pc[d]
           /\ pc'[c] = s
BY ConstantsAssumption DEF Typed, TypeOK, Control, Goto, Requests

LEMMA RivalMove ==
    ASSUME Typed, NEW x \in Rivals, NEW s \in {"deploy", "release", "done"}, Goto(x, s)
    PROVE  /\ pc' \in [Requests \cup Rivals ->
                          PrepareSteps \cup CommitSteps \cup {"idle", "deploy", "done"}]
           /\ \A r \in Requests : pc'[r] = pc[r]
BY ConstantsAssumption DEF Typed, TypeOK, Goto, Requests, CommitSteps, Guarded

LEMMA TypedStep == Typed /\ [Next]_vars => Typed'
<1> SUFFICES ASSUME Typed, [Next]_vars PROVE Typed'
  OBVIOUS
<1> USE ConstantsAssumption DEF Typed
<1>1. ASSUME NEW p \in Prepares, ReadBase(p) PROVE Typed'
  BY <1>1, PrepareMove DEF ReadBase, Move, TypeOK, Loaded, row, page, local, PrepareSteps
<1>2. ASSUME NEW p \in Prepares, Reserve(p) PROVE Typed'
  BY <1>2, PrepareMove DEF Reserve, TypeOK, Loaded, row, page, local, PrepareSteps
<1>3. ASSUME NEW p \in Prepares, InsertKey(p) PROVE Typed'
  BY <1>2, <1>3, PrepareMove DEF InsertKey, TypeOK, Loaded, row, page, local, PrepareSteps
<1>4. ASSUME NEW p \in Prepares, ReadKey(p) PROVE Typed'
  BY <1>4, PrepareMove DEF ReadKey, Settled, TypeOK, Loaded, row, page, local, PrepareSteps, Requests
<1>5. ASSUME NEW p \in Prepares, Revive(p) PROVE Typed'
  BY <1>2, <1>5, PrepareMove DEF Revive, TypeOK, Loaded, row, page, local, PrepareSteps
<1>6. ASSUME NEW p \in Prepares, Reread(p) PROVE Typed'
  BY <1>6, PrepareMove DEF Reread, Settled, TypeOK, Loaded, row, page, local, PrepareSteps, Requests
<1>7. ASSUME NEW p \in Prepares, Replay(p) PROVE Typed'
  BY <1>7, PrepareMove DEF Replay, Answer, TypeOK, Loaded, row, page, local, PrepareSteps, Outcomes
<1>8. ASSUME NEW p \in Prepares, GetToken(p) PROVE Typed'
  BY <1>8, PrepareMove DEF GetToken, Answer, TypeOK, Loaded, row, page, local, PrepareSteps, Outcomes
<1>9. ASSUME NEW p \in Prepares, LockForToken(p) PROVE Typed'
  BY <1>9, PrepareMove DEF LockForToken, Acquire, Refused, TypeOK, Loaded, row, page, local, PrepareSteps
<1>10. ASSUME NEW p \in Prepares, SetToken(p) PROVE Typed'
  BY <1>10, PrepareMove DEF SetToken, Move, TypeOK, Loaded, row, page, local, PrepareSteps, Outcomes, Payload
<1>11. ASSUME NEW p \in Prepares, Undo(p) PROVE Typed'
  BY <1>11, PrepareMove DEF Undo, Move, ReleaseLock, TypeOK, Loaded, row, page, local, PrepareSteps
<1>12. ASSUME NEW p \in Prepares, FailKey(p) PROVE Typed'
  BY <1>12, PrepareMove DEF FailKey, Move, TypeOK, Loaded, row, page, local, PrepareSteps
<1>13. ASSUME NEW c \in Commits, LoadToken(c) PROVE Typed'
  BY <1>13, CommitMove DEF LoadToken, Move, TypeOK, Loaded, row, page, local, CommitSteps
<1>14. ASSUME NEW c \in Commits, AcquireLock(c) PROVE Typed'
  BY <1>14, CommitMove DEF AcquireLock, Acquire, Refused, TypeOK, Loaded, row, page, local, CommitSteps, Guarded
<1>15. ASSUME NEW c \in Commits, CheckBase(c) PROVE Typed'
  BY <1>15, CommitMove DEF CheckBase, Move, TypeOK, Loaded, row, page, local, CommitSteps, Guarded
<1>16. ASSUME NEW c \in Commits, CreateRow(c) PROVE Typed'
  <2>1. load[c] \in Payload
    BY <1>16 DEF CreateRow, Move, Loaded, CommitSteps, Guarded
  <2> QED BY <1>16, <2>1, CommitMove DEF CreateRow, MakeDeployment, Move, TypeOK, Loaded, row, page, local, CommitSteps, Guarded, Payload, Versions, Requests
<1>17. ASSUME NEW c \in Commits, ActivateRow(c) PROVE Typed'
  <2>1. PICK s \in {"complete", "release"} : Goto(c, s)
    BY <1>17 DEF ActivateRow
  <2>2. lived' \subseteq Versions
    BY <1>17 DEF ActivateRow, TypeOK, Loaded
  <2> QED BY <1>17, <2>1, <2>2, CommitMove DEF ActivateRow, TypeOK, Loaded, row, local, CommitSteps, Guarded
<1>18. ASSUME NEW c \in Commits, CompleteKey(c) PROVE Typed'
  BY <1>18, CommitMove DEF CompleteKey, Resource, Move, TypeOK, Loaded, row, page, local, CommitSteps, Guarded, Requests
<1>19. ASSUME NEW c \in Commits, DeleteToken(c) PROVE Typed'
  BY <1>19, CommitMove DEF DeleteToken, Move, TypeOK, Loaded, row, page, local, CommitSteps, Guarded
<1>20. ASSUME NEW c \in Commits, Release(c) PROVE Typed'
  BY <1>20, CommitMove DEF Release, ReleaseLock, Move, TypeOK, Loaded, row, page, local, CommitSteps, Guarded
<1>21. ASSUME NEW p \in Prepares, Throw(p) PROVE Typed'
  BY <1>21, PrepareMove DEF Throw, Handler, Control, TypeOK, Loaded, row, page, local, PrepareSteps, Guarded
<1>22. ASSUME NEW c \in Commits, Throw(c) PROVE Typed'
  BY <1>22, CommitMove DEF Throw, Handler, Control, TypeOK, Loaded, row, page, local, CommitSteps, Guarded, PrepareSteps
<1>23. ASSUME NEW x \in Rivals, RivalBegin(x) \/ RivalDeploy(x) \/ RivalEnd(x) PROVE Typed'
  <2>1. CASE RivalBegin(x)
    BY <2>1, RivalMove DEF RivalBegin, Acquire, Move, TypeOK, Control, Loaded, row, page, local, Requests
  <2>2. CASE RivalDeploy(x)
    BY <2>2, RivalMove DEF RivalDeploy, MakeDeployment, Move, TypeOK, Control, Loaded, row, page, local, Requests, Versions
  <2>3. CASE RivalEnd(x)
    BY <2>3, RivalMove DEF RivalEnd, ReleaseLock, Move, TypeOK, Control, Loaded, row, page, local, Requests
  <2> QED BY <1>23, <2>1, <2>2, <2>3
<1>24. ASSUME NEW v \in Versions, Collect(v) PROVE Typed'
  BY <1>24 DEF Collect, TypeOK, Control, Loaded, row, local
<1>25. CASE TtlLapse \/ TokenLapse
  BY <1>25 DEF TtlLapse, Lapse, TokenLapse, TypeOK, Control, Loaded, row, page, local
<1>26. CASE UNCHANGED vars
  BY <1>26 DEF vars, TypeOK, Control, Loaded, row, page, local
<1> QED
  BY <1>1, <1>3, <1>4, <1>5, <1>6, <1>7, <1>8, <1>9, <1>10, <1>11, <1>12, <1>13, <1>14,
     <1>15, <1>16, <1>17, <1>18, <1>19, <1>20, <1>21, <1>22, <1>23, <1>24, <1>25, <1>26
  DEF Next, PrepareStep, CommitStep, Requests

-----------------------------------------------------------------------------
(* The row, the Redis token, the lock, the deployments and what every      *)
(* request keeps are of their types in every reachable state.              *)
THEOREM TypeCorrect == Spec => []TypeOK
<1>1. Typed => TypeOK
  BY DEF Typed
<1> QED BY <1>1, TypedInit, TypedStep, PTL DEF Spec

-----------------------------------------------------------------------------
(* One reservation. Who made it goes from the lock to the end or to the    *)
(* failure of the key and nowhere else; while it is at work, the row is    *)
(* neither absent nor failed, so nobody else can reserve.                  *)
Path == {"lock", "setToken", "undo", "fail", "done"}

Reservation ==
    /\ \A p \in Prepares : isNew[p] => pc[p] \in Path
    /\ \A p \in Prepares : pc[p] = "fail" => isNew[p]
    /\ \A p \in Prepares : Reserving(p) => status \in {"in_progress", "completed"}
    /\ OneReservation

LEMMA ReservationInit == Init => Reservation
BY DEF Init, Reservation, OneReservation, Reserving, Requests

(* A step of p that reserves nothing keeps it if p itself goes on rightly. *)
LEMMA OwnStep ==
    ASSUME Typed, Reservation, NEW p \in Prepares,
           NEW s \in PrepareSteps \cup {"idle", "done"}, Goto(p, s),
           isNew' = isNew, status' = status,
           isNew[p] => s \in Path,
           s = "fail" => isNew[p],
           isNew[p] /\ s # "done" => pc[p] # "done"
    PROVE  Reservation'
<1> USE DEF Reservation
<1>1. \A q \in Prepares : q # p => pc'[q] = pc[q]
  BY DEF Typed, TypeOK, Goto, Requests
<1>2. pc'[p] = s
  BY DEF Typed, TypeOK, Goto, Requests
<1>3. ASSUME NEW q \in Prepares, Reserving(q)' PROVE Reserving(q)
  BY <1>1, <1>2, <1>3 DEF Reserving, Path
<1>4. OneReservation'
  BY <1>3 DEF OneReservation
<1> QED BY <1>1, <1>2, <1>3, <1>4

(* A step of anyone else keeps it if it reopens no key.                    *)
LEMMA OtherStep ==
    ASSUME Reservation, isNew' = isNew, \A p \in Prepares : pc'[p] = pc[p],
           status' = status \/ status' = "completed"
    PROVE  Reservation'
BY DEF Reservation, OneReservation, Reserving

LEMMA ReserveStep ==
    ASSUME Typed, Reservation, NEW p \in Prepares, Reserve(p),
           status \in {"absent", "failed"}
    PROVE  Reservation'
<1> USE DEF Reservation
<1>1. \A q \in Prepares : q # p => pc'[q] = pc[q] /\ isNew'[q] = isNew[q]
  BY DEF Reserve, Typed, TypeOK, Goto, Requests
<1>2. pc'[p] = "lock" /\ isNew'[p]
  BY DEF Reserve, Typed, TypeOK, Goto, Requests
<1>3. ASSUME NEW q \in Prepares, Reserving(q)' PROVE q = p
  <2>1. ~Reserving(q)
    OBVIOUS
  <2> QED BY <1>1, <1>3, <2>1 DEF Reserving
<1>4. OneReservation'
  BY <1>3 DEF OneReservation
<1>5. status' = "in_progress"
  BY DEF Reserve
<1> QED BY <1>1, <1>2, <1>4, <1>5 DEF Path

LEMMA FailStep ==
    ASSUME Typed, Reservation, NEW p \in Prepares, FailKey(p)
    PROVE  Reservation'
<1> USE DEF Reservation
<1>1. \A q \in Prepares : q # p => pc'[q] = pc[q]
  BY DEF FailKey, Move, Typed, TypeOK, Goto, Requests
<1>2. pc'[p] = "done" /\ isNew' = isNew
  BY DEF FailKey, Move, Typed, TypeOK, Goto, Requests, local
<1>3. Reserving(p)
  BY DEF FailKey, Move, Reserving
<1>4. ASSUME NEW q \in Prepares PROVE ~Reserving(q)'
  BY <1>1, <1>2, <1>3 DEF OneReservation, Reserving
<1>5. OneReservation'
  BY <1>4 DEF OneReservation
<1> QED BY <1>1, <1>2, <1>4, <1>5 DEF Path

LEMMA ReservationStep == Typed /\ Reservation /\ [Next]_vars => Reservation'
<1> SUFFICES ASSUME Typed, Reservation, [Next]_vars PROVE Reservation'
  OBVIOUS
<1>0. \A p \in Prepares : isNew[p] => pc[p] \in Path
  BY DEF Reservation
<1>1. ASSUME NEW p \in Prepares, PrepareStep(p) PROVE Reservation'
  <2>1. CASE ReadBase(p)
    BY <1>0, <2>1, OwnStep DEF ReadBase, Move, row, PrepareSteps, Path
  <2>2. CASE InsertKey(p)
    BY <1>0, <2>2, OwnStep, ReserveStep DEF InsertKey, row, local, PrepareSteps, Path
  <2>3. CASE ReadKey(p)
    BY <1>0, <2>3, OwnStep DEF ReadKey, Settled, row, PrepareSteps, Path
  <2>4. CASE Revive(p)
    BY <1>0, <2>4, OwnStep, ReserveStep DEF Revive, Revivable, row, local, PrepareSteps, Path
  <2>5. CASE Reread(p)
    BY <1>0, <2>5, OwnStep DEF Reread, Settled, row, PrepareSteps, Path
  <2>6. CASE Replay(p)
    BY <1>0, <2>6, OwnStep DEF Replay, Answer, row, local, PrepareSteps, Path
  <2>7. CASE GetToken(p)
    BY <1>0, <2>7, OwnStep DEF GetToken, Answer, row, local, PrepareSteps, Path
  <2>8. CASE LockForToken(p)
    BY <1>0, <2>8, OwnStep DEF LockForToken, row, local, PrepareSteps, Path
  <2>9. CASE SetToken(p)
    BY <1>0, <2>9, OwnStep DEF SetToken, Move, row, PrepareSteps, Path
  <2>10. CASE Undo(p)
    BY <1>0, <2>10, OwnStep DEF Undo, Move, row, local, PrepareSteps, Path
  <2>11. CASE FailKey(p)
    BY <2>11, FailStep
  <2> QED BY <1>1, <2>1, <2>2, <2>3, <2>4, <2>5, <2>6, <2>7, <2>8, <2>9, <2>10, <2>11 DEF PrepareStep
<1>2. ASSUME NEW c \in Commits, CommitStep(c) PROVE Reservation'
  <2>1. \A p \in Prepares : pc'[p] = pc[p]
    BY <1>2, ConstantsAssumption
    DEF CommitStep, LoadToken, AcquireLock, CheckBase, CreateRow, ActivateRow, CompleteKey,
        DeleteToken, Release, Move, Goto, Typed, TypeOK, Requests
  <2>2. isNew' = isNew /\ (status' = status \/ status' = "completed")
    BY <1>2 DEF CommitStep, LoadToken, AcquireLock, CheckBase, CreateRow, ActivateRow,
                CompleteKey, DeleteToken, Release, row, local
  <2> QED BY <2>1, <2>2, OtherStep
<1>3. ASSUME NEW p \in Prepares, Throw(p) PROVE Reservation'
  <2>1. PICK s \in {Handler(p), "done"} : Goto(p, s)
    BY <1>3 DEF Throw
  <2>2. s \in {"undo", "done"}
    BY <1>3, ConstantsAssumption DEF Throw, Handler, Guarded, Typed, Control, PrepareSteps
  <2>3. s = "undo" => pc[p] = "setToken"
    BY <1>3, <2>1, ConstantsAssumption DEF Throw, Handler
  <2> QED BY <1>3, <2>1, <2>2, <2>3, OwnStep DEF Throw, row, local, PrepareSteps, Path
<1>4. ASSUME NEW c \in Commits, Throw(c) PROVE Reservation'
  BY <1>4, ConstantsAssumption, OtherStep DEF Throw, Goto, row, local, Typed, TypeOK, Requests
<1>5. ASSUME NEW x \in Rivals, RivalBegin(x) \/ RivalDeploy(x) \/ RivalEnd(x) PROVE Reservation'
  BY <1>5, ConstantsAssumption, OtherStep
  DEF RivalBegin, RivalDeploy, RivalEnd, Move, Goto, row, local, Typed, TypeOK, Requests
<1>6. CASE (\E v \in Versions : Collect(v)) \/ TtlLapse \/ TokenLapse \/ UNCHANGED vars
  BY <1>6, OtherStep DEF Collect, TtlLapse, TokenLapse, vars, row, local
<1> QED BY <1>1, <1>2, <1>3, <1>4, <1>5, <1>6 DEF Next, Requests

(* Of the prepares that find the key absent or failed, one wins: there is  *)
(* never more than one that works on the reservation.                      *)
THEOREM ReservedByOne == Spec => []OneReservation
<1>1. Reservation => OneReservation
  BY DEF Reservation
<1> QED BY <1>1, TypedInit, TypedStep, ReservationInit, ReservationStep, PTL DEF Spec

-----------------------------------------------------------------------------
(* What a completed key says. A commit that activates has a deployment of  *)
(* the key in hand, and one that completes has it live, where it stays.    *)
Settlement ==
    /\ lived \subseteq 1..made
    /\ \A c \in Commits : pc[c] = "activate" => dep[c] \in 1..made /\ OfKey(dep[c])
    /\ \A c \in Commits : pc[c] = "complete" => dep[c] \in lived /\ OfKey(dep[c])
    /\ CompletedIsTrue

LEMMA SettlementInit == Init => Settlement
BY DEF Init, Settlement, CompletedIsTrue, Requests

(* A step that makes no deployment and goes to neither of the two keeps it *)
(* if the row tells the truth afterwards.                                  *)
LEMMA KeepStep ==
    ASSUME Settlement, made' = made, owner' = owner, lived' = lived,
           \A c \in Commits : pc'[c] \in {"activate", "complete"} =>
               pc'[c] = pc[c] /\ dep'[c] = dep[c],
           \/ status' = status /\ resource' = resource
           \/ status' # "completed" /\ resource' = 0
    PROVE  Settlement'
BY DEF Settlement, CompletedIsTrue, OfKey

(* A deployment made next to the others leaves those as they are.          *)
LEMMA MadeStep ==
    ASSUME Typed, Settlement, NEW who, MakeDeployment(who)
    PROVE  /\ made + 1 \in Versions /\ made' = made + 1
           /\ owner'[made + 1] = who
           /\ \A v \in 1..made : v \in 1..made' /\ v # made + 1 /\ owner'[v] = owner[v]
           /\ CompletedIsTrue /\ row' = row /\ lived \subseteq lived' => CompletedIsTrue'
<1> USE DEF Typed, TypeOK, Settlement, MakeDeployment, Versions
<1>1. made + 1 \in Versions /\ made' = made + 1 /\ owner'[made + 1] = who
  BY ConstantsAssumption
<1>2. \A v \in 1..made : v \in 1..made' /\ v # made + 1 /\ owner'[v] = owner[v]
  BY ConstantsAssumption
<1>3. ASSUME CompletedIsTrue, row' = row, lived \subseteq lived' PROVE CompletedIsTrue'
  BY <1>2, <1>3 DEF CompletedIsTrue, OfKey, row
<1> QED BY <1>1, <1>2, <1>3

LEMMA SettlementStep == Typed /\ Settlement /\ [Next]_vars => Settlement'
<1> SUFFICES ASSUME Typed, Settlement, [Next]_vars PROVE Settlement'
  OBVIOUS
<1>1. ASSUME NEW p \in Prepares, PrepareStep(p) PROVE Settlement'
  <2>1. made' = made /\ owner' = owner /\ lived' = lived
    BY <1>1 DEF PrepareStep, ReadBase, InsertKey, Reserve, ReadKey, Revive, Reread, Replay,
                Answer, GetToken, LockForToken, SetToken, Undo, FailKey, page
  <2>2. \A c \in Commits : pc'[c] = pc[c] /\ dep'[c] = dep[c]
    BY <1>1, ConstantsAssumption
    DEF PrepareStep, ReadBase, InsertKey, Reserve, ReadKey, Revive, Reread, Replay, Answer,
        GetToken, LockForToken, SetToken, Undo, FailKey, Settled, Move, Goto, local, Typed,
        TypeOK, Requests
  <2>3. \/ status' = status /\ resource' = resource
        \/ status' # "completed" /\ resource' = 0
    BY <1>1 DEF PrepareStep, ReadBase, InsertKey, Reserve, ReadKey, Revive, Reread, Replay,
                Answer, GetToken, LockForToken, SetToken, Undo, FailKey, Failable, row,
                Settlement, CompletedIsTrue
  <2> QED BY <2>1, <2>2, <2>3, KeepStep
<1>2. ASSUME NEW c \in Commits, LoadToken(c) \/ AcquireLock(c) \/ CheckBase(c)
                                \/ DeleteToken(c) \/ Release(c)
      PROVE  Settlement'
  <2>1. made' = made /\ owner' = owner /\ lived' = lived /\ dep' = dep
        /\ status' = status /\ resource' = resource
    BY <1>2 DEF LoadToken, AcquireLock, CheckBase, DeleteToken, Release, page, local, row
  <2>2. PICK s \in {"acquire", "check", "create", "release", "done"} : Goto(c, s)
    BY <1>2 DEF LoadToken, AcquireLock, CheckBase, DeleteToken, Release, Move
  <2>3. pc'[c] = s /\ \A d \in Commits : d # c => pc'[d] = pc[d]
    BY <2>2, CommitMove DEF CommitSteps, Guarded
  <2> QED BY <2>1, <2>3, KeepStep
<1>3. ASSUME NEW c \in Commits, CreateRow(c) PROVE Settlement'
  <2>1. MakeDeployment(load[c].body) /\ lived' = lived /\ row' = row
    BY <1>3 DEF CreateRow
  <2>2. load[c].body \in Bodies
    BY <1>3 DEF CreateRow, Move, Typed, Loaded, CommitSteps, Guarded, Payload
  <2>3. pc'[c] = "activate" /\ dep'[c] = made + 1
        /\ \A d \in Commits : d # c => pc'[d] = pc[d] /\ dep'[d] = dep[d]
    BY <1>3 DEF CreateRow, Move, Goto, Typed, TypeOK, Requests
  <2>4. dep'[c] \in 1..made' /\ owner'[made + 1] \in Bodies
    BY <2>1, <2>2, <2>3, MadeStep DEF Versions
  <2> QED BY <2>1, <2>3, <2>4, MadeStep DEF Settlement, OfKey
<1>4. ASSUME NEW c \in Commits, ActivateRow(c) PROVE Settlement'
  <2>1. /\ made' = made /\ owner' = owner /\ dep' = dep
        /\ status' = status /\ resource' = resource /\ lived \subseteq lived'
    BY <1>4 DEF ActivateRow, local, row
  <2>2. \A d \in Commits : d # c => pc'[d] = pc[d]
    BY <1>4 DEF ActivateRow, Goto, Typed, TypeOK, Requests
  <2>3. CASE MayActivate(c)
    <3>1. lived' = lived \cup {dep[c]} /\ pc'[c] = "complete"
      BY <1>4, <2>3 DEF ActivateRow, Goto, Typed, TypeOK, Requests
    <3> QED BY <1>4, <2>1, <2>2, <3>1 DEF ActivateRow, Settlement, CompletedIsTrue, OfKey
  <2>4. CASE ~MayActivate(c)
    <3>1. lived' = lived /\ pc'[c] = "release"
      BY <1>4, <2>4 DEF ActivateRow, Goto, Typed, TypeOK, Requests
    <3> QED BY <2>1, <2>2, <3>1, KeepStep
  <2> QED BY <2>3, <2>4
<1>5. ASSUME NEW c \in Commits, CompleteKey(c) PROVE Settlement'
  <2>1. made' = made /\ owner' = owner /\ lived' = lived /\ dep' = dep
        /\ status' = "completed" /\ resource' = dep[c]
    BY <1>5 DEF CompleteKey, Resource, page, local
  <2>2. pc'[c] = "delToken" /\ \A d \in Commits : d # c => pc'[d] = pc[d]
    BY <1>5 DEF CompleteKey, Move, Goto, Typed, TypeOK, Requests
  <2>3. dep[c] \in lived /\ OfKey(dep[c]) /\ dep[c] # 0
    BY <1>5 DEF CompleteKey, Move, Settlement
  <2> QED BY <2>1, <2>2, <2>3 DEF Settlement, CompletedIsTrue, OfKey
<1>6. ASSUME NEW r \in Requests, Throw(r) PROVE Settlement'
  <2>1. PICK s \in {"undo", "release", "done"} : Goto(r, s)
    BY <1>6 DEF Throw, Handler
  <2>2. pc'[r] = s /\ \A d \in Commits : d # r => pc'[d] = pc[d]
    BY <2>1 DEF Goto, Typed, TypeOK, Requests
  <2> QED BY <1>6, <2>2, KeepStep DEF Throw, row, page, local
<1>7. ASSUME NEW x \in Rivals, RivalBegin(x) \/ RivalEnd(x) PROVE Settlement'
  BY <1>7, RivalMove, KeepStep DEF RivalBegin, RivalEnd, Move, row, page, local, Requests
<1>8. ASSUME NEW x \in Rivals, RivalDeploy(x) PROVE Settlement'
  <2>1. \A c \in Commits : pc'[c] = pc[c]
    BY <1>8, RivalMove DEF RivalDeploy, Move, Requests
  <2>2. MakeDeployment("rival") /\ lived' = lived \cup {made + 1} /\ row' = row /\ dep' = dep
    BY <1>8 DEF RivalDeploy, local
  <2>3. lived' \subseteq 1..made'
    BY <2>2, MadeStep DEF Settlement, Versions, Typed, TypeOK
  <2>4. \A v \in 1..made : v \in 1..made' /\ (OfKey(v) => OfKey(v)')
    BY <2>2, MadeStep DEF OfKey
  <2>5. CompletedIsTrue'
    BY <2>2, MadeStep DEF Settlement
  <2> QED BY <2>1, <2>2, <2>3, <2>4, <2>5 DEF Settlement
<1>9. CASE (\E v \in Versions : Collect(v)) \/ TtlLapse \/ TokenLapse \/ UNCHANGED vars
  BY <1>9, KeepStep DEF Collect, TtlLapse, TokenLapse, vars, row, page, local
<1> QED BY <1>1, <1>2, <1>3, <1>4, <1>5, <1>6, <1>7, <1>8, <1>9 DEF Next, CommitStep

(* A completed key names a deployment that a commit of the key has put     *)
(* live, and no key that is not completed names one.                       *)
THEOREM CompletionTells == Spec => []CompletedIsTrue
<1>1. Settlement => CompletedIsTrue
  BY DEF Settlement
<1> QED BY <1>1, TypedInit, TypedStep, SettlementInit, SettlementStep, PTL DEF Spec

(* No step takes a key out of "completed": it is reserved again only when  *)
(* absent or failed, and marked failed only while in progress.             *)
THEOREM CompletionLasts == Spec => CompletedForGood
<1>1. ASSUME [Next]_vars PROVE [status = "completed" => status' = "completed"]_vars
  <2>1. ASSUME NEW p \in Prepares, PrepareStep(p), status = "completed"
        PROVE  status' = "completed"
    BY <2>1 DEF PrepareStep, ReadBase, InsertKey, ReadKey, Revive, Revivable, Reread, Replay,
                Answer, GetToken, LockForToken, SetToken, Undo, FailKey, Failable, row
  <2>2. ASSUME NEW c \in Commits, CommitStep(c), status = "completed"
        PROVE  status' = "completed"
    BY <2>2 DEF CommitStep, LoadToken, AcquireLock, CheckBase, CreateRow, ActivateRow,
                CompleteKey, DeleteToken, Release, row
  <2>3. ASSUME NEW r \in Requests, Throw(r), status = "completed" PROVE status' = "completed"
    BY <2>3 DEF Throw, row
  <2>4. ASSUME NEW x \in Rivals, RivalBegin(x) \/ RivalDeploy(x) \/ RivalEnd(x),
               status = "completed"
        PROVE  status' = "completed"
    BY <2>4 DEF RivalBegin, RivalDeploy, RivalEnd, row
  <2>5. ASSUME (\E v \in Versions : Collect(v)) \/ TtlLapse \/ TokenLapse,
               status = "completed"
        PROVE  status' = "completed"
    BY <2>5 DEF Collect, TtlLapse, TokenLapse, row
  <2> QED BY <1>1, <2>1, <2>2, <2>3, <2>4, <2>5 DEF Next
<1> QED BY <1>1, PTL DEF Spec, CompletedForGood
-----------------------------------------------------------------------------
(* That the requests of one key put at most one deployment live when the   *)
(* client waits for answers, whatever else throws, dies or expires.        *)

(* No request is sent into a commit and no commit into a request, no       *)
(* deployment of the key is collected, and the completion of the key does  *)
(* not fail. The lock and the token may expire and any other step fail.    *)
Patient == ~DoubleSubmits /\ ~Collects /\ "complete" \notin FaultAt

KeyLive == {v \in lived : OfKey(v)}
Active(r) == pc[r] \notin {"idle", "done"}

(* A commit under way is the only request under way.                       *)
Alone == \A c \in Commits : Active(c) => \A r \in Requests \ {c} : ~Active(r)

(* What a base version, or a token, says is never ahead of the page.       *)
Past ==
    /\ \A p \in Prepares : base[p] <= made
    /\ token # None => token.base <= made
    /\ \A c \in Commits :
          pc[c] = "activate" /\ token # None => token.base < dep[c]

(* Once a deployment of the key is live the key is completed or about to   *)
(* be, every token and payload still around is stale, and no prepare gets  *)
(* past the replay of the answer.                                          *)
Spent ==
    \A v \in KeyLive :
        /\ status = "completed" \/ \E c \in Commits : pc[c] = "complete"
        /\ token # None => token.base < v
        /\ \A p \in Prepares : pc[p] \in {"idle", "insert", "read", "replay", "done"}
        /\ \A c \in Commits : pc[c] \in {"acquire", "check"} => load[c].base < v
        /\ \A c \in Commits : pc[c] \notin {"create", "activate"}
        /\ KeyLive = {v}

Once == gone = {} /\ Alone /\ Past /\ Spent

LEMMA OnceInit == Init => Once
BY ConstantsAssumption
DEF Init, Once, Alone, Past, Spent, KeyLive, Active, Requests

(* A request under way that moves on, or ends, leaves the others alone.    *)
LEMMA AloneStep ==
    ASSUME Alone, NEW r \in Requests, Active(r),
           \A q \in Requests : q # r => pc'[q] = pc[q]
    PROVE  Alone'
BY DEF Alone, Active, Requests

LEMMA SameLive ==
    ASSUME lived' = lived, owner' = owner
    PROVE  KeyLive' = KeyLive
BY DEF KeyLive, OfKey

(* Steps of a prepare: no commit is under way.                             *)
LEMMA OncePrepare ==
    ASSUME Patient, Typed, Settlement, Once, NEW p \in Prepares, PrepareStep(p)
    PROVE  Once'
<1> USE DEF Once
<1>1. gone' = gone /\ made' = made /\ owner' = owner /\ lived' = lived
  BY DEF PrepareStep, ReadBase, InsertKey, Reserve, ReadKey, Revive, Reread, Replay,
         Answer, GetToken, LockForToken, SetToken, Undo, FailKey, page
<1>2. KeyLive' = KeyLive
  BY <1>1, SameLive
<1>3. \A r \in Requests : r # p => pc'[r] = pc[r]
  BY DEF PrepareStep, ReadBase, InsertKey, Reserve, ReadKey, Revive, Reread, Replay,
         Answer, GetToken, LockForToken, SetToken, Undo, FailKey, Settled, Move, Goto,
         Typed, TypeOK
<1>4. \A c \in Commits : c # p /\ ~Active(c)
  <2>1. CASE ReadBase(p)
    BY <2>1, ConstantsAssumption DEF ReadBase, MaySend, Patient, Active
  <2>2. CASE ~ReadBase(p)
    <3>1. Active(p)
      BY <2>2 DEF PrepareStep, InsertKey, ReadKey, Revive, Reread, Replay, GetToken,
                  LockForToken, SetToken, Undo, FailKey, Move, Active
    <3> QED BY <3>1, ConstantsAssumption DEF Alone, Requests
  <2> QED BY <2>1, <2>2
<1>5. \A c \in Commits : pc'[c] = pc[c] /\ pc[c] \in {"idle", "done"}
  BY <1>3, <1>4 DEF Requests, Active
<1>6. Alone'
  BY <1>5 DEF Alone, Active
<1>7. Past'
  <2>1. \A q \in Prepares : base'[q] <= made
    BY DEF PrepareStep, ReadBase, InsertKey, Reserve, ReadKey, Revive, Reread, Replay,
           Answer, GetToken, LockForToken, SetToken, Undo, FailKey, local, Past, Typed, TypeOK
  <2>2. token' = token \/ token' = [base |-> base[p], body |-> Body[p]]
    BY DEF PrepareStep, ReadBase, InsertKey, Reserve, ReadKey, Revive, Reread, Replay,
           Answer, GetToken, LockForToken, SetToken, Undo, FailKey
  <2>3. token' # None => token'.base <= made
    BY <2>2 DEF Past
  <2> QED BY <1>1, <1>5, <2>1, <2>3 DEF Past
<1>8. ASSUME NEW v \in KeyLive
      PROVE  /\ status' = "completed" /\ token' = token
             /\ pc'[p] \in {"idle", "insert", "read", "replay", "done"}
  <2>1. status = "completed" /\ resource # 0
    BY <1>5, <1>8 DEF Spent, Settlement, CompletedIsTrue
  <2>2. pc[p] \in {"idle", "insert", "read", "replay", "done"}
    BY <1>8 DEF Spent
  <2>3. ReadBase(p) \/ InsertKey(p) \/ ReadKey(p) \/ Replay(p)
    BY <2>2 DEF PrepareStep, Revive, Reread, GetToken, LockForToken, SetToken, Undo, FailKey, Move
  <2>4. PICK s \in {"insert", "read", "replay", "done"} : Goto(p, s)
    BY <2>1, <2>3 DEF ReadBase, InsertKey, ReadKey, Settled, Replay, Answer, Move
  <2>5. pc'[p] = s
    BY <2>4 DEF Goto, Typed, TypeOK, Requests
  <2> QED BY <2>1, <2>3, <2>5 DEF ReadBase, InsertKey, ReadKey, Replay, Answer, row
<1>9. Spent'
  BY <1>2, <1>3, <1>5, <1>8 DEF Spent, Requests
<1> QED BY <1>1, <1>6, <1>7, <1>9

(* What a step of a commit leaves alone; nobody else is under way.         *)
LEMMA CommitFrame ==
    ASSUME Patient, Typed, Once, NEW c \in Commits, CommitStep(c)
    PROVE  /\ gone' = gone /\ base' = base
           /\ \A r \in Requests : r # c => pc'[r] = pc[r] /\ pc[r] \in {"idle", "done"}
           /\ \A p \in Prepares : pc'[p] \in {"idle", "done"}
           /\ Alone'
<1> USE DEF Once
<1>1. gone' = gone /\ base' = base
  BY DEF CommitStep, LoadToken, AcquireLock, CheckBase, CreateRow, MakeDeployment,
         ActivateRow, CompleteKey, DeleteToken, Release, page, local
<1>2. \A r \in Requests : r # c => pc'[r] = pc[r]
  BY DEF CommitStep, LoadToken, AcquireLock, CheckBase, CreateRow, ActivateRow,
         CompleteKey, DeleteToken, Release, Move, Goto, Typed, TypeOK
<1>3. \A r \in Requests : r # c => pc[r] \in {"idle", "done"}
  <2>1. CASE LoadToken(c)
    BY <2>1 DEF LoadToken, MaySend, Patient
  <2>2. CASE ~LoadToken(c)
    <3>1. Active(c)
      BY <2>2 DEF CommitStep, AcquireLock, CheckBase, CreateRow, ActivateRow,
                  CompleteKey, DeleteToken, Release, Move, Active
    <3> QED BY <3>1 DEF Alone, Active
  <2> QED BY <2>1, <2>2
<1>4. \A p \in Prepares : p \in Requests /\ p # c
  BY ConstantsAssumption DEF Requests
<1>5. Alone'
  BY <1>2, <1>3 DEF Alone, Active, Requests
<1> QED BY <1>1, <1>2, <1>3, <1>4, <1>5

LEMMA OnceCommit ==
    ASSUME Patient, Typed, Settlement, Once, NEW c \in Commits, CommitStep(c)
    PROVE  Once'
<1> USE DEF Once
<1>0. gone' = {} /\ base' = base /\ Alone' /\ \A p \in Prepares : pc'[p] \in {"idle", "done"}
  BY CommitFrame
<1>1. \A d \in Commits : d # c => pc'[d] = pc[d] /\ pc[d] \in {"idle", "done"}
  BY CommitFrame DEF Requests
<1>2. \A d \in Commits : pc[d] \notin {"idle", "done"} => d = c
  BY <1>1
<1>3. ASSUME LoadToken(c) PROVE Past' /\ Spent'
  <2>1. pc[c] = "idle" /\ pc'[c] = "acquire" /\ load'[c] = token /\ token # None
    BY <1>3 DEF LoadToken, Move, Goto, Typed, TypeOK, Requests
  <2>2. token' = token /\ made' = made /\ dep' = dep /\ status' = status /\ KeyLive' = KeyLive
    BY <1>3, SameLive DEF LoadToken, page, row
  <2>3. Past'
    BY <1>0, <1>1, <2>1, <2>2 DEF Past
  <2>4. Spent'
    BY <1>0, <1>1, <2>1, <2>2 DEF Spent
  <2> QED BY <2>3, <2>4
<1>4. ASSUME AcquireLock(c) \/ Release(c) PROVE Past' /\ Spent'
  <2>1. /\ pc[c] \in {"acquire", "release"} /\ pc'[c] \in {"check", "done"}
        /\ pc'[c] = "check" => pc[c] = "acquire"
    BY <1>4 DEF AcquireLock, Release, Move, Goto, Typed, TypeOK, Requests
  <2>2. /\ token' = token /\ made' = made /\ dep' = dep /\ status' = status /\ load' = load
        /\ KeyLive' = KeyLive
    BY <1>4, SameLive DEF AcquireLock, Release, page, row, local
  <2>3. Past'
    BY <1>0, <1>1, <2>1, <2>2 DEF Past
  <2>4. Spent'
    BY <1>0, <1>1, <2>1, <2>2 DEF Spent
  <2> QED BY <2>3, <2>4
<1>5. ASSUME CheckBase(c) PROVE Past' /\ Spent'
  <2>1. pc[c] = "check" /\ pc'[c] = (IF Stale(c) THEN "release" ELSE "create")
    BY <1>5 DEF CheckBase, Move, Goto, Typed, TypeOK, Requests
  <2>2. /\ token' = token /\ made' = made /\ dep' = dep /\ status' = status
        /\ KeyLive' = KeyLive
    BY <1>5, SameLive DEF CheckBase, page, row, local
  <2>3. Past'
    BY <1>0, <1>1, <2>1, <2>2 DEF Past
  <2>4. ASSUME NEW v \in KeyLive PROVE Stale(c)
    <3>1. load[c].base < v /\ v <= made
      BY <2>1 DEF Spent, KeyLive, Settlement
    <3>2. load[c].base \in Nat /\ v \in Nat /\ made \in Nat
      BY <2>1 DEF Typed, TypeOK, Loaded, CommitSteps, Guarded, Payload, KeyLive, Versions
    <3> QED BY <3>1, <3>2 DEF Stale
  <2>5. Spent'
    BY <1>0, <1>1, <2>1, <2>2, <2>4 DEF Spent
  <2> QED BY <2>3, <2>5
<1>6. ASSUME CreateRow(c) PROVE Past' /\ Spent'
  <2>1. pc[c] = "create" /\ pc'[c] = "activate" /\ dep'[c] = made + 1
    BY <1>6 DEF CreateRow, Move, Goto, Typed, TypeOK, Requests
  <2>2. token' = token /\ made' = made + 1 /\ made \in Nat
    BY <1>6 DEF CreateRow, MakeDeployment, Typed, TypeOK
  <2>3. token # None => token.base \in Nat
    BY DEF Typed, TypeOK, Payload
  <2>4. \A p \in Prepares : base[p] \in Nat
    BY DEF Typed, TypeOK
  <2>5. Past'
    BY <1>0, <1>1, <2>1, <2>2, <2>3, <2>4 DEF Past
  <2>6. KeyLive = {}
    BY <2>1 DEF Spent
  <2>7. lived' = lived /\ \A v \in lived : owner'[v] = owner[v]
    BY <1>6, MadeStep DEF CreateRow, Settlement
  <2>8. Spent'
    BY <2>6, <2>7 DEF Spent, KeyLive, OfKey
  <2> QED BY <2>5, <2>8
<1>7. ASSUME ActivateRow(c) PROVE Past' /\ Spent'
  <2>1. pc[c] = "activate" /\ token' = token /\ made' = made /\ dep' = dep /\ owner' = owner
    BY <1>7 DEF ActivateRow, local
  <2>2. pc'[c] \in {"complete", "release"}
    BY <1>7 DEF ActivateRow, Goto, Typed, TypeOK, Requests
  <2>3. KeyLive = {}
    BY <2>1 DEF Spent
  <2>4. Past'
    BY <1>0, <1>1, <2>1, <2>2 DEF Past
  <2>5. CASE MayActivate(c)
    <3>1. pc'[c] = "complete" /\ lived' = lived \cup {dep[c]}
      BY <1>7, <2>5 DEF ActivateRow, Goto, Typed, TypeOK, Requests
    <3>2. KeyLive' \subseteq {dep[c]}
      BY <2>1, <2>3, <3>1 DEF KeyLive, OfKey
    <3>3. token # None => token.base < dep[c]
      BY <2>1 DEF Past
    <3> QED BY <1>0, <1>1, <2>1, <2>4, <3>1, <3>2, <3>3 DEF Spent
  <2>6. CASE ~MayActivate(c)
    <3>1. lived' = lived
      BY <1>7, <2>6 DEF ActivateRow
    <3> QED BY <2>1, <2>3, <2>4, <3>1, SameLive DEF Spent
  <2> QED BY <2>5, <2>6
<1>8. ASSUME CompleteKey(c) \/ DeleteToken(c) PROVE Past' /\ Spent'
  <2>1. pc[c] \in {"complete", "delToken"} /\ pc'[c] \in {"delToken", "release"}
    BY <1>8 DEF CompleteKey, DeleteToken, Move, Goto, Typed, TypeOK, Requests
  <2>2. /\ token' \in {token, None} /\ made' = made /\ dep' = dep
        /\ KeyLive' = KeyLive
    BY <1>8, SameLive DEF CompleteKey, DeleteToken, page, local
  <2>3. status' = "completed" \/ (status' = status /\ pc[c] # "complete")
    BY <1>8 DEF CompleteKey, DeleteToken, Move, row
  <2>4. Past'
    BY <1>0, <1>1, <2>1, <2>2 DEF Past
  <2>5. Spent'
    BY <1>0, <1>1, <1>2, <2>1, <2>2, <2>3 DEF Spent
  <2> QED BY <2>4, <2>5
<1> QED BY <1>0, <1>3, <1>4, <1>5, <1>6, <1>7, <1>8 DEF CommitStep

LEMMA OnceThrow ==
    ASSUME Patient, Typed, Once, NEW r \in Requests, Throw(r)
    PROVE  Once'
<1> USE DEF Once
<1>1. PICK s \in {Handler(r), "done"} : Goto(r, s)
  BY DEF Throw
<1>2. pc'[r] = s /\ \A q \in Requests : q # r => pc'[q] = pc[q]
  BY <1>1 DEF Goto, Typed, TypeOK
<1>3. Active(r) /\ pc[r] # "complete"
  BY ConstantsAssumption DEF Throw, Patient, Active, PrepareSteps, CommitSteps, Guarded
<1>4. s \in {"undo", "release", "done"} /\ (s = "undo" => pc[r] = "setToken")
  BY DEF Handler
<1>5. r \in Commits => s # "undo"
  BY <1>4 DEF Typed, Control, CommitSteps, Guarded
<1>6. r \in Prepares => s # "release"
  BY DEF Typed, Control, PrepareSteps, Handler, Guarded
<1>7. Alone'
  BY <1>2, <1>3, AloneStep
<1>8. /\ gone' = gone /\ base' = base /\ token' = token /\ made' = made /\ dep' = dep
      /\ status' = status /\ load' = load /\ KeyLive' = KeyLive
  BY SameLive DEF Throw, page, row, local
<1>9. Past'
  BY <1>2, <1>4, <1>8 DEF Past, Requests
<1>10. \A p \in Prepares : pc[p] # "setToken" => pc'[p] \in {pc[p], "done"}
  BY <1>2, <1>4, <1>6 DEF Requests
<1>11. \A d \in Commits : /\ pc'[d] \in {pc[d], "release", "done"}
                          /\ pc[d] = "complete" => pc'[d] = "complete"
  BY <1>2, <1>3, <1>4, <1>5 DEF Requests
<1>12. Spent'
  BY <1>8, <1>10, <1>11 DEF Spent
<1> QED BY <1>7, <1>8, <1>9, <1>12

LEMMA OnceRival ==
    ASSUME Typed, Settlement, Once, NEW x \in Rivals,
           RivalBegin(x) \/ RivalDeploy(x) \/ RivalEnd(x)
    PROVE  Once'
<1> USE DEF Once
<1>1. \A r \in Requests : pc'[r] = pc[r]
  BY RivalMove DEF RivalBegin, RivalDeploy, RivalEnd, Move, Requests
<1>2. /\ gone' = gone /\ base' = base /\ token' = token /\ dep' = dep
      /\ status' = status /\ load' = load
  BY DEF RivalBegin, RivalDeploy, RivalEnd, page, row, local
<1>3. made \in Nat /\ made' \in {made, made + 1}
  BY DEF RivalBegin, RivalDeploy, RivalEnd, MakeDeployment, page, Typed, TypeOK
<1>4. KeyLive' = KeyLive
  <2>1. CASE RivalDeploy(x)
    <3>1. MakeDeployment("rival") /\ lived' = lived \cup {made + 1}
      BY <2>1 DEF RivalDeploy
    <3>2. owner'[made + 1] \notin Bodies /\ made + 1 \notin lived
      BY <3>1, MadeStep, ConstantsAssumption DEF Settlement
    <3>3. \A v \in lived : owner'[v] = owner[v]
      BY <3>1, MadeStep DEF Settlement
    <3> QED BY <3>1, <3>2, <3>3 DEF KeyLive, OfKey
  <2>2. CASE ~RivalDeploy(x)
    BY <2>2, SameLive DEF RivalBegin, RivalEnd, page
  <2> QED BY <2>1, <2>2
<1>5. Alone'
  BY <1>1 DEF Alone, Active, Requests
<1>6. (\A p \in Prepares : base[p] \in Nat) /\ (token # None => token.base \in Nat)
  BY DEF Typed, TypeOK, Payload
<1>7. Past'
  BY <1>1, <1>2, <1>3, <1>6 DEF Past, Requests
<1>8. Spent'
  BY <1>1, <1>2, <1>4 DEF Spent, Requests
<1> QED BY <1>2, <1>5, <1>7, <1>8

LEMMA OnceStep ==
    ASSUME Patient
    PROVE  Typed /\ Settlement /\ Once /\ [Next]_vars => Once'
<1> SUFFICES ASSUME Typed, Settlement, Once, [Next]_vars PROVE Once'
  OBVIOUS
<1>1. CASE (\E v \in Versions : Collect(v)) \/ TtlLapse \/ TokenLapse \/ UNCHANGED vars
  <2>1. /\ gone' = gone /\ base' = base /\ token' \in {token, None} /\ made' = made
        /\ dep' = dep /\ status' = status /\ load' = load /\ pc' = pc /\ KeyLive' = KeyLive
    BY <1>1, SameLive DEF Collect, Patient, TtlLapse, TokenLapse, vars, row, page, local
  <2> QED BY <2>1 DEF Once, Alone, Active, Past, Spent
<1> QED
  BY <1>1, OncePrepare, OnceCommit, OnceThrow, OnceRival DEF Next

LEMMA OnceCounts == Once => AtMostOnce
<1> SUFFICES ASSUME Once PROVE Cardinality(KeyLive) <= 1
  BY DEF AtMostOnce, KeyLive
<1>1. CASE KeyLive = {}
  BY <1>1, FS_EmptySet
<1>2. CASE KeyLive # {}
  <2>1. PICK v : KeyLive = {v}
    BY <1>2 DEF Once, Spent
  <2> QED BY <2>1, FS_Singleton
<1> QED BY <1>1, <1>2

(* All the requests of one key put at most one deployment live, if the     *)
(* client waits for answers and the completion of the key does not fail:   *)
(* a repeated prepare is answered with what is live, and a token that has  *)
(* outlived its commit is stale.                                           *)
THEOREM LiveOnce ==
    ASSUME Patient PROVE Spec => []AtMostOnce
<1>1. Init => Typed /\ Settlement /\ Once
  BY TypedInit, SettlementInit, OnceInit
<1>2. Typed /\ Settlement /\ Once /\ [Next]_vars => (Typed /\ Settlement /\ Once)'
  BY TypedStep, SettlementStep, OnceStep
<1> QED BY <1>1, <1>2, OnceCounts, PTL DEF Spec
============================================================================
