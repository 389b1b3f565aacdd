-------------------------- MODULE ActivationProofs --------------------------
(***************************************************************************)
(* Theorems about Activation, for every set of operations, every number of *)
(* versions and every placement of faults.                                 *)
(***************************************************************************)
EXTENDS Activation, TLAPS

(* The steps an op of each kind goes through.                              *)
Ended == {"idle", "done", "dead"}
StepsOf == [
    prepare  |-> Ended \cup {"prepGet", "prepLock", "prepToken", "prepUndo"},
    upload   |-> Ended \cup {"acquire"} \cup (Guarded \ {"errSelect", "errMark"}),
    build    |-> Ended \cup {"acquire", "jobSelect", "jobMark"} \cup
                    (Guarded \ {"check", "complete"}),
    rollback |-> Ended \cup {"acquire", "manifest", "assert", "txRead", "txWrite",
                             "setActive", "publish", "release"}]

Control == \A o \in Ops : pc[o] \in StepsOf[Kind[o]]

(* Where the version of an op is that of a row it has read or inserted.    *)
HasRow == {"tree", "manifest", "newer", "assert", "txRead", "txWrite",
           "setActive", "publish", "complete"}

Located ==
    \A o \in Ops :
        /\ Kind[o] = "rollback" /\ pc[o] # "idle" => ver[o] \in Versions
        /\ pc[o] \in HasRow \cup {"insert"} => ver[o] \in Versions
        /\ pc[o] \in {"errMark", "jobMark"} => cur[o] \in Versions

Typed == TypeOK /\ Control /\ Located

LEMMA HandlerStep ==
    ASSUME TypeOK, Control, NEW o \in Ops, pc[o] \in Running
    PROVE  /\ Handler(o) \in StepsOf[Kind[o]]
           /\ Handler(o) \notin HasRow \cup {"insert", "errMark", "jobMark", "idle"}
<1>0. Kind[o] \in Kinds BY ConstantsAssumption
<1>1. CASE Kind[o] = "prepare"
  BY <1>1 DEF Control, Handler, InLock, StepsOf, Ended, Guarded, InTry, Running, Outside, HasRow, AfterLock
<1>2. CASE Kind[o] = "upload"
  BY <1>2 DEF Control, Handler, InLock, StepsOf, Ended, Guarded, InTry, Running, Outside, HasRow, AfterLock
<1>3. CASE Kind[o] = "build"
  BY <1>3 DEF Control, Handler, InLock, StepsOf, Ended, Guarded, InTry, Running, Outside, HasRow, AfterLock
<1>4. CASE Kind[o] = "rollback"
  BY <1>4 DEF Control, Handler, InLock, StepsOf, Ended, Guarded, InTry, Running, Outside, HasRow, AfterLock
<1> QED BY <1>0, <1>1, <1>2, <1>3, <1>4 DEF Kinds

LEMMA HolderType ==
    ASSUME TypeOK, Located, NEW o \in Ops, pc[o] # "idle"
    PROVE  Holder(o) \in Holders
BY ConstantsAssumption DEF TypeOK, Located, Holder, Holders

LEMMA TypedInit == Init => Typed
<1> SUFFICES ASSUME Init PROVE Typed
  OBVIOUS
<1>1. TypeOK
  BY ConstantsAssumption
  DEF Init, TypeOK, Row, SeedRow, NoRow, Statuses, Versions, MaybeVersion, Steps
<1>2. Control /\ Located
  BY ConstantsAssumption DEF Init, Control, Located, StepsOf, Ended, Kinds, HasRow
<1> QED BY <1>1, <1>2 DEF Typed

LEMMA PcMove ==
    ASSUME TypeOK, Control, NEW o \in Ops, NEW s \in StepsOf[Kind[o]], Goto(o, s)
    PROVE  pc' \in [Ops -> Steps] /\ Control'
<1>0. Kind[o] \in Kinds
  BY ConstantsAssumption
<1>1. s \in Steps
  BY <1>0 DEF Kinds, StepsOf, Steps, Running, Guarded, Outside, Ended
<1> QED BY <1>1 DEF TypeOK, Control, Goto

LEMMA TypedStep == Typed /\ [Next]_vars => Typed'
<1> SUFFICES ASSUME Typed, [Next]_vars PROVE Typed'
  OBVIOUS
<1> USE ConstantsAssumption DEF Typed
<1>1. ASSUME NEW o \in Ops, PrepareBegin(o) PROVE Typed'
  <2>1. pc' \in [Ops -> Steps] /\ Control'
    BY <1>1, PcMove, HandlerStep DEF PrepareBegin, Fail, Move, TypeOK, Control, StepsOf, Ended, Kinds, Guarded, Running, Outside
  <2>2. TypeOK'
    BY <1>1, <2>1, HolderType DEF PrepareBegin, Fail, Move, Goto, page, local, TypeOK, MaybeVersion, Versions, Row, Statuses, NewRow
  <2>3. Located'
    BY <1>1, HandlerStep DEF PrepareBegin, Fail, Move, Goto, page, local, TypeOK, Located, HasRow, Running, Guarded, Outside, MaybeVersion, Versions
  <2> QED BY <2>1, <2>2, <2>3
<1>2. ASSUME NEW o \in Ops, PrepareGet(o) PROVE Typed'
  <2>1. pc' \in [Ops -> Steps] /\ Control'
    BY <1>2, PcMove, HandlerStep DEF PrepareGet, Fail, Move, TypeOK, Control, StepsOf, Ended, Kinds, Guarded, Running, Outside
  <2>2. TypeOK'
    BY <1>2, <2>1, HolderType DEF PrepareGet, Fail, Move, Goto, page, local, TypeOK, MaybeVersion, Versions, Row, Statuses, NewRow
  <2>3. Located'
    BY <1>2, HandlerStep DEF PrepareGet, Fail, Move, Goto, page, local, TypeOK, Located, HasRow, Running, Guarded, Outside, MaybeVersion, Versions
  <2> QED BY <2>1, <2>2, <2>3
<1>3. ASSUME NEW o \in Ops, PrepareLock(o) PROVE Typed'
  <2>1. pc' \in [Ops -> Steps] /\ Control'
    BY <1>3, PcMove, HandlerStep DEF PrepareLock, Acquire, Acquirable, Refused, Fail, Move, TypeOK, Control, StepsOf, Ended, Kinds, Guarded, Running, Outside
  <2>2. TypeOK'
    BY <1>3, <2>1, HolderType DEF PrepareLock, Acquire, Acquirable, Refused, Fail, Move, Goto, page, local, TypeOK, MaybeVersion, Versions, Row, Statuses, NewRow
  <2>3. Located'
    BY <1>3, HandlerStep DEF PrepareLock, Acquire, Acquirable, Refused, Fail, Move, Goto, page, local, TypeOK, Located, HasRow, Running, Guarded, Outside, MaybeVersion, Versions
  <2> QED BY <2>1, <2>2, <2>3
<1>4. ASSUME NEW o \in Ops, PrepareToken(o) PROVE Typed'
  <2>1. pc' \in [Ops -> Steps] /\ Control'
    BY <1>4, PcMove, HandlerStep DEF PrepareToken, Fail, Move, TypeOK, Control, StepsOf, Ended, Kinds, Guarded, Running, Outside
  <2>2. TypeOK'
    BY <1>4, <2>1, HolderType DEF PrepareToken, Fail, Move, Goto, page, local, TypeOK, MaybeVersion, Versions, Row, Statuses, NewRow
  <2>3. Located'
    BY <1>4, HandlerStep DEF PrepareToken, Fail, Move, Goto, page, local, TypeOK, Located, HasRow, Running, Guarded, Outside, MaybeVersion, Versions
  <2> QED BY <2>1, <2>2, <2>3
<1>5. ASSUME NEW o \in Ops, PrepareUndo(o) PROVE Typed'
  <2>1. pc' \in [Ops -> Steps] /\ Control'
    BY <1>5, PcMove, HandlerStep DEF PrepareUndo, ReleaseLock, Fail, Move, TypeOK, Control, StepsOf, Ended, Kinds, Guarded, Running, Outside
  <2>2. TypeOK'
    BY <1>5, <2>1, HolderType DEF PrepareUndo, ReleaseLock, Fail, Move, Goto, page, local, TypeOK, MaybeVersion, Versions, Row, Statuses, NewRow
  <2>3. Located'
    BY <1>5, HandlerStep DEF PrepareUndo, ReleaseLock, Fail, Move, Goto, page, local, TypeOK, Located, HasRow, Running, Guarded, Outside, MaybeVersion, Versions
  <2> QED BY <2>1, <2>2, <2>3
<1>6. ASSUME NEW o \in Ops, BeginUpload(o) PROVE Typed'
  <2>1. pc' \in [Ops -> Steps] /\ Control'
    BY <1>6, PcMove, HandlerStep DEF BeginUpload, Fail, Move, TypeOK, Control, StepsOf, Ended, Kinds, Guarded, Running, Outside
  <2>2. TypeOK'
    BY <1>6, <2>1, HolderType DEF BeginUpload, Fail, Move, Goto, page, local, TypeOK, MaybeVersion, Versions, Row, Statuses, NewRow
  <2>3. Located'
    BY <1>6, HandlerStep DEF BeginUpload, Fail, Move, Goto, page, local, TypeOK, Located, HasRow, Running, Guarded, Outside, MaybeVersion, Versions
  <2> QED BY <2>1, <2>2, <2>3
<1>7. ASSUME NEW o \in Ops, BeginBuild(o) PROVE Typed'
  <2>1. pc' \in [Ops -> Steps] /\ Control'
    BY <1>7, PcMove, HandlerStep DEF BeginBuild, Fail, Move, TypeOK, Control, StepsOf, Ended, Kinds, Guarded, Running, Outside
  <2>2. TypeOK'
    BY <1>7, <2>1, HolderType DEF BeginBuild, Fail, Move, Goto, page, local, TypeOK, MaybeVersion, Versions, Row, Statuses, NewRow
  <2>3. Located'
    BY <1>7, HandlerStep DEF BeginBuild, Fail, Move, Goto, page, local, TypeOK, Located, HasRow, Running, Guarded, Outside, MaybeVersion, Versions
  <2> QED BY <2>1, <2>2, <2>3
<1>8. ASSUME NEW o \in Ops, NEW v \in Versions, BeginRollback(o, v) PROVE Typed'
  <2>1. pc' \in [Ops -> Steps] /\ Control'
    BY <1>8, PcMove, HandlerStep DEF BeginRollback, Fail, Move, TypeOK, Control, StepsOf, Ended, Kinds, Guarded, Running, Outside
  <2>2. TypeOK'
    BY <1>8, <2>1, HolderType DEF BeginRollback, Fail, Move, Goto, page, local, TypeOK, MaybeVersion, Versions, Row, Statuses, NewRow
  <2>3. Located'
    BY <1>8, HandlerStep DEF BeginRollback, Fail, Move, Goto, page, local, TypeOK, Located, HasRow, Running, Guarded, Outside, MaybeVersion, Versions
  <2> QED BY <2>1, <2>2, <2>3
<1>9. ASSUME NEW o \in Ops, AcquireLock(o) PROVE Typed'
  <2>1. pc' \in [Ops -> Steps] /\ Control'
    BY <1>9, PcMove, HandlerStep DEF AcquireLock, Acquire, Acquirable, Refused, Fail, Move, TypeOK, Control, StepsOf, Ended, Kinds, Guarded, Running, Outside
  <2>2. TypeOK'
    BY <1>9, <2>1, HolderType DEF AcquireLock, Acquire, Acquirable, Refused, Fail, Move, Goto, page, local, TypeOK, MaybeVersion, Versions, Row, Statuses, NewRow
  <2>3. Located'
    BY <1>9, HandlerStep DEF AcquireLock, Acquire, Acquirable, Refused, Fail, Move, Goto, page, local, TypeOK, Located, HasRow, Running, Guarded, Outside, MaybeVersion, Versions
  <2> QED BY <2>1, <2>2, <2>3
<1>10. ASSUME NEW o \in Ops, Heartbeat(o) PROVE Typed'
  <2>1. pc' \in [Ops -> Steps] /\ Control'
    BY <1>10, PcMove, HandlerStep DEF Heartbeat, Acquire, Acquirable, InLock, Guarded, Fail, Move, TypeOK, Control, StepsOf, Ended, Kinds, Running, Outside
  <2>2. TypeOK'
    BY <1>10, <2>1, HolderType DEF Heartbeat, Acquire, Acquirable, InLock, Guarded, Fail, Move, Goto, page, local, TypeOK, MaybeVersion, Versions, Row, Statuses, NewRow
  <2>3. Located'
    BY <1>10, HandlerStep DEF Heartbeat, Acquire, Acquirable, InLock, Guarded, Fail, Move, Goto, page, local, TypeOK, Located, HasRow, Running, Outside, MaybeVersion, Versions
  <2> QED BY <2>1, <2>2, <2>3
<1>11. ASSUME NEW o \in Ops, StoreBlobs(o) PROVE Typed'
  <2>1. pc' \in [Ops -> Steps] /\ Control'
    BY <1>11, PcMove, HandlerStep DEF StoreBlobs, Fail, Move, TypeOK, Control, StepsOf, Ended, Kinds, Guarded, Running, Outside
  <2>2. TypeOK'
    BY <1>11, <2>1, HolderType DEF StoreBlobs, Fail, Move, Goto, page, local, TypeOK, MaybeVersion, Versions, Row, Statuses, NewRow
  <2>3. Located'
    BY <1>11, HandlerStep DEF StoreBlobs, Fail, Move, Goto, page, local, TypeOK, Located, HasRow, Running, Guarded, Outside, MaybeVersion, Versions
  <2> QED BY <2>1, <2>2, <2>3
<1>12. ASSUME NEW o \in Ops, CheckBase(o) PROVE Typed'
  <2>1. pc' \in [Ops -> Steps] /\ Control'
    BY <1>12, PcMove, HandlerStep DEF CheckBase, Fail, Move, TypeOK, Control, StepsOf, Ended, Kinds, Guarded, Running, Outside
  <2>2. TypeOK'
    BY <1>12, <2>1, HolderType DEF CheckBase, Fail, Move, Goto, page, local, TypeOK, MaybeVersion, Versions, Row, Statuses, NewRow
  <2>3. Located'
    BY <1>12, HandlerStep DEF CheckBase, Fail, Move, Goto, page, local, TypeOK, Located, HasRow, Running, Guarded, Outside, MaybeVersion, Versions
  <2> QED BY <2>1, <2>2, <2>3
<1>13. ASSUME NEW o \in Ops, PickNumber(o) PROVE Typed'
  <2>1. pc' \in [Ops -> Steps] /\ Control'
    BY <1>13, PcMove, HandlerStep DEF PickNumber, Fail, Move, TypeOK, Control, StepsOf, Ended, Kinds, Guarded, Running, Outside
  <2>2. TypeOK'
    BY <1>13, <2>1, HolderType DEF PickNumber, Fail, Move, Goto, page, local, TypeOK, MaybeVersion, Versions, Row, Statuses, NewRow
  <2>3. Located'
    BY <1>13, HandlerStep DEF PickNumber, Fail, Move, Goto, page, local, TypeOK, Located, HasRow, Running, Guarded, Outside, MaybeVersion, Versions
  <2> QED BY <2>1, <2>2, <2>3
<1>14. ASSUME NEW o \in Ops, InsertRow(o) PROVE Typed'
  <2>1. pc' \in [Ops -> Steps] /\ Control'
    BY <1>14, PcMove, HandlerStep DEF InsertRow, Fail, Move, TypeOK, Control, StepsOf, Ended, Kinds, Guarded, Running, Outside
  <2>2. TypeOK'
    <3>1. dep' \in [Versions -> Row]
      <4>1. NewRow(o) \in Row
        BY DEF NewRow, Row, Statuses
      <4> QED BY <1>14, <4>1 DEF InsertRow, Fail, page, TypeOK
    <3> QED BY <1>14, <2>1, <3>1 DEF InsertRow, Fail, page, local, TypeOK
  <2>3. Located'
    BY <1>14, HandlerStep DEF InsertRow, Fail, Move, Goto, page, local, TypeOK, Located, HasRow, Running, Guarded, Outside, MaybeVersion, Versions
  <2> QED BY <2>1, <2>2, <2>3
<1>15. ASSUME NEW o \in Ops, InsertTree(o) PROVE Typed'
  <2>1. pc' \in [Ops -> Steps] /\ Control'
    BY <1>15, PcMove, HandlerStep DEF InsertTree, Fail, Move, TypeOK, Control, StepsOf, Ended, Kinds, Guarded, Running, Outside
  <2>2. TypeOK'
    BY <1>15, <2>1, HolderType DEF InsertTree, Fail, Move, Goto, page, local, TypeOK, MaybeVersion, Versions, Row, Statuses, NewRow
  <2>3. Located'
    BY <1>15, HandlerStep DEF InsertTree, Fail, Move, Goto, page, local, TypeOK, Located, HasRow, Running, Guarded, Outside, MaybeVersion, Versions
  <2> QED BY <2>1, <2>2, <2>3
<1>16. ASSUME NEW o \in Ops, PersistManifest(o) PROVE Typed'
  <2>1. pc' \in [Ops -> Steps] /\ Control'
    BY <1>16, PcMove, HandlerStep DEF PersistManifest, Fail, Move, TypeOK, Control, StepsOf, Ended, Kinds, Guarded, Running, Outside
  <2>2. TypeOK'
    BY <1>16, <2>1, HolderType DEF PersistManifest, Fail, Move, Goto, page, local, TypeOK, MaybeVersion, Versions, Row, Statuses, NewRow
  <2>3. Located'
    BY <1>16, HandlerStep DEF PersistManifest, Fail, Move, Goto, page, local, TypeOK, Located, HasRow, Running, Guarded, Outside, MaybeVersion, Versions
  <2> QED BY <2>1, <2>2, <2>3
<1>17. ASSUME NEW o \in Ops, CheckNewer(o) PROVE Typed'
  <2>1. pc' \in [Ops -> Steps] /\ Control'
    BY <1>17, PcMove, HandlerStep DEF CheckNewer, Fail, Move, TypeOK, Control, StepsOf, Ended, Kinds, Guarded, Running, Outside
  <2>2. TypeOK'
    <3>1. dep' \in [Versions -> Row]
      BY <1>17 DEF CheckNewer, Fail, Move, Goto, page, local, TypeOK, Row, Statuses, NewRow
    <3> QED BY <1>17, <2>1, <3>1 DEF CheckNewer, Fail, page, local, TypeOK
  <2>3. Located'
    BY <1>17, HandlerStep DEF CheckNewer, Fail, Move, Goto, page, local, TypeOK, Located, HasRow, Running, Guarded, Outside, MaybeVersion, Versions
  <2> QED BY <2>1, <2>2, <2>3
<1>18. ASSUME NEW o \in Ops, AssertHeld(o) PROVE Typed'
  <2>1. pc' \in [Ops -> Steps] /\ Control'
    BY <1>18, PcMove, HandlerStep DEF AssertHeld, Fail, Move, TypeOK, Control, StepsOf, Ended, Kinds, Guarded, Running, Outside
  <2>2. TypeOK'
    BY <1>18, <2>1, HolderType DEF AssertHeld, Fail, Move, Goto, page, local, TypeOK, MaybeVersion, Versions, Row, Statuses, NewRow
  <2>3. Located'
    BY <1>18, HandlerStep DEF AssertHeld, Fail, Move, Goto, page, local, TypeOK, Located, HasRow, Running, Guarded, Outside, MaybeVersion, Versions
  <2> QED BY <2>1, <2>2, <2>3
<1>19. ASSUME NEW o \in Ops, TxRead(o) PROVE Typed'
  <2>1. pc' \in [Ops -> Steps] /\ Control'
    BY <1>19, PcMove, HandlerStep DEF TxRead, Fail, Move, TypeOK, Control, StepsOf, Ended, Kinds, Guarded, Running, Outside
  <2>2. TypeOK'
    BY <1>19, <2>1, HolderType DEF TxRead, Fail, Move, Goto, page, local, TypeOK, MaybeVersion, Versions, Row, Statuses, NewRow
  <2>3. Located'
    BY <1>19, HandlerStep DEF TxRead, Fail, Move, Goto, page, local, TypeOK, Located, HasRow, Running, Guarded, Outside, MaybeVersion, Versions
  <2> QED BY <2>1, <2>2, <2>3
<1>20. ASSUME NEW o \in Ops, TxWrite(o) PROVE Typed'
  <2>1. pc' \in [Ops -> Steps] /\ Control'
    BY <1>20, PcMove, HandlerStep DEF TxWrite, Fail, Move, TypeOK, Control, StepsOf, Ended, Kinds, Guarded, Running, Outside
  <2>2. TypeOK'
    <3>1. dep' \in [Versions -> Row]
      <4>1. \A r \in Row : WentLive(r) \in Row /\ Superseded(r) \in Row
        BY DEF WentLive, Superseded, Row, Statuses
      <4>2. Activated(o) \in [Versions -> Row]
        BY <4>1 DEF Activated, TypeOK
      <4> QED BY <1>20, <4>2 DEF TxWrite, Fail, page, TypeOK
    <3> QED BY <1>20, <2>1, <3>1 DEF TxWrite, Fail, page, local, TypeOK
  <2>3. Located'
    BY <1>20, HandlerStep DEF TxWrite, Fail, Move, Goto, page, local, TypeOK, Located, HasRow, Running, Guarded, Outside, MaybeVersion, Versions
  <2> QED BY <2>1, <2>2, <2>3
<1>21. ASSUME NEW o \in Ops, SetActive(o) PROVE Typed'
  <2>1. pc' \in [Ops -> Steps] /\ Control'
    BY <1>21, PcMove, HandlerStep DEF SetActive, Fail, Move, TypeOK, Control, StepsOf, Ended, Kinds, Guarded, Running, Outside
  <2>2. TypeOK'
    BY <1>21, <2>1, HolderType DEF SetActive, Fail, Move, Goto, page, local, TypeOK, MaybeVersion, Versions, Row, Statuses, NewRow
  <2>3. Located'
    BY <1>21, HandlerStep DEF SetActive, Fail, Move, Goto, page, local, TypeOK, Located, HasRow, Running, Guarded, Outside, MaybeVersion, Versions
  <2> QED BY <2>1, <2>2, <2>3
<1>22. ASSUME NEW o \in Ops, Publish(o) PROVE Typed'
  <2>1. pc' \in [Ops -> Steps] /\ Control'
    BY <1>22, PcMove, HandlerStep DEF Publish, Fail, Move, TypeOK, Control, StepsOf, Ended, Kinds, Guarded, Running, Outside
  <2>2. TypeOK'
    BY <1>22, <2>1, HolderType DEF Publish, Fail, Move, Goto, page, local, TypeOK, MaybeVersion, Versions, Row, Statuses, NewRow
  <2>3. Located'
    BY <1>22, HandlerStep DEF Publish, Fail, Move, Goto, page, local, TypeOK, Located, HasRow, Running, Guarded, Outside, MaybeVersion, Versions
  <2> QED BY <2>1, <2>2, <2>3
<1>23. ASSUME NEW o \in Ops, CompleteUpload(o) PROVE Typed'
  <2>1. pc' \in [Ops -> Steps] /\ Control'
    BY <1>23, PcMove, HandlerStep DEF CompleteUpload, Fail, Move, TypeOK, Control, StepsOf, Ended, Kinds, Guarded, Running, Outside
  <2>2. TypeOK'
    BY <1>23, <2>1, HolderType DEF CompleteUpload, Fail, Move, Goto, page, local, TypeOK, MaybeVersion, Versions, Row, Statuses, NewRow
  <2>3. Located'
    BY <1>23, HandlerStep DEF CompleteUpload, Fail, Move, Goto, page, local, TypeOK, Located, HasRow, Running, Guarded, Outside, MaybeVersion, Versions
  <2> QED BY <2>1, <2>2, <2>3
<1>24. ASSUME NEW o \in Ops, Release(o) PROVE Typed'
  <2>1. pc' \in [Ops -> Steps] /\ Control'
    BY <1>24, PcMove, HandlerStep DEF Release, ReleaseLock, AfterLock, Fail, Move, TypeOK, Control, StepsOf, Ended, Kinds, Guarded, Running, Outside
  <2>2. TypeOK'
    BY <1>24, <2>1, HolderType DEF Release, ReleaseLock, AfterLock, Fail, Move, Goto, page, local, TypeOK, MaybeVersion, Versions, Row, Statuses, NewRow
  <2>3. Located'
    BY <1>24, HandlerStep DEF Release, ReleaseLock, AfterLock, Fail, Move, Goto, page, local, TypeOK, Located, HasRow, Running, Guarded, Outside, MaybeVersion, Versions
  <2> QED BY <2>1, <2>2, <2>3
<1>25. ASSUME NEW o \in Ops, ErrSelect(o) PROVE Typed'
  <2>1. pc' \in [Ops -> Steps] /\ Control'
    BY <1>25, PcMove, HandlerStep DEF ErrSelect, SelectPending, Fail, Move, TypeOK, Control, StepsOf, Ended, Kinds, Guarded, Running, Outside
  <2>2. TypeOK'
    BY <1>25, <2>1, HolderType DEF ErrSelect, SelectPending, Fail, Move, Goto, page, local, TypeOK, MaybeVersion, Versions, Row, Statuses, NewRow
  <2>3. Located'
    BY <1>25, HandlerStep DEF ErrSelect, SelectPending, Fail, Move, Goto, page, local, TypeOK, Located, HasRow, Running, Guarded, Outside, MaybeVersion, Versions
  <2> QED BY <2>1, <2>2, <2>3
<1>26. ASSUME NEW o \in Ops, ErrMark(o) PROVE Typed'
  <2>1. pc' \in [Ops -> Steps] /\ Control'
    BY <1>26, PcMove, HandlerStep DEF ErrMark, MarkFailed, Fail, Move, TypeOK, Control, StepsOf, Ended, Kinds, Guarded, Running, Outside
  <2>2. TypeOK'
    <3>1. /\ cur[o] \in Versions /\ dep \in [Versions -> Row]
          /\ dep' = [dep EXCEPT ![cur[o]].status = "failed"]
      BY <1>26 DEF ErrMark, MarkFailed, Move, TypeOK, Located
    <3>2. dep' \in [Versions -> Row]
      BY <3>1 DEF Row, Statuses
    <3>3. UNCHANGED <<lock, redis, siteVersion, token, local>>
      BY <1>26 DEF ErrMark, MarkFailed
    <3> QED BY <2>1, <3>2, <3>3 DEF TypeOK, local
  <2>3. Located'
    BY <1>26, HandlerStep DEF ErrMark, MarkFailed, Fail, Move, Goto, page, local, TypeOK, Located, HasRow, Running, Guarded, Outside, MaybeVersion, Versions
  <2> QED BY <2>1, <2>2, <2>3
<1>27. ASSUME NEW o \in Ops, JobSelect(o) PROVE Typed'
  <2>1. pc' \in [Ops -> Steps] /\ Control'
    BY <1>27, PcMove, HandlerStep DEF JobSelect, SelectPending, Fail, Move, TypeOK, Control, StepsOf, Ended, Kinds, Guarded, Running, Outside
  <2>2. TypeOK'
    BY <1>27, <2>1, HolderType DEF JobSelect, SelectPending, Fail, Move, Goto, page, local, TypeOK, MaybeVersion, Versions, Row, Statuses, NewRow
  <2>3. Located'
    BY <1>27, HandlerStep DEF JobSelect, SelectPending, Fail, Move, Goto, page, local, TypeOK, Located, HasRow, Running, Guarded, Outside, MaybeVersion, Versions
  <2> QED BY <2>1, <2>2, <2>3
<1>28. ASSUME NEW o \in Ops, JobMark(o) PROVE Typed'
  <2>1. pc' \in [Ops -> Steps] /\ Control'
    BY <1>28, PcMove, HandlerStep DEF JobMark, MarkFailed, Fail, Move, TypeOK, Control, StepsOf, Ended, Kinds, Guarded, Running, Outside
  <2>2. TypeOK'
    <3>1. /\ cur[o] \in Versions /\ dep \in [Versions -> Row]
          /\ dep' = [dep EXCEPT ![cur[o]].status = "failed"]
      BY <1>28 DEF JobMark, MarkFailed, Move, TypeOK, Located
    <3>2. dep' \in [Versions -> Row]
      BY <3>1 DEF Row, Statuses
    <3>3. UNCHANGED <<lock, redis, siteVersion, token, local>>
      BY <1>28 DEF JobMark, MarkFailed
    <3> QED BY <2>1, <3>2, <3>3 DEF TypeOK, local
  <2>3. Located'
    BY <1>28, HandlerStep DEF JobMark, MarkFailed, Fail, Move, Goto, page, local, TypeOK, Located, HasRow, Running, Guarded, Outside, MaybeVersion, Versions
  <2> QED BY <2>1, <2>2, <2>3
<1>29. ASSUME NEW o \in Ops, Throw(o) PROVE Typed'
  <2>1. pc' \in [Ops -> Steps] /\ Control'
    BY <1>29, PcMove, HandlerStep DEF Throw, Fail, AfterLock, Move, TypeOK, Control, StepsOf, Ended, Kinds, Guarded, Running, Outside
  <2>2. TypeOK'
    BY <1>29, <2>1, HolderType DEF Throw, Fail, AfterLock, Move, Goto, page, local, TypeOK, MaybeVersion, Versions, Row, Statuses, NewRow
  <2>3. Located'
    <3>1. /\ pc[o] \in Running
          /\ pc' = [pc EXCEPT ![o] = Handler(o)]
          /\ ver' = ver /\ cur' = cur
      BY <1>29 DEF Throw, Fail, Goto, local
    <3> QED BY <3>1, HandlerStep DEF TypeOK, Located, Running, Guarded, Outside
  <2> QED BY <2>1, <2>2, <2>3
<1>30. ASSUME NEW o \in Ops, Crash(o) PROVE Typed'
  <2>1. pc' \in [Ops -> Steps] /\ Control'
    BY <1>30, PcMove, HandlerStep DEF Crash, Fail, Move, TypeOK, Control, StepsOf, Ended, Kinds, Guarded, Running, Outside
  <2>2. TypeOK'
    BY <1>30, <2>1, HolderType DEF Crash, Fail, Move, Goto, page, local, TypeOK, MaybeVersion, Versions, Row, Statuses, NewRow
  <2>3. Located'
    BY <1>30, HandlerStep DEF Crash, Fail, Move, Goto, page, local, TypeOK, Located, HasRow, Running, Guarded, Outside, MaybeVersion, Versions
  <2> QED BY <2>1, <2>2, <2>3
<1>31. CASE TtlLapse
  BY <1>31 DEF TtlLapse, Lapse, page, local, TypeOK, Control, Located
<1>32. CASE UNCHANGED vars
  BY <1>32 DEF vars, page, local, TypeOK, Control, Located
<1> QED
  BY <1>1, <1>2, <1>3, <1>4, <1>5, <1>6, <1>7, <1>8, <1>9, <1>10, <1>11, <1>12, <1>13, <1>14, <1>15, <1>16, <1>17, <1>18, <1>19, <1>20, <1>21, <1>22, <1>23, <1>24, <1>25, <1>26, <1>27, <1>28, <1>29, <1>30, <1>31, <1>32
  DEF Next, Begin, Advance, Quiescent

(* Type correctness.                                                       *)
THEOREM TypeCorrect == Spec => []TypeOK
<1>1. Spec => []Typed
  BY TypedInit, TypedStep, PTL DEF Spec
<1> QED BY <1>1, PTL DEF Typed

-----------------------------------------------------------------------------
(* Only seven actions write the deployments table.                         *)
WritesRow(o) ==
    \/ InsertRow(o) \/ InsertTree(o) \/ PersistManifest(o) \/ CheckNewer(o)
    \/ TxWrite(o) \/ ErrMark(o) \/ JobMark(o)

LEMMA RowChanges ==
    ASSUME [Next]_vars, dep' # dep
    PROVE  \E o \in Ops : WritesRow(o)
<1>1. PICK o \in Ops : Begin(o) \/ Advance(o) \/ Heartbeat(o) \/ Throw(o) \/ Crash(o)
  BY DEF Next, vars, page, TtlLapse, Quiescent
<1>2. ~Begin(o)
  BY DEF Begin, PrepareBegin, BeginUpload, BeginBuild, BeginRollback, page
<1>3. ~Heartbeat(o) /\ ~Throw(o) /\ ~Crash(o)
  BY DEF Heartbeat, Throw, Fail, Crash, page
<1>4. Advance(o)
  BY <1>1, <1>2, <1>3
<1> QED
  BY <1>4 DEF Advance, WritesRow, PrepareGet, PrepareLock, PrepareToken, PrepareUndo,
     AcquireLock, StoreBlobs, CheckBase, PickNumber, AssertHeld, TxRead, SetActive,
     Publish, CompleteUpload, Release, ErrSelect, JobSelect, SelectPending, Fail, page

(* A blank row is blank, and every version or row id an op holds on to     *)
(* names a row that exists.                                                *)
Blank == \A v \in Versions : ~Present(v) => dep[v] = NoRow

RowedAt(o) ==
    /\ pc[o] \in HasRow => Present(ver[o])
    /\ Kind[o] = "rollback" /\ pc[o] # "idle" => Present(ver[o])
    /\ pc[o] \in {"errMark", "jobMark"} => Present(cur[o])
    /\ pc[o] = "txWrite" /\ cur[o] # 0 => Present(cur[o])

Rowed == \A o \in Ops : RowedAt(o)

Filed == Typed /\ Blank /\ Rowed

LEMMA FiledInit == Init => Filed
<1> SUFFICES ASSUME Init PROVE Blank /\ Rowed
  BY TypedInit DEF Filed
<1>1. Blank
  BY ConstantsAssumption DEF Init, Blank, Present, SeedRow, NoRow
<1>2. Rowed
  BY DEF Init, Rowed, RowedAt, HasRow
<1> QED BY <1>1, <1>2

(* A row that an UPDATE by id of an op reaches exists.                     *)
LEMMA RowHeld ==
    ASSUME Filed, NEW o \in Ops
    PROVE  /\ pc[o] \in HasRow => ver[o] \in Versions /\ Present(ver[o])
           /\ pc[o] \in {"errMark", "jobMark"} => cur[o] \in Versions /\ Present(cur[o])
           /\ pc[o] = "txWrite" /\ cur[o] # 0 => cur[o] \in Versions /\ Present(cur[o])
           /\ cur[o] \in Versions \cup {0} /\ ver[o] \in Versions \cup {0}
<1>1. cur[o] \in MaybeVersion /\ ver[o] \in MaybeVersion
  BY DEF Filed, Typed, TypeOK
<1>2. cur[o] \in Versions \cup {0} /\ ver[o] \in Versions \cup {0}
  BY <1>1, ConstantsAssumption DEF MaybeVersion, Versions
<1> QED BY <1>2 DEF Filed, Typed, Located, Rowed, RowedAt

(* Rows are never deleted here, and blank rows are only ever inserted.     *)
LEMMA BlankStep ==
    ASSUME Filed, [Next]_vars
    PROVE  /\ Blank'
           /\ \A v \in Versions : dep[v].status # "absent" => dep'[v].status # "absent"
<1>0. dep \in [Versions -> Row]
  BY DEF Filed, Typed, TypeOK
<1>1. CASE dep' = dep
  BY <1>1 DEF Filed, Blank, Present
<1>2. ASSUME NEW w \in Versions, NEW row,
             dep' = [dep EXCEPT ![w] = row], row.status # "absent"
      PROVE  /\ Blank'
             /\ \A v \in Versions : dep[v].status # "absent" => dep'[v].status # "absent"
  BY <1>0, <1>2 DEF Filed, Blank, Present
<1>3. CASE dep' # dep
  <2>1. PICK o \in Ops : WritesRow(o)
    BY <1>3, RowChanges
  <2>2. CASE InsertRow(o)
    <3>1. dep' = [dep EXCEPT ![ver[o]] = NewRow(o)] /\ ver[o] \in Versions
      BY <1>3, <2>2 DEF InsertRow, Fail, page, Filed, Typed, Located
    <3>2. NewRow(o).status # "absent"
      BY DEF NewRow
    <3> QED BY <1>2, <3>1, <3>2
  <2>3. CASE InsertTree(o)
    <3>1. dep' = [dep EXCEPT ![ver[o]] = [dep[ver[o]] EXCEPT !.tree = TRUE]]
      BY <2>3 DEF InsertTree
    <3>2. ver[o] \in Versions /\ Present(ver[o])
      BY <2>3, RowHeld DEF InsertTree, Move, HasRow
    <3> DEFINE row == [dep[ver[o]] EXCEPT !.tree = TRUE]
    <3>3. row.status # "absent"
      BY <1>0, <3>2 DEF Present, Row
    <3>4. dep' = [dep EXCEPT ![ver[o]] = row]
      BY <3>1
    <3> HIDE DEF row
    <3> QED BY <1>2, <3>2, <3>3, <3>4
  <2>4. CASE PersistManifest(o)
    <3>1. dep' = [dep EXCEPT ![ver[o]] = [dep[ver[o]] EXCEPT !.manifest = TRUE]]
      BY <2>4 DEF PersistManifest
    <3>2. ver[o] \in Versions /\ Present(ver[o])
      BY <2>4, RowHeld DEF PersistManifest, Move, HasRow
    <3> DEFINE row == [dep[ver[o]] EXCEPT !.manifest = TRUE]
    <3>3. row.status # "absent"
      BY <1>0, <3>2 DEF Present, Row
    <3>4. dep' = [dep EXCEPT ![ver[o]] = row]
      BY <3>1
    <3> HIDE DEF row
    <3> QED BY <1>2, <3>2, <3>3, <3>4
  <2>5. CASE CheckNewer(o)
    <3>1. dep' = [dep EXCEPT ![ver[o]] = [dep[ver[o]] EXCEPT !.status = "superseded"]]
      BY <1>3, <2>5 DEF CheckNewer, page
    <3>2. ver[o] \in Versions
      BY <2>5, RowHeld DEF CheckNewer, HasRow
    <3> DEFINE row == [dep[ver[o]] EXCEPT !.status = "superseded"]
    <3>3. row.status # "absent"
      BY <1>0, <3>2 DEF Present, Row
    <3>4. dep' = [dep EXCEPT ![ver[o]] = row]
      BY <3>1
    <3> HIDE DEF row
    <3> QED BY <1>2, <3>2, <3>3, <3>4
  <2>6. CASE ErrMark(o) \/ JobMark(o)
    <3>1. dep' = [dep EXCEPT ![cur[o]] = [dep[cur[o]] EXCEPT !.status = "failed"]]
      BY <2>6 DEF ErrMark, JobMark, MarkFailed
    <3>2. cur[o] \in Versions
      BY <2>6, RowHeld DEF ErrMark, JobMark, MarkFailed, Move
    <3> DEFINE row == [dep[cur[o]] EXCEPT !.status = "failed"]
    <3>3. row.status # "absent"
      BY <1>0, <3>2 DEF Present, Row
    <3>4. dep' = [dep EXCEPT ![cur[o]] = row]
      BY <3>1
    <3> HIDE DEF row
    <3> QED BY <1>2, <3>2, <3>3, <3>4
  <2>7. CASE TxWrite(o)
    <3>1. dep' = Activated(o) /\ pc[o] = "txWrite"
      BY <1>3, <2>7 DEF TxWrite, Fail, page
    <3>2. ver[o] \in Versions /\ (cur[o] # 0 => cur[o] \in Versions /\ Present(cur[o]))
          /\ Present(ver[o]) /\ 0 \notin Versions
      BY <3>1, RowHeld DEF HasRow, Versions
    <3>3. \A v \in Versions : ~Present(v) => dep'[v] = dep[v]
      BY <3>1, <3>2 DEF Activated
    <3>4. \A v \in Versions : Present(v) => dep'[v].status # "absent"
      BY <1>0, <3>1 DEF Activated, WentLive, Superseded, Present, Row
    <3> QED BY <3>3, <3>4 DEF Filed, Blank, Present
  <2> QED BY <2>1, <2>2, <2>3, <2>4, <2>5, <2>6, <2>7 DEF WritesRow
<1> QED BY <1>1, <1>3

LEMMA OthersKeepRow ==
    ASSUME Filed, [Next]_vars, NEW p \in Ops,
           pc'[p] = pc[p], ver'[p] = ver[p], cur'[p] = cur[p]
    PROVE  RowedAt(p)'
<1>1. RowedAt(p)
  BY DEF Filed, Rowed
<1>2. /\ pc[p] \in HasRow => ver[p] \in Versions
      /\ Kind[p] = "rollback" /\ pc[p] # "idle" => ver[p] \in Versions
      /\ pc[p] \in {"errMark", "jobMark"} => cur[p] \in Versions
      /\ pc[p] = "txWrite" /\ cur[p] # 0 => cur[p] \in Versions
  BY RowHeld DEF Filed, Typed, Located
<1> QED BY <1>1, <1>2, BlankStep DEF RowedAt, Present

(* An op keeps its version and row id except in the four steps that set    *)
(* one of them.                                                            *)
LEMMA OpKeepsRow ==
    ASSUME Filed, [Next]_vars, NEW o \in Ops, ver' = ver, cur' = cur,
           Kind[o] = "rollback" => pc[o] # "idle",
           pc'[o] \in HasRow => pc[o] \in HasRow,
           pc'[o] \notin {"errMark", "jobMark", "txWrite"}
    PROVE  RowedAt(o)'
<1>1. /\ pc[o] \in HasRow => ver[o] \in Versions
      /\ Kind[o] = "rollback" /\ pc[o] # "idle" => ver[o] \in Versions
  BY RowHeld DEF Filed, Typed, Located
<1> QED BY <1>1, BlankStep DEF RowedAt, Present, Filed, Rowed
LEMMA FiledStep == Filed /\ [Next]_vars => Filed'
<1> SUFFICES ASSUME Filed, [Next]_vars PROVE Rowed'
  BY TypedStep, BlankStep DEF Filed
<1>0. ASSUME NEW o \in Ops, RowedAt(o)',
             \A p \in Ops \ {o} : pc'[p] = pc[p] /\ ver'[p] = ver[p] /\ cur'[p] = cur[p]
      PROVE  Rowed'
  BY <1>0, OthersKeepRow DEF Rowed
<1>1. ASSUME NEW o \in Ops, PrepareBegin(o) PROVE Rowed'
  <2>3. RowedAt(o)'
    BY <1>1, OpKeepsRow, HandlerStep
    DEF PrepareBegin, Fail, Move, Goto, HasRow, Running, Guarded, Outside, Filed, Typed, TypeOK, local
  <2>4. \A p \in Ops \ {o} : pc'[p] = pc[p] /\ ver'[p] = ver[p] /\ cur'[p] = cur[p]
    BY <1>1 DEF PrepareBegin, Fail, Move, Goto, local, Filed, Typed, TypeOK
  <2> QED BY <1>0, <2>3, <2>4
<1>2. ASSUME NEW o \in Ops, PrepareGet(o) PROVE Rowed'
  <2>3. RowedAt(o)'
    BY <1>2, OpKeepsRow, HandlerStep
    DEF PrepareGet, Fail, Move, Goto, HasRow, Running, Guarded, Outside, Filed, Typed, TypeOK, local
  <2>4. \A p \in Ops \ {o} : pc'[p] = pc[p] /\ ver'[p] = ver[p] /\ cur'[p] = cur[p]
    BY <1>2 DEF PrepareGet, Fail, Move, Goto, local, Filed, Typed, TypeOK
  <2> QED BY <1>0, <2>3, <2>4
<1>3. ASSUME NEW o \in Ops, PrepareLock(o) PROVE Rowed'
  <2>3. RowedAt(o)'
    BY <1>3, OpKeepsRow, HandlerStep
    DEF PrepareLock, Acquire, Refused, Fail, Move, Goto, HasRow, Running, Guarded, Outside, Filed, Typed, TypeOK, local
  <2>4. \A p \in Ops \ {o} : pc'[p] = pc[p] /\ ver'[p] = ver[p] /\ cur'[p] = cur[p]
    BY <1>3 DEF PrepareLock, Acquire, Refused, Fail, Move, Goto, local, Filed, Typed, TypeOK
  <2> QED BY <1>0, <2>3, <2>4
<1>4. ASSUME NEW o \in Ops, PrepareToken(o) PROVE Rowed'
  <2>3. RowedAt(o)'
    BY <1>4, OpKeepsRow, HandlerStep
    DEF PrepareToken, Fail, Move, Goto, HasRow, Running, Guarded, Outside, Filed, Typed, TypeOK, local
  <2>4. \A p \in Ops \ {o} : pc'[p] = pc[p] /\ ver'[p] = ver[p] /\ cur'[p] = cur[p]
    BY <1>4 DEF PrepareToken, Fail, Move, Goto, local, Filed, Typed, TypeOK
  <2> QED BY <1>0, <2>3, <2>4
<1>5. ASSUME NEW o \in Ops, PrepareUndo(o) PROVE Rowed'
  <2>3. RowedAt(o)'
    BY <1>5, OpKeepsRow, HandlerStep
    DEF PrepareUndo, Fail, Move, Goto, HasRow, Running, Guarded, Outside, Filed, Typed, TypeOK, local
  <2>4. \A p \in Ops \ {o} : pc'[p] = pc[p] /\ ver'[p] = ver[p] /\ cur'[p] = cur[p]
    BY <1>5 DEF PrepareUndo, Fail, Move, Goto, local, Filed, Typed, TypeOK
  <2> QED BY <1>0, <2>3, <2>4
<1>6. ASSUME NEW o \in Ops, BeginUpload(o) PROVE Rowed'
  <2>3. RowedAt(o)'
    BY <1>6, OpKeepsRow, HandlerStep
    DEF BeginUpload, Fail, Move, Goto, HasRow, Running, Guarded, Outside, Filed, Typed, TypeOK, local
  <2>4. \A p \in Ops \ {o} : pc'[p] = pc[p] /\ ver'[p] = ver[p] /\ cur'[p] = cur[p]
    BY <1>6 DEF BeginUpload, Fail, Move, Goto, local, Filed, Typed, TypeOK
  <2> QED BY <1>0, <2>3, <2>4
<1>7. ASSUME NEW o \in Ops, BeginBuild(o) PROVE Rowed'
  <2>3. RowedAt(o)'
    BY <1>7, OpKeepsRow, HandlerStep
    DEF BeginBuild, Fail, Move, Goto, HasRow, Running, Guarded, Outside, Filed, Typed, TypeOK, local
  <2>4. \A p \in Ops \ {o} : pc'[p] = pc[p] /\ ver'[p] = ver[p] /\ cur'[p] = cur[p]
    BY <1>7 DEF BeginBuild, Fail, Move, Goto, local, Filed, Typed, TypeOK
  <2> QED BY <1>0, <2>3, <2>4
<1>8. ASSUME NEW o \in Ops, NEW v \in Versions, BeginRollback(o, v) PROVE Rowed'
  <2>1. ver'[o] = v /\ cur' = cur /\ pc'[o] = "acquire"
    BY <1>8 DEF BeginRollback, Move, Goto, Filed, Typed, TypeOK
  <2>2. Present(v) /\ dep' = dep
    BY <1>8 DEF BeginRollback, Eligible, Filed, Blank, NoRow, page
  <2>3. RowedAt(o)'
    BY <2>1, <2>2 DEF RowedAt, Present, HasRow
  <2>4. \A p \in Ops \ {o} : pc'[p] = pc[p] /\ ver'[p] = ver[p] /\ cur'[p] = cur[p]
    BY <1>8 DEF BeginRollback, Fail, Move, Goto, local, Filed, Typed, TypeOK
  <2> QED BY <1>0, <2>3, <2>4
<1>9. ASSUME NEW o \in Ops, AcquireLock(o) PROVE Rowed'
  <2>1. /\ ver' = ver /\ cur' = cur /\ dep' = dep /\ pc[o] = "acquire"
        /\ pc'[o] \notin {"errMark", "jobMark", "txWrite"}
        /\ pc'[o] \in HasRow => Kind[o] = "rollback"
    BY <1>9, HandlerStep DEF AcquireLock, Acquire, Refused, Fail, Goto, HasRow, Running, Outside, Guarded,
       Filed, Typed, TypeOK, local, page
  <2>3. RowedAt(o)'
    BY <2>1 DEF RowedAt, Present, Filed, Rowed
  <2>4. \A p \in Ops \ {o} : pc'[p] = pc[p] /\ ver'[p] = ver[p] /\ cur'[p] = cur[p]
    BY <1>9 DEF AcquireLock, Acquire, Refused, Fail, Move, Goto, local, Filed, Typed, TypeOK
  <2> QED BY <1>0, <2>3, <2>4
<1>10. ASSUME NEW o \in Ops, Heartbeat(o) PROVE Rowed'
  <2>3. RowedAt(o)'
    BY <1>10, OthersKeepRow DEF Heartbeat, local
  <2>4. \A p \in Ops \ {o} : pc'[p] = pc[p] /\ ver'[p] = ver[p] /\ cur'[p] = cur[p]
    BY <1>10 DEF Heartbeat, Fail, Move, Goto, local, Filed, Typed, TypeOK
  <2> QED BY <1>0, <2>3, <2>4
<1>11. ASSUME NEW o \in Ops, StoreBlobs(o) PROVE Rowed'
  <2>3. RowedAt(o)'
    BY <1>11, OpKeepsRow, HandlerStep
    DEF StoreBlobs, Fail, Move, Goto, HasRow, Running, Guarded, Outside, Filed, Typed, TypeOK, local
  <2>4. \A p \in Ops \ {o} : pc'[p] = pc[p] /\ ver'[p] = ver[p] /\ cur'[p] = cur[p]
    BY <1>11 DEF StoreBlobs, Fail, Move, Goto, local, Filed, Typed, TypeOK
  <2> QED BY <1>0, <2>3, <2>4
<1>12. ASSUME NEW o \in Ops, CheckBase(o) PROVE Rowed'
  <2>3. RowedAt(o)'
    BY <1>12, OpKeepsRow, HandlerStep
    DEF CheckBase, Fail, Move, Goto, HasRow, Running, Guarded, Outside, Filed, Typed, TypeOK, local
  <2>4. \A p \in Ops \ {o} : pc'[p] = pc[p] /\ ver'[p] = ver[p] /\ cur'[p] = cur[p]
    BY <1>12 DEF CheckBase, Fail, Move, Goto, local, Filed, Typed, TypeOK
  <2> QED BY <1>0, <2>3, <2>4
<1>13. ASSUME NEW o \in Ops, PickNumber(o) PROVE Rowed'
  <2>1. pc'[o] = "insert" /\ Kind[o] # "rollback"
    BY <1>13, ConstantsAssumption DEF PickNumber, Move, Goto, Filed, Typed, TypeOK, Control, StepsOf, Ended
  <2>3. RowedAt(o)'
    BY <2>1 DEF RowedAt, HasRow
  <2>4. \A p \in Ops \ {o} : pc'[p] = pc[p] /\ ver'[p] = ver[p] /\ cur'[p] = cur[p]
    BY <1>13 DEF PickNumber, Fail, Move, Goto, local, Filed, Typed, TypeOK
  <2> QED BY <1>0, <2>3, <2>4
<1>14. ASSUME NEW o \in Ops, InsertRow(o) PROVE Rowed'
  <2>1. pc[o] = "insert" /\ Kind[o] # "rollback" /\ ver[o] \in Versions
    BY <1>14, ConstantsAssumption DEF InsertRow, Filed, Typed, Control, Located, StepsOf, Ended
  <2>2. ASSUME InsertAllowed(o) PROVE RowedAt(o)'
    <3>1. dep' = [dep EXCEPT ![ver[o]] = NewRow(o)] /\ ver' = ver /\ pc'[o] = "tree"
      BY <1>14, <2>2 DEF InsertRow, Goto, local, Filed, Typed, TypeOK
    <3>2. dep'[ver'[o]] = NewRow(o)
      BY <2>1, <3>1 DEF Filed, Typed, TypeOK
    <3>3. NewRow(o).status # "absent"
      BY DEF NewRow
    <3>4. Present(ver[o])'
      BY <3>2, <3>3 DEF Present
    <3> QED BY <2>1, <3>1, <3>4 DEF RowedAt, HasRow
  <2>5. ASSUME ~InsertAllowed(o) PROVE RowedAt(o)'
    <3>1. pc'[o] = Handler(o)
      BY <1>14, <2>5 DEF InsertRow, Fail, Goto, Filed, Typed, TypeOK
    <3>2. pc'[o] \notin HasRow \cup {"errMark", "jobMark"}
      BY <2>1, <3>1, HandlerStep DEF Filed, Typed, Running, Guarded
    <3> QED BY <2>1, <3>2 DEF RowedAt, HasRow
  <2>3. RowedAt(o)'
    BY <2>2, <2>5
  <2>4. \A p \in Ops \ {o} : pc'[p] = pc[p] /\ ver'[p] = ver[p] /\ cur'[p] = cur[p]
    BY <1>14 DEF InsertRow, Fail, Move, Goto, local, Filed, Typed, TypeOK
  <2> QED BY <1>0, <2>3, <2>4
<1>15. ASSUME NEW o \in Ops, InsertTree(o) PROVE Rowed'
  <2>3. RowedAt(o)'
    BY <1>15, OpKeepsRow, HandlerStep
    DEF InsertTree, Fail, Move, Goto, HasRow, Running, Guarded, Outside, Filed, Typed, TypeOK, local
  <2>4. \A p \in Ops \ {o} : pc'[p] = pc[p] /\ ver'[p] = ver[p] /\ cur'[p] = cur[p]
    BY <1>15 DEF InsertTree, Fail, Move, Goto, local, Filed, Typed, TypeOK
  <2> QED BY <1>0, <2>3, <2>4
<1>16. ASSUME NEW o \in Ops, PersistManifest(o) PROVE Rowed'
  <2>3. RowedAt(o)'
    BY <1>16, OpKeepsRow, HandlerStep
    DEF PersistManifest, Fail, Move, Goto, HasRow, Running, Guarded, Outside, Filed, Typed, TypeOK, local
  <2>4. \A p \in Ops \ {o} : pc'[p] = pc[p] /\ ver'[p] = ver[p] /\ cur'[p] = cur[p]
    BY <1>16 DEF PersistManifest, Fail, Move, Goto, local, Filed, Typed, TypeOK
  <2> QED BY <1>0, <2>3, <2>4
<1>17. ASSUME NEW o \in Ops, CheckNewer(o) PROVE Rowed'
  <2>3. RowedAt(o)'
    BY <1>17, OpKeepsRow, HandlerStep
    DEF CheckNewer, Fail, Move, Goto, HasRow, Running, Guarded, Outside, Filed, Typed, TypeOK, local
  <2>4. \A p \in Ops \ {o} : pc'[p] = pc[p] /\ ver'[p] = ver[p] /\ cur'[p] = cur[p]
    BY <1>17 DEF CheckNewer, Fail, Move, Goto, local, Filed, Typed, TypeOK
  <2> QED BY <1>0, <2>3, <2>4
<1>18. ASSUME NEW o \in Ops, AssertHeld(o) PROVE Rowed'
  <2>3. RowedAt(o)'
    BY <1>18, OpKeepsRow, HandlerStep
    DEF AssertHeld, Fail, Move, Goto, HasRow, Running, Guarded, Outside, Filed, Typed, TypeOK, local
  <2>4. \A p \in Ops \ {o} : pc'[p] = pc[p] /\ ver'[p] = ver[p] /\ cur'[p] = cur[p]
    BY <1>18 DEF AssertHeld, Fail, Move, Goto, local, Filed, Typed, TypeOK
  <2> QED BY <1>0, <2>3, <2>4
<1>19. ASSUME NEW o \in Ops, TxRead(o) PROVE Rowed'
  <2>1. /\ pc'[o] = "txWrite" /\ dep' = dep /\ ver' = ver /\ pc[o] = "txRead"
        /\ cur'[o] # 0 => dep[cur'[o]].active /\ cur'[o] \in Versions
    BY <1>19, ConstantsAssumption DEF TxRead, IsLive, Move, Goto, Filed, Typed, TypeOK, page, MaybeVersion, Versions
  <2>2. cur'[o] # 0 => Present(cur'[o])
    BY <2>1 DEF Filed, Blank, NoRow
  <2>3. RowedAt(o)'
    BY <2>1, <2>2 DEF RowedAt, Present, Filed, Rowed, HasRow
  <2>4. \A p \in Ops \ {o} : pc'[p] = pc[p] /\ ver'[p] = ver[p] /\ cur'[p] = cur[p]
    BY <1>19 DEF TxRead, Fail, Move, Goto, local, Filed, Typed, TypeOK
  <2> QED BY <1>0, <2>3, <2>4
<1>20. ASSUME NEW o \in Ops, TxWrite(o) PROVE Rowed'
  <2>3. RowedAt(o)'
    BY <1>20, OpKeepsRow, HandlerStep
    DEF TxWrite, Fail, Move, Goto, HasRow, Running, Guarded, Outside, Filed, Typed, TypeOK, local
  <2>4. \A p \in Ops \ {o} : pc'[p] = pc[p] /\ ver'[p] = ver[p] /\ cur'[p] = cur[p]
    BY <1>20 DEF TxWrite, Fail, Move, Goto, local, Filed, Typed, TypeOK
  <2> QED BY <1>0, <2>3, <2>4
<1>21. ASSUME NEW o \in Ops, SetActive(o) PROVE Rowed'
  <2>3. RowedAt(o)'
    BY <1>21, OpKeepsRow, HandlerStep
    DEF SetActive, Fail, Move, Goto, HasRow, Running, Guarded, Outside, Filed, Typed, TypeOK, local
  <2>4. \A p \in Ops \ {o} : pc'[p] = pc[p] /\ ver'[p] = ver[p] /\ cur'[p] = cur[p]
    BY <1>21 DEF SetActive, Fail, Move, Goto, local, Filed, Typed, TypeOK
  <2> QED BY <1>0, <2>3, <2>4
<1>22. ASSUME NEW o \in Ops, Publish(o) PROVE Rowed'
  <2>3. RowedAt(o)'
    BY <1>22, OpKeepsRow, HandlerStep
    DEF Publish, Fail, Move, Goto, HasRow, Running, Guarded, Outside, Filed, Typed, TypeOK, local
  <2>4. \A p \in Ops \ {o} : pc'[p] = pc[p] /\ ver'[p] = ver[p] /\ cur'[p] = cur[p]
    BY <1>22 DEF Publish, Fail, Move, Goto, local, Filed, Typed, TypeOK
  <2> QED BY <1>0, <2>3, <2>4
<1>23. ASSUME NEW o \in Ops, CompleteUpload(o) PROVE Rowed'
  <2>3. RowedAt(o)'
    BY <1>23, OpKeepsRow, HandlerStep
    DEF CompleteUpload, Fail, Move, Goto, HasRow, Running, Guarded, Outside, Filed, Typed, TypeOK, local
  <2>4. \A p \in Ops \ {o} : pc'[p] = pc[p] /\ ver'[p] = ver[p] /\ cur'[p] = cur[p]
    BY <1>23 DEF CompleteUpload, Fail, Move, Goto, local, Filed, Typed, TypeOK
  <2> QED BY <1>0, <2>3, <2>4
<1>24. ASSUME NEW o \in Ops, Release(o) PROVE Rowed'
  <2>3. RowedAt(o)'
    BY <1>24, OpKeepsRow, HandlerStep
    DEF Release, AfterLock, Fail, Move, Goto, HasRow, Running, Guarded, Outside, Filed, Typed, TypeOK, local
  <2>4. \A p \in Ops \ {o} : pc'[p] = pc[p] /\ ver'[p] = ver[p] /\ cur'[p] = cur[p]
    BY <1>24 DEF Release, AfterLock, Fail, Move, Goto, local, Filed, Typed, TypeOK
  <2> QED BY <1>0, <2>3, <2>4
<1>25. ASSUME NEW o \in Ops, ErrSelect(o) PROVE Rowed'
  <2>1. PICK n \in MaybeVersion :
           /\ IsPendingOf(o, n)
           /\ cur' = [cur EXCEPT ![o] = n] /\ dep' = dep /\ pc[o] = "errSelect"
           /\ pc' = [pc EXCEPT ![o] = IF n = 0 THEN "release" ELSE "errMark"]
    BY <1>25 DEF ErrSelect, SelectPending, Move, Goto, page
  <2>2. n # 0 => Present(n)
    BY <2>1, ConstantsAssumption DEF IsPendingOf, Present, MaybeVersion, Versions
  <2>5. /\ cur'[o] = n /\ pc'[o] = IF n = 0 THEN "release" ELSE "errMark"
        /\ Kind[o] # "rollback"
    BY <2>1, ConstantsAssumption DEF Filed, Typed, TypeOK, Control, StepsOf, Ended
  <2>3. RowedAt(o)'
    BY <2>1, <2>2, <2>5 DEF RowedAt, Present, HasRow
  <2>4. \A p \in Ops \ {o} : pc'[p] = pc[p] /\ ver'[p] = ver[p] /\ cur'[p] = cur[p]
    BY <1>25 DEF ErrSelect, SelectPending, Fail, Move, Goto, local, Filed, Typed, TypeOK
  <2> QED BY <1>0, <2>3, <2>4
<1>26. ASSUME NEW o \in Ops, ErrMark(o) PROVE Rowed'
  <2>3. RowedAt(o)'
    BY <1>26, OpKeepsRow, HandlerStep
    DEF ErrMark, MarkFailed, Fail, Move, Goto, HasRow, Running, Guarded, Outside, Filed, Typed, TypeOK, local
  <2>4. \A p \in Ops \ {o} : pc'[p] = pc[p] /\ ver'[p] = ver[p] /\ cur'[p] = cur[p]
    BY <1>26 DEF ErrMark, MarkFailed, Fail, Move, Goto, local, Filed, Typed, TypeOK
  <2> QED BY <1>0, <2>3, <2>4
<1>27. ASSUME NEW o \in Ops, JobSelect(o) PROVE Rowed'
  <2>1. PICK n \in MaybeVersion :
           /\ IsPendingOf(o, n)
           /\ cur' = [cur EXCEPT ![o] = n] /\ dep' = dep /\ pc[o] = "jobSelect"
           /\ pc' = [pc EXCEPT ![o] = IF n = 0 THEN "done" ELSE "jobMark"]
    BY <1>27 DEF JobSelect, SelectPending, Move, Goto, page
  <2>2. n # 0 => Present(n)
    BY <2>1, ConstantsAssumption DEF IsPendingOf, Present, MaybeVersion, Versions
  <2>5. /\ cur'[o] = n /\ pc'[o] = IF n = 0 THEN "done" ELSE "jobMark"
        /\ Kind[o] # "rollback"
    BY <2>1, ConstantsAssumption DEF Filed, Typed, TypeOK, Control, StepsOf, Ended
  <2>3. RowedAt(o)'
    BY <2>1, <2>2, <2>5 DEF RowedAt, Present, HasRow
  <2>4. \A p \in Ops \ {o} : pc'[p] = pc[p] /\ ver'[p] = ver[p] /\ cur'[p] = cur[p]
    BY <1>27 DEF JobSelect, SelectPending, Fail, Move, Goto, local, Filed, Typed, TypeOK
  <2> QED BY <1>0, <2>3, <2>4
<1>28. ASSUME NEW o \in Ops, JobMark(o) PROVE Rowed'
  <2>3. RowedAt(o)'
    BY <1>28, OpKeepsRow, HandlerStep
    DEF JobMark, MarkFailed, Fail, Move, Goto, HasRow, Running, Guarded, Outside, Filed, Typed, TypeOK, local
  <2>4. \A p \in Ops \ {o} : pc'[p] = pc[p] /\ ver'[p] = ver[p] /\ cur'[p] = cur[p]
    BY <1>28 DEF JobMark, MarkFailed, Fail, Move, Goto, local, Filed, Typed, TypeOK
  <2> QED BY <1>0, <2>3, <2>4
<1>29. ASSUME NEW o \in Ops, Throw(o) PROVE Rowed'
  <2>1. /\ pc[o] \in Running /\ ver' = ver /\ cur' = cur /\ pc'[o] = Handler(o)
    BY <1>29, ConstantsAssumption DEF Throw, Fail, Goto, local, Filed, Typed, TypeOK
  <2>2. pc[o] # "idle"
    BY <2>1 DEF Running, Guarded, Outside
  <2>5. pc'[o] \notin HasRow \cup {"errMark", "jobMark"}
    BY <2>1, HandlerStep DEF Filed, Typed
  <2>3. RowedAt(o)'
    BY <2>1, <2>2, <2>5, OpKeepsRow DEF HasRow
  <2>4. \A p \in Ops \ {o} : pc'[p] = pc[p] /\ ver'[p] = ver[p] /\ cur'[p] = cur[p]
    BY <1>29 DEF Throw, Fail, Move, Goto, local, Filed, Typed, TypeOK
  <2> QED BY <1>0, <2>3, <2>4
<1>30. ASSUME NEW o \in Ops, Crash(o) PROVE Rowed'
  <2>1. /\ pc[o] \in Running /\ ver' = ver /\ cur' = cur /\ pc'[o] = "dead"
    BY <1>30, ConstantsAssumption DEF Crash, Goto, local, Filed, Typed, TypeOK
  <2>2. pc[o] # "idle"
    BY <2>1 DEF Running, Guarded, Outside
  <2>3. RowedAt(o)'
    BY <2>1, <2>2, OpKeepsRow DEF HasRow
  <2>4. \A p \in Ops \ {o} : pc'[p] = pc[p] /\ ver'[p] = ver[p] /\ cur'[p] = cur[p]
    BY <1>30 DEF Crash, Fail, Move, Goto, local, Filed, Typed, TypeOK
  <2> QED BY <1>0, <2>3, <2>4
<1>31. CASE TtlLapse \/ UNCHANGED vars
  BY <1>31, OthersKeepRow DEF TtlLapse, vars, local, Rowed
<1> QED
  BY <1>1, <1>2, <1>3, <1>4, <1>5, <1>6, <1>7, <1>8, <1>9, <1>10, <1>11, <1>12, <1>13, <1>14, <1>15, <1>16, <1>17, <1>18, <1>19, <1>20, <1>21, <1>22, <1>23, <1>24, <1>25, <1>26, <1>27, <1>28, <1>29, <1>30, <1>31
  DEF Next, Begin, Advance, Quiescent

-----------------------------------------------------------------------------
(* What the page shows its visitors, with leases that lapse and holder ids *)
(* that are shared: nothing here depends on the lock.                      *)

(* What a step does to the columns the page is served by: nothing, a       *)
(* manifest is stored, or an activation the table accepts.                 *)
KeepsPage ==
    \A v \in Versions :
        dep'[v].active = dep[v].active /\ dep'[v].manifest = dep[v].manifest

StoresManifest(w) ==
    \A v \in Versions :
        /\ dep'[v].active = dep[v].active
        /\ dep'[v].manifest = (v = w \/ dep[v].manifest)

SwitchesTo(w) ==
    /\ dep'[w].active
    /\ TableAccepts(dep')
    /\ \A v \in Versions : dep'[v].manifest = dep[v].manifest

LEMMA PageEffect ==
    ASSUME Filed, [Next]_vars
    PROVE  KeepsPage \/ \E w \in Versions : StoresManifest(w) \/ SwitchesTo(w)
<1>0. dep \in [Versions -> Row]
  BY DEF Filed, Typed, TypeOK
<1>1. CASE dep' = dep
  BY <1>1 DEF KeepsPage
<1>2. ASSUME NEW w \in Versions, NEW row, dep' = [dep EXCEPT ![w] = row],
             row.active = dep[w].active, row.manifest = dep[w].manifest
      PROVE  KeepsPage
  BY <1>0, <1>2 DEF KeepsPage
<1>3. CASE dep' # dep
  <2>1. PICK o \in Ops : WritesRow(o)
    BY <1>3, RowChanges
  <2>2. CASE InsertRow(o)
    <3>1. /\ dep' = [dep EXCEPT ![ver[o]] = NewRow(o)] /\ ver[o] \in Versions
          /\ ~Present(ver[o])
      BY <1>3, <2>2 DEF InsertRow, InsertAllowed, Fail, page, Filed, Typed, Located
    <3>2. dep[ver[o]] = NoRow
      BY <3>1 DEF Filed, Blank
    <3>3. /\ NewRow(o).active = dep[ver[o]].active
          /\ NewRow(o).manifest = dep[ver[o]].manifest
      BY <3>2 DEF NewRow, NoRow
    <3> QED BY <1>2, <3>1, <3>3
  <2>3. CASE InsertTree(o)
    <3>1. dep' = [dep EXCEPT ![ver[o]] = [dep[ver[o]] EXCEPT !.tree = TRUE]]
      BY <2>3 DEF InsertTree
    <3>2. ver[o] \in Versions
      BY <2>3, RowHeld DEF InsertTree, Move, HasRow
    <3> QED BY <1>0, <3>1, <3>2 DEF KeepsPage, Row
  <2>4. CASE PersistManifest(o)
    <3>1. dep' = [dep EXCEPT ![ver[o]] = [dep[ver[o]] EXCEPT !.manifest = TRUE]]
      BY <2>4 DEF PersistManifest
    <3>2. ver[o] \in Versions
      BY <2>4, RowHeld DEF PersistManifest, Move, HasRow
    <3>3. StoresManifest(ver[o])
      BY <1>0, <3>1, <3>2 DEF StoresManifest, Row
    <3> QED BY <3>2, <3>3
  <2>5. CASE CheckNewer(o)
    <3>1. dep' = [dep EXCEPT ![ver[o]] = [dep[ver[o]] EXCEPT !.status = "superseded"]]
      BY <1>3, <2>5 DEF CheckNewer, page
    <3>2. ver[o] \in Versions
      BY <2>5, RowHeld DEF CheckNewer, HasRow
    <3> QED BY <1>0, <3>1, <3>2 DEF KeepsPage, Row
  <2>6. CASE ErrMark(o) \/ JobMark(o)
    <3>1. dep' = [dep EXCEPT ![cur[o]] = [dep[cur[o]] EXCEPT !.status = "failed"]]
      BY <2>6 DEF ErrMark, JobMark, MarkFailed
    <3>2. cur[o] \in Versions
      BY <2>6, RowHeld DEF ErrMark, JobMark, MarkFailed, Move
    <3> QED BY <1>0, <3>1, <3>2 DEF KeepsPage, Row
  <2>7. CASE TxWrite(o)
    <3>1. dep' = Activated(o) /\ TableAccepts(dep') /\ pc[o] = "txWrite"
      BY <1>3, <2>7 DEF TxWrite, Fail, page
    <3>2. ver[o] \in Versions
      BY <3>1, RowHeld DEF HasRow
    <3>3. SwitchesTo(ver[o])
      BY <1>0, <3>1, <3>2 DEF SwitchesTo, Activated, WentLive, Superseded, Row
    <3> QED BY <3>2, <3>3
  <2> QED BY <2>1, <2>2, <2>3, <2>4, <2>5, <2>6, <2>7 DEF WritesRow
<1> QED BY <1>1, <1>3

-----------------------------------------------------------------------------
LEMMA OneLiveInit == Init => OneLiveDeployment
<1> SUFFICES ASSUME Init PROVE OneLiveDeployment
  OBVIOUS
<1>1. \A v \in Versions : dep[v].active => v = Seed /\ dep[v].manifest
  <2> SUFFICES ASSUME NEW v \in Versions, dep[v].active
               PROVE  v = Seed /\ dep[v].manifest
    OBVIOUS
  <2>1. dep[v] = SeedRow(v)
    BY DEF Init
  <2>2. ~(v > Seed)
    BY <2>1 DEF SeedRow, NoRow
  <2>3. dep[v].active = (v = Seed)
    <3>1. SeedRow(v).active = (v = Seed)
      BY <2>2, Zenon DEF SeedRow
    <3> QED BY <2>1, <3>1
  <2>4. dep[v].manifest = TRUE
    BY <2>1, <2>2 DEF SeedRow
  <2> QED BY <2>3, <2>4
<1> QED BY <1>1 DEF OneLiveDeployment

LEMMA OneLiveStep ==
    Filed /\ OneLiveDeployment /\ [Next]_vars => OneLiveDeployment'
<1> SUFFICES ASSUME Filed, OneLiveDeployment, [Next]_vars PROVE OneLiveDeployment'
  OBVIOUS
<1>1. CASE KeepsPage
  BY <1>1 DEF KeepsPage, OneLiveDeployment
<1>2. ASSUME NEW w \in Versions, StoresManifest(w) PROVE OneLiveDeployment'
  BY <1>2 DEF StoresManifest, OneLiveDeployment
<1>3. ASSUME NEW w \in Versions, SwitchesTo(w) PROVE OneLiveDeployment'
  BY <1>3 DEF SwitchesTo, TableAccepts, OneLiveDeployment
<1> QED BY <1>1, <1>2, <1>3, PageEffect

LEMMA FiledAlways == Spec => [](Filed /\ OneLiveDeployment)
BY FiledInit, FiledStep, OneLiveInit, OneLiveStep, PTL DEF Spec

(* Whatever happens to the lock, at most one deployment is live and it has *)
(* a persisted manifest: the activation transactions, the partial unique   *)
(* index and the CHECK constraint are enough.                              *)
THEOREM OneLive == Spec => []OneLiveDeployment
BY FiledAlways, PTL

-----------------------------------------------------------------------------
(* The live version is well defined.                                       *)
LEMMA LiveExact ==
    ASSUME NEW rows \in [Versions -> Row],
           \A v, w \in Versions : rows[v].active /\ rows[w].active => v = w
    PROVE  \E n \in MaybeVersion : \A m \in MaybeVersion :
              (IF m \in Versions THEN rows[m].active
               ELSE \A v \in Versions : ~rows[v].active) <=> m = n
<1>1. Versions \subseteq MaybeVersion /\ 0 \in MaybeVersion /\ 0 \notin Versions
      /\ \A m \in MaybeVersion : m \in Versions \/ m = 0
  BY ConstantsAssumption DEF Versions, MaybeVersion
<1>2. CASE \E v \in Versions : rows[v].active
  BY <1>1, <1>2
<1>3. CASE \A v \in Versions : ~rows[v].active
  BY <1>1, <1>3
<1> QED BY <1>2, <1>3

LEMMA LiveIs ==
    ASSUME Filed, OneLiveDeployment
    PROVE  /\ LiveVersion \in MaybeVersion
           /\ \A m \in MaybeVersion : IsLive(m) <=> m = LiveVersion
<1>1. PICK n \in MaybeVersion : \A m \in MaybeVersion : IsLive(m) <=> m = n
  BY LiveExact DEF IsLive, OneLiveDeployment, Filed, Typed, TypeOK
<1>2. LiveVersion = n
  BY <1>1 DEF LiveVersion
<1> QED BY <1>1, <1>2

LEMMA PageInit == Init => Page!Init
<1> SUFFICES ASSUME Init PROVE Page!Init
  OBVIOUS
<1>1. Filed /\ OneLiveDeployment
  BY FiledInit, OneLiveInit
<1>2. LiveVersion \in {0} \cup ReadyVersions
  <2>1. LiveVersion \in MaybeVersion /\ IsLive(LiveVersion)
    BY <1>1, LiveIs
  <2>2. LiveVersion \in Versions => dep[LiveVersion].manifest
    BY <1>1, <2>1 DEF IsLive, OneLiveDeployment
  <2> QED BY <2>1, <2>2, ConstantsAssumption DEF ReadyVersions, MaybeVersion, Versions
<1> QED BY <1>2 DEF Page!Init, ReadyVersions, Versions

LEMMA PageStep ==
    Filed /\ Filed' /\ OneLiveDeployment /\ OneLiveDeployment' /\ [Next]_vars
        => [Page!Next]_<<LiveVersion, ReadyVersions>>
<1> SUFFICES ASSUME Filed, Filed', OneLiveDeployment, OneLiveDeployment', [Next]_vars
             PROVE  [Page!Next]_<<LiveVersion, ReadyVersions>>
  OBVIOUS
<1>0. /\ LiveVersion \in MaybeVersion
      /\ \A m \in MaybeVersion : IsLive(m) <=> m = LiveVersion
  BY LiveIs
<1>1. PICK n \in MaybeVersion : \A m \in MaybeVersion : IsLive(m)' <=> m = n
  BY LiveExact DEF IsLive, OneLiveDeployment, Filed, Typed, TypeOK
<1>2. LiveVersion' = n
  BY <1>1 DEF LiveVersion
<1>3. ASSUME \A v \in Versions : dep'[v].active = dep[v].active
      PROVE  LiveVersion' = LiveVersion
  BY <1>0, <1>1, <1>2, <1>3 DEF IsLive
<1>4. CASE KeepsPage
  BY <1>3, <1>4 DEF KeepsPage, ReadyVersions
<1>5. ASSUME NEW w \in Versions, StoresManifest(w)
      PROVE  [Page!Next]_<<LiveVersion, ReadyVersions>>
  <2>1. LiveVersion' = LiveVersion
    BY <1>3, <1>5 DEF StoresManifest
  <2>2. ReadyVersions' = ReadyVersions \cup {w}
    BY <1>5 DEF StoresManifest, ReadyVersions
  <2> QED BY <2>1, <2>2 DEF Page!Next, Page!Finalise, Versions
<1>6. ASSUME NEW w \in Versions, SwitchesTo(w)
      PROVE  [Page!Next]_<<LiveVersion, ReadyVersions>>
  <2>1. w \in ReadyVersions /\ ReadyVersions' = ReadyVersions
    BY <1>6 DEF SwitchesTo, TableAccepts, ReadyVersions
  <2>2. LiveVersion' = w
    <3>1. IsLive(w)' /\ w \in MaybeVersion
      BY <1>6, ConstantsAssumption DEF SwitchesTo, IsLive, Versions, MaybeVersion
    <3> QED BY <1>1, <1>2, <3>1
  <2> QED BY <2>1, <2>2 DEF Page!Next, Page!GoLive, Versions
<1> QED BY <1>4, <1>5, <1>6, PageEffect

(* The page implements its promise, with no assumption on the lock: it     *)
(* always serves one deployment with a persisted manifest, and once one is *)
(* live it never goes dark.                                                *)
THEOREM KeepsPromise == Spec => PagePromise
<1>1. Init => Page!Init
  BY PageInit
<1>2. Filed /\ Filed' /\ OneLiveDeployment /\ OneLiveDeployment' /\ [Next]_vars
        => [Page!Next]_<<LiveVersion, ReadyVersions>>
  BY PageStep
<1> QED BY <1>1, <1>2, FiledAlways, PTL DEF Spec, PagePromise, Page!Spec

-----------------------------------------------------------------------------
(***************************************************************************)
(* Mutual exclusion of the bodies of withLock and what it buys, for every  *)
(* set of operations and every placement of exceptions and crashes, under  *)
(* the two conditions the lock needs: heartbeats beat on time, and no two  *)
(* live requests use one holder id.                                        *)
(***************************************************************************)

Disciplined == ~LeaseLapses /\ ~DoubleSubmits

(* Inside withLock an op owns the key; owners differ, so exclusion follows. *)
Owned == \A o \in Ops : InLock(o) => lock = Holder(o)
Distinct == \A o, p \in Ops : Live(o) /\ Live(p) /\ o # p => Holder(o) # Holder(p)
Exclusive == Typed /\ Owned /\ Distinct

(* A step of o in its body, in a handler or to its end: nothing of the     *)
(* lock and of the other ops changes, nor does the holder id of o.         *)
Stays(o) ==
    /\ lock' = lock
    /\ Live(o)
    /\ Holder(o)' = Holder(o)
    /\ InLock(o)' => InLock(o)

OthersStay(o) ==
    \A p \in Ops \ {o} : pc'[p] = pc[p] /\ Holder(p)' = Holder(p)

LEMMA ExclusiveExcludes ==
    ASSUME Exclusive PROVE MutualExclusion
BY DEF Exclusive, Owned, Distinct, MutualExclusion, InLock, Live, Running

LEMMA HandlerInLock ==
    ASSUME NEW o \in Ops, Handler(o) \in Guarded
    PROVE  pc[o] \in Guarded
BY DEF Handler, InLock, InTry, AfterLock, Guarded

LEMMA ExclusiveInit == Init => Exclusive
BY TypedInit DEF Init, Exclusive, Owned, Distinct, Live, InLock, Running, Guarded, Outside

(* The four ways a step of o treats the lock.                              *)
LEMMA StayStep ==
    ASSUME Exclusive, NEW o \in Ops, OthersStay(o), Stays(o)
    PROVE  (Owned /\ Distinct)'
BY DEF Exclusive, Owned, Distinct, OthersStay, Stays, InLock, Live, Running

LEMMA BeginStep ==
    ASSUME Exclusive, NEW o \in Ops, OthersStay(o), lock' = lock,
           pc'[o] \notin Guarded,
           \A p \in Ops \ {o} : Live(p) => Holder(p) # Holder(o)'
    PROVE  (Owned /\ Distinct)'
BY DEF Exclusive, Owned, Distinct, OthersStay, InLock, Live, Running

LEMMA TakeStep ==
    ASSUME Exclusive, NEW o \in Ops, OthersStay(o), Live(o), Holder(o)' = Holder(o),
           Acquire(Holder(o))
    PROVE  (Owned /\ Distinct)'
<1>1. \A p \in Ops : Live(p) => pc[p] # "idle"
  BY DEF Live, Running, Guarded, Outside
<1>2. \A p \in Ops : Live(p) => Holder(p) # Free
  BY <1>1, HolderType, ConstantsAssumption DEF Exclusive, Typed
<1>3. \A p \in Ops \ {o} : ~InLock(p)
  BY <1>2 DEF Exclusive, Owned, Distinct, Acquire, Acquirable, InLock, Live, Running
<1> QED BY <1>3 DEF Exclusive, Owned, Distinct, OthersStay, Acquire, InLock, Live, Running

LEMMA DropStep ==
    ASSUME Exclusive, NEW o \in Ops, OthersStay(o), Live(o), Holder(o)' = Holder(o),
           ReleaseLock(Holder(o)), pc'[o] \notin Guarded
    PROVE  (Owned /\ Distinct)'
BY DEF Exclusive, Owned, Distinct, OthersStay, ReleaseLock, InLock, Live, Running

-----------------------------------------------------------------------------
LEMMA ExclusiveStep ==
    ASSUME Disciplined, Exclusive, [Next]_vars PROVE (Owned /\ Distinct)'
<1> USE ConstantsAssumption DEF Exclusive, Typed
<1>0. \A o \in Ops : pc[o] \in Guarded \cup Outside => Live(o)
  BY DEF Live, Running
<1>1. ASSUME NEW o \in Ops, PrepareBegin(o)
      PROVE  (Owned /\ Distinct)'
  <2>1. OthersStay(o) /\ Holder(o)' = Holder(o)
    BY <1>1 DEF PrepareBegin, Move, Goto, TypeOK, OthersStay, Holder
  <2>2. lock' = lock /\ pc'[o] \notin Guarded
    BY <1>1 DEF PrepareBegin, Move, Goto, TypeOK, Guarded
  <2> QED BY <1>1, <2>1, <2>2, BeginStep DEF PrepareBegin, Alone, Disciplined
<1>2. ASSUME NEW o \in Ops, PrepareGet(o)
      PROVE  (Owned /\ Distinct)'
  <2>1. OthersStay(o) /\ Holder(o)' = Holder(o) /\ lock' = lock
    BY <1>2 DEF PrepareGet, Move, Goto, local, TypeOK, OthersStay, Holder
  <2>2. Live(o) /\ (InLock(o)' => InLock(o))
    BY <1>2, <1>0, HandlerInLock DEF PrepareGet, Move, Goto, TypeOK, InLock, Guarded, Outside
  <2> QED BY <2>1, <2>2, StayStep DEF Stays
<1>3. ASSUME NEW o \in Ops, PrepareLock(o)
      PROVE  (Owned /\ Distinct)'
  <2>1. OthersStay(o) /\ Holder(o)' = Holder(o) /\ Live(o)
    BY <1>3, <1>0 DEF PrepareLock, Fail, Goto, local, TypeOK, OthersStay, Holder, Outside
  <2>2. ASSUME Refused(Holder(o)), Fail(o) PROVE Stays(o)
    BY <1>3, <2>1, <2>2, HandlerInLock DEF Refused, Fail, Goto, TypeOK, Stays, InLock
  <2> QED BY <1>3, <2>1, <2>2, StayStep, TakeStep DEF PrepareLock
<1>4. ASSUME NEW o \in Ops, PrepareToken(o)
      PROVE  (Owned /\ Distinct)'
  <2>1. OthersStay(o) /\ Holder(o)' = Holder(o) /\ lock' = lock
    BY <1>4 DEF PrepareToken, Move, Goto, local, TypeOK, OthersStay, Holder
  <2>2. Live(o) /\ (InLock(o)' => InLock(o))
    BY <1>4, <1>0, HandlerInLock DEF PrepareToken, Move, Goto, TypeOK, InLock, Guarded, Outside
  <2> QED BY <2>1, <2>2, StayStep DEF Stays
<1>5. ASSUME NEW o \in Ops, PrepareUndo(o)
      PROVE  (Owned /\ Distinct)'
  <2>1. OthersStay(o) /\ Holder(o)' = Holder(o) /\ Live(o) /\ pc'[o] \notin Guarded
    BY <1>5, <1>0 DEF PrepareUndo, Move, Goto, local, TypeOK, OthersStay, Holder, Guarded, Outside
  <2> QED BY <1>5, <2>1, DropStep DEF PrepareUndo
<1>6. ASSUME NEW o \in Ops, BeginUpload(o)
      PROVE  (Owned /\ Distinct)'
  <2>1. OthersStay(o) /\ Holder(o)' = Holder(o)
    BY <1>6 DEF BeginUpload, Move, Goto, TypeOK, OthersStay, Holder
  <2>2. lock' = lock /\ pc'[o] \notin Guarded
    BY <1>6 DEF BeginUpload, Move, Goto, TypeOK, Guarded
  <2> QED BY <1>6, <2>1, <2>2, BeginStep DEF BeginUpload, Alone, Disciplined
<1>7. ASSUME NEW o \in Ops, BeginBuild(o)
      PROVE  (Owned /\ Distinct)'
  <2>1. OthersStay(o) /\ Holder(o)' = Holder(o)
    BY <1>7 DEF BeginBuild, Move, Goto, TypeOK, OthersStay, Holder
  <2>2. lock' = lock /\ pc'[o] \notin Guarded
    BY <1>7 DEF BeginBuild, Move, Goto, TypeOK, Guarded
  <2> QED BY <1>7, <2>1, <2>2, BeginStep DEF BeginBuild, Alone, Disciplined
<1>8. ASSUME NEW o \in Ops, NEW v \in Versions, BeginRollback(o, v)
      PROVE  (Owned /\ Distinct)'
  <2>1. OthersStay(o)
    BY <1>8 DEF BeginRollback, Move, Goto, local, TypeOK, OthersStay, Holder
  <2>2. Holder(o)' = <<"rollback", v>>
    BY <1>8 DEF BeginRollback, TypeOK, Holder
  <2>3. lock' = lock /\ pc'[o] \notin Guarded
    BY <1>8 DEF BeginRollback, Move, Goto, TypeOK, Guarded
  <2> QED BY <1>8, <2>1, <2>2, <2>3, BeginStep DEF BeginRollback, Alone, Disciplined
<1>9. ASSUME NEW o \in Ops, AcquireLock(o)
      PROVE  (Owned /\ Distinct)'
  <2>1. OthersStay(o) /\ Holder(o)' = Holder(o) /\ Live(o)
    BY <1>9, <1>0 DEF AcquireLock, Fail, Goto, local, TypeOK, OthersStay, Holder, Outside
  <2>2. ASSUME Refused(Holder(o)), Fail(o) PROVE Stays(o)
    BY <1>9, <2>1, <2>2, HandlerInLock DEF Refused, Fail, Goto, TypeOK, Stays, InLock
  <2> QED BY <1>9, <2>1, <2>2, StayStep, TakeStep DEF AcquireLock
<1>10. ASSUME NEW o \in Ops, Heartbeat(o)
      PROVE  (Owned /\ Distinct)'
  <2>1. OthersStay(o) /\ Holder(o)' = Holder(o) /\ Live(o)
    BY <1>10, <1>0 DEF Heartbeat, InLock, local, OthersStay, Holder
  <2> QED BY <1>10, <2>1, TakeStep DEF Heartbeat
<1>11. ASSUME NEW o \in Ops, StoreBlobs(o)
      PROVE  (Owned /\ Distinct)'
  <2>1. OthersStay(o) /\ Holder(o)' = Holder(o) /\ lock' = lock
    BY <1>11 DEF StoreBlobs, Move, Goto, local, TypeOK, OthersStay, Holder
  <2>2. Live(o) /\ (InLock(o)' => InLock(o))
    BY <1>11, <1>0, HandlerInLock DEF StoreBlobs, Move, Goto, TypeOK, InLock, Guarded, Outside
  <2> QED BY <2>1, <2>2, StayStep DEF Stays
<1>12. ASSUME NEW o \in Ops, CheckBase(o)
      PROVE  (Owned /\ Distinct)'
  <2>1. OthersStay(o) /\ Holder(o)' = Holder(o) /\ lock' = lock
    BY <1>12 DEF CheckBase, Fail, Move, Goto, local, TypeOK, OthersStay, Holder
  <2>2. Live(o) /\ (InLock(o)' => InLock(o))
    BY <1>12, <1>0, HandlerInLock DEF CheckBase, Fail, Move, Goto, TypeOK, InLock, Guarded, Outside
  <2> QED BY <2>1, <2>2, StayStep DEF Stays
<1>13. ASSUME NEW o \in Ops, PickNumber(o)
      PROVE  (Owned /\ Distinct)'
  <2>1. Kind[o] # "rollback"
    BY <1>13 DEF PickNumber, Move, TypeOK, Control, StepsOf, Ended
  <2>2. OthersStay(o) /\ Stays(o)
    BY <1>13, <1>0, <2>1 DEF PickNumber, Move, Goto, TypeOK, OthersStay, Stays, Holder, InLock, Guarded
  <2> QED BY <2>2, StayStep
<1>14. ASSUME NEW o \in Ops, InsertRow(o)
      PROVE  (Owned /\ Distinct)'
  <2>1. OthersStay(o) /\ Holder(o)' = Holder(o) /\ lock' = lock
    BY <1>14 DEF InsertRow, Fail, Move, Goto, local, TypeOK, OthersStay, Holder
  <2>2. Live(o) /\ (InLock(o)' => InLock(o))
    BY <1>14, <1>0, HandlerInLock DEF InsertRow, Fail, Move, Goto, TypeOK, InLock, Guarded, Outside
  <2> QED BY <2>1, <2>2, StayStep DEF Stays
<1>15. ASSUME NEW o \in Ops, InsertTree(o)
      PROVE  (Owned /\ Distinct)'
  <2>1. OthersStay(o) /\ Holder(o)' = Holder(o) /\ lock' = lock
    BY <1>15 DEF InsertTree, Move, Goto, local, TypeOK, OthersStay, Holder
  <2>2. Live(o) /\ (InLock(o)' => InLock(o))
    BY <1>15, <1>0, HandlerInLock DEF InsertTree, Move, Goto, TypeOK, InLock, Guarded, Outside
  <2> QED BY <2>1, <2>2, StayStep DEF Stays
<1>16. ASSUME NEW o \in Ops, PersistManifest(o)
      PROVE  (Owned /\ Distinct)'
  <2>1. OthersStay(o) /\ Holder(o)' = Holder(o) /\ lock' = lock
    BY <1>16 DEF PersistManifest, Move, Goto, local, TypeOK, OthersStay, Holder
  <2>2. Live(o) /\ (InLock(o)' => InLock(o))
    BY <1>16, <1>0, HandlerInLock DEF PersistManifest, Move, Goto, TypeOK, InLock, Guarded, Outside
  <2> QED BY <2>1, <2>2, StayStep DEF Stays
<1>17. ASSUME NEW o \in Ops, CheckNewer(o)
      PROVE  (Owned /\ Distinct)'
  <2>1. OthersStay(o) /\ Holder(o)' = Holder(o) /\ lock' = lock
    BY <1>17 DEF CheckNewer, Fail, Move, Goto, local, TypeOK, OthersStay, Holder
  <2>2. Live(o) /\ (InLock(o)' => InLock(o))
    BY <1>17, <1>0, HandlerInLock DEF CheckNewer, Fail, Move, Goto, TypeOK, InLock, Guarded, Outside
  <2> QED BY <2>1, <2>2, StayStep DEF Stays
<1>18. ASSUME NEW o \in Ops, AssertHeld(o)
      PROVE  (Owned /\ Distinct)'
  <2>1. OthersStay(o) /\ Holder(o)' = Holder(o) /\ lock' = lock
    BY <1>18 DEF AssertHeld, Fail, Move, Goto, local, TypeOK, OthersStay, Holder
  <2>2. Live(o) /\ (InLock(o)' => InLock(o))
    BY <1>18, <1>0, HandlerInLock DEF AssertHeld, Fail, Move, Goto, TypeOK, InLock, Guarded, Outside
  <2> QED BY <2>1, <2>2, StayStep DEF Stays
<1>19. ASSUME NEW o \in Ops, TxRead(o)
      PROVE  (Owned /\ Distinct)'
  <2>1. OthersStay(o) /\ Holder(o)' = Holder(o) /\ lock' = lock
    BY <1>19 DEF TxRead, Move, Goto, local, TypeOK, OthersStay, Holder
  <2>2. Live(o) /\ (InLock(o)' => InLock(o))
    BY <1>19, <1>0, HandlerInLock DEF TxRead, Move, Goto, TypeOK, InLock, Guarded, Outside
  <2> QED BY <2>1, <2>2, StayStep DEF Stays
<1>20. ASSUME NEW o \in Ops, TxWrite(o)
      PROVE  (Owned /\ Distinct)'
  <2>1. OthersStay(o) /\ Holder(o)' = Holder(o) /\ lock' = lock
    BY <1>20 DEF TxWrite, Fail, Move, Goto, local, TypeOK, OthersStay, Holder
  <2>2. Live(o) /\ (InLock(o)' => InLock(o))
    BY <1>20, <1>0, HandlerInLock DEF TxWrite, Fail, Move, Goto, TypeOK, InLock, Guarded, Outside
  <2> QED BY <2>1, <2>2, StayStep DEF Stays
<1>21. ASSUME NEW o \in Ops, SetActive(o)
      PROVE  (Owned /\ Distinct)'
  <2>1. OthersStay(o) /\ Holder(o)' = Holder(o) /\ lock' = lock
    BY <1>21 DEF SetActive, Move, Goto, local, TypeOK, OthersStay, Holder
  <2>2. Live(o) /\ (InLock(o)' => InLock(o))
    BY <1>21, <1>0, HandlerInLock DEF SetActive, Move, Goto, TypeOK, InLock, Guarded, Outside
  <2> QED BY <2>1, <2>2, StayStep DEF Stays
<1>22. ASSUME NEW o \in Ops, Publish(o)
      PROVE  (Owned /\ Distinct)'
  <2>1. OthersStay(o) /\ Holder(o)' = Holder(o) /\ lock' = lock
    BY <1>22 DEF Publish, Move, Goto, local, TypeOK, OthersStay, Holder
  <2>2. Live(o) /\ (InLock(o)' => InLock(o))
    BY <1>22, <1>0, HandlerInLock DEF Publish, Move, Goto, TypeOK, InLock, Guarded, Outside
  <2> QED BY <2>1, <2>2, StayStep DEF Stays
<1>23. ASSUME NEW o \in Ops, CompleteUpload(o)
      PROVE  (Owned /\ Distinct)'
  <2>1. OthersStay(o) /\ Holder(o)' = Holder(o) /\ lock' = lock
    BY <1>23 DEF CompleteUpload, Move, Goto, local, TypeOK, OthersStay, Holder
  <2>2. Live(o) /\ (InLock(o)' => InLock(o))
    BY <1>23, <1>0, HandlerInLock DEF CompleteUpload, Move, Goto, TypeOK, InLock, Guarded, Outside
  <2> QED BY <2>1, <2>2, StayStep DEF Stays
<1>24. ASSUME NEW o \in Ops, Release(o)
      PROVE  (Owned /\ Distinct)'
  <2>1. OthersStay(o) /\ Holder(o)' = Holder(o) /\ Live(o) /\ pc'[o] \notin Guarded
    BY <1>24, <1>0 DEF Release, AfterLock, Move, Goto, local, TypeOK, OthersStay, Holder, Guarded, Outside
  <2> QED BY <1>24, <2>1, DropStep DEF Release
<1>25. ASSUME NEW o \in Ops, ErrSelect(o)
      PROVE  (Owned /\ Distinct)'
  <2>1. OthersStay(o) /\ Holder(o)' = Holder(o) /\ lock' = lock
    BY <1>25 DEF ErrSelect, SelectPending, Move, Goto, local, TypeOK, OthersStay, Holder
  <2>2. Live(o) /\ (InLock(o)' => InLock(o))
    BY <1>25, <1>0, HandlerInLock DEF ErrSelect, SelectPending, Move, Goto, TypeOK, InLock, Guarded, Outside
  <2> QED BY <2>1, <2>2, StayStep DEF Stays
<1>26. ASSUME NEW o \in Ops, ErrMark(o)
      PROVE  (Owned /\ Distinct)'
  <2>1. OthersStay(o) /\ Holder(o)' = Holder(o) /\ lock' = lock
    BY <1>26 DEF ErrMark, MarkFailed, Move, Goto, local, TypeOK, OthersStay, Holder
  <2>2. Live(o) /\ (InLock(o)' => InLock(o))
    BY <1>26, <1>0, HandlerInLock DEF ErrMark, MarkFailed, Move, Goto, TypeOK, InLock, Guarded, Outside
  <2> QED BY <2>1, <2>2, StayStep DEF Stays
<1>27. ASSUME NEW o \in Ops, JobSelect(o)
      PROVE  (Owned /\ Distinct)'
  <2>1. OthersStay(o) /\ Holder(o)' = Holder(o) /\ lock' = lock
    BY <1>27 DEF JobSelect, SelectPending, Move, Goto, local, TypeOK, OthersStay, Holder
  <2>2. Live(o) /\ (InLock(o)' => InLock(o))
    BY <1>27, <1>0, HandlerInLock DEF JobSelect, SelectPending, Move, Goto, TypeOK, InLock, Guarded, Outside
  <2> QED BY <2>1, <2>2, StayStep DEF Stays
<1>28. ASSUME NEW o \in Ops, JobMark(o)
      PROVE  (Owned /\ Distinct)'
  <2>1. OthersStay(o) /\ Holder(o)' = Holder(o) /\ lock' = lock
    BY <1>28 DEF JobMark, MarkFailed, Move, Goto, local, TypeOK, OthersStay, Holder
  <2>2. Live(o) /\ (InLock(o)' => InLock(o))
    BY <1>28, <1>0, HandlerInLock DEF JobMark, MarkFailed, Move, Goto, TypeOK, InLock, Guarded, Outside
  <2> QED BY <2>1, <2>2, StayStep DEF Stays
<1>29. ASSUME NEW o \in Ops, Throw(o)
      PROVE  (Owned /\ Distinct)'
  <2>1. Live(o) /\ pc' = [pc EXCEPT ![o] = Handler(o)] /\ ver' = ver /\ lock' = lock
    BY <1>29 DEF Throw, Fail, Goto, local, Live
  <2>2. OthersStay(o) /\ Holder(o)' = Holder(o)
    BY <2>1 DEF TypeOK, OthersStay, Holder
  <2>3. InLock(o)' => InLock(o)
    BY <2>1, HandlerInLock DEF TypeOK, InLock, Guarded
  <2> QED BY <2>1, <2>2, <2>3, StayStep DEF Stays
<1>30. ASSUME NEW o \in Ops, Crash(o)
      PROVE  (Owned /\ Distinct)'
  <2>1. Live(o) /\ pc' = [pc EXCEPT ![o] = "dead"] /\ ver' = ver /\ lock' = lock
    BY <1>30 DEF Crash, Goto, local, Live
  <2>2. OthersStay(o) /\ Holder(o)' = Holder(o)
    BY <2>1 DEF TypeOK, OthersStay, Holder
  <2>3. InLock(o)' => InLock(o)
    BY <2>1, HandlerInLock DEF TypeOK, InLock, Guarded
  <2> QED BY <2>1, <2>2, <2>3, StayStep DEF Stays
<1>31. ASSUME TtlLapse PROVE (Owned /\ Distinct)'
  <2>1. \A o \in Ops : ~InLock(o)
    BY <1>31 DEF TtlLapse, LapseGuard, IsHeldBy, Disciplined, Owned
  <2>2. pc' = pc /\ ver' = ver
    BY <1>31 DEF TtlLapse, local
  <2> QED BY <2>1, <2>2 DEF Owned, Distinct, InLock, Live, Holder
<1>32. CASE UNCHANGED vars
  BY <1>32 DEF vars, local, Owned, Distinct, InLock, Live, Holder
<1> QED
  BY <1>1, <1>2, <1>3, <1>4, <1>5, <1>6, <1>7, <1>8, <1>9, <1>10, <1>11, <1>12, <1>13, <1>14, <1>15, <1>16, <1>17, <1>18, <1>19, <1>20, <1>21, <1>22, <1>23, <1>24, <1>25, <1>26, <1>27, <1>28, <1>29, <1>30, <1>31, <1>32
  DEF Next, Begin, Advance, Quiescent

(* With heartbeats on time and distinct holder ids, at most one request or *)
(* job is ever between the acquire and the release of withLock, whatever   *)
(* throws or dies, and for any number of them.                             *)
THEOREM Exclusion ==
    ASSUME Disciplined PROVE Spec => []MutualExclusion
<1>1. Init => Exclusive
  BY ExclusiveInit
<1>2. Exclusive /\ [Next]_vars => Exclusive'
  BY ExclusiveStep, TypedStep DEF Exclusive
<1>3. Exclusive => MutualExclusion
  BY ExclusiveExcludes
<1> QED BY <1>1, <1>2, <1>3, PTL DEF Spec

-----------------------------------------------------------------------------
(* What the lock is for: what an op read of the table stays true until it  *)
(* has written it.                                                         *)

(* From the INSERT of a deployment to its activation, and from the stored  *)
(* manifest on.                                                            *)
Made == {"tree", "manifest", "newer", "assert", "txRead", "txWrite"}
Served == {"newer", "assert", "txRead", "txWrite"}

(* An upload has seen every deployment but its own.                        *)
SeesAll(o) ==
    /\ pc[o] \in {"number", "insert"} =>
          \A v \in Versions : Present(v) => v <= base[o]
    /\ pc[o] \in Made =>
          \A v \in Versions : Present(v) => v <= base[o] \/ v = ver[o]

(* The number picked is free, and the deployment made with it the newest   *)
(* of the page, pending, and of the op's own build.                        *)
OwnsRow(o) ==
    /\ pc[o] = "insert" => \A v \in Versions : Present(v) => v < ver[o]
    /\ pc[o] \in Made =>
          /\ \A v \in Versions : Present(v) => v <= ver[o]
          /\ dep[ver[o]].status = "pending"
          /\ dep[ver[o]].build = IF Kind[o] = "build" THEN Ref[o] ELSE None

WorkAt(o) ==
    /\ Kind[o] = "upload" => SeesAll(o)
    /\ Commits(o) => OwnsRow(o)
    /\ pc[o] \in Served => dep[ver[o]].manifest
    /\ pc[o] = "txWrite" => IsLive(cur[o])
    /\ pc[o] = "setActive" => IsLive(ver[o])
    /\ pc[o] = "jobMark" => dep[cur[o]].build = Ref[o]

Working == \A o \in Ops : WorkAt(o)

Fenced == Filed /\ OneLiveDeployment /\ Exclusive /\ Working

Fragile == Made \cup {"number", "insert", "setActive", "jobMark"}

LEMMA NotFragile ==
    ASSUME NEW o \in Ops, pc[o] \notin Fragile
    PROVE  WorkAt(o)
BY DEF WorkAt, SeesAll, OwnsRow, Fragile, Made, Served

LEMMA HandlerNotFragile ==
    ASSUME NEW o \in Ops PROVE Handler(o) \notin Fragile
BY DEF Handler, AfterLock, Fragile, Made

(* The build of a row never changes.                                       *)
LEMMA BuildStays ==
    ASSUME Filed, [Next]_vars, NEW v \in Versions, Present(v)
    PROVE  dep'[v].build = dep[v].build
<1>0. dep \in [Versions -> Row]
  BY DEF Filed, Typed, TypeOK
<1>1. CASE dep' # dep
  <2>1. PICK o \in Ops : WritesRow(o)
    BY <1>1, RowChanges
  <2>2. CASE InsertRow(o)
    BY <1>0, <1>1, <2>2 DEF InsertRow, InsertAllowed, Fail, page
  <2>3. CASE InsertTree(o) \/ PersistManifest(o) \/ CheckNewer(o)
    <3>1. CASE InsertTree(o)
      BY <1>0, <3>1 DEF InsertTree, Row
    <3>2. CASE PersistManifest(o)
      BY <1>0, <3>2 DEF PersistManifest, Row
    <3>3. CASE CheckNewer(o)
      BY <1>0, <1>1, <3>3 DEF CheckNewer, page, Row
    <3> QED BY <2>3, <3>1, <3>2, <3>3
  <2>4. CASE ErrMark(o) \/ JobMark(o)
    BY <1>0, <2>4 DEF ErrMark, JobMark, MarkFailed, Row
  <2>5. CASE TxWrite(o)
    <3>1. dep' = Activated(o)
      BY <1>1, <2>5 DEF TxWrite, Fail, page
    <3> QED BY <1>0, <3>1 DEF Activated, WentLive, Superseded, Row
  <2> QED BY <2>1, <2>2, <2>3, <2>4, <2>5 DEF WritesRow
<1> QED BY <1>1

(* Every writer but the worker's catch is inside withLock.                 *)
LEMMA WritersLock ==
    ASSUME NEW o \in Ops, WritesRow(o), ~JobMark(o)
    PROVE  InLock(o)
BY DEF WritesRow, InsertRow, InsertTree, PersistManifest, CheckNewer, TxWrite, ErrMark,
       MarkFailed, Move, InLock, Guarded

LEMMA FragileLock ==
    ASSUME NEW o \in Ops, pc[o] \in Fragile, pc[o] # "jobMark"
    PROVE  InLock(o)
BY DEF Fragile, Made, InLock, Guarded

(* The worker's catch does not touch the row of a commit under way: that   *)
(* would be one of the same build, and so the same op.                     *)
LEMMA MarkElsewhere ==
    ASSUME Fenced, NEW o \in Ops, NEW q \in Ops \ {o}, JobMark(o),
           Commits(q), pc[q] \in Made
    PROVE  cur[o] # ver[q]
<1> SUFFICES ASSUME cur[o] = ver[q] PROVE FALSE
  OBVIOUS
<1>1. pc[o] = "jobMark"
  BY DEF JobMark, MarkFailed, Move
<1>2. Kind[o] = "build"
  BY <1>1, ConstantsAssumption DEF Fenced, Filed, Typed, Control, StepsOf, Ended, Kinds, Guarded
<1>3. dep[ver[q]].build = Ref[o]
  BY <1>1 DEF Fenced, Working, WorkAt
<1>4. Kind[q] = "build" /\ Ref[q] = Ref[o]
  BY <1>3, ConstantsAssumption DEF Fenced, Working, WorkAt, OwnsRow
<1>5. Live(o) /\ Live(q)
  BY <1>1 DEF Live, Running, Guarded, Outside, Made
<1> QED BY <1>2, <1>4, <1>5 DEF Fenced, Exclusive, Distinct, Holder

(* A step of one op leaves what another works on as it was.                *)
LEMMA OthersWork ==
    ASSUME Fenced, [Next]_vars, NEW q \in Ops,
           pc'[q] = pc[q], ver'[q] = ver[q], cur'[q] = cur[q], base'[q] = base[q],
           \A o \in Ops : WritesRow(o) => o # q
    PROVE  WorkAt(q)'
<1>0. dep \in [Versions -> Row] /\ Filed
  BY DEF Fenced, Filed, Typed, TypeOK
<1>1. WorkAt(q)
  BY DEF Fenced, Working
<1>2. CASE dep' = dep
  BY <1>1, <1>2 DEF WorkAt, SeesAll, OwnsRow, IsLive, Present
<1>3. CASE dep' # dep
  <2>1. PICK o \in Ops : WritesRow(o)
    BY <1>3, RowChanges
  <2>2. q # o
    BY <2>1
  <2>3. CASE ~JobMark(o)
    <3>1. ~InLock(q)
      BY <2>1, <2>2, <2>3, WritersLock, ExclusiveExcludes DEF Fenced, MutualExclusion
    <3>2. CASE pc[q] = "jobMark"
      <4>1. cur[q] \in Versions /\ Present(cur[q])
        BY <1>0, <3>2, RowHeld
      <4>2. dep'[cur[q]].build = Ref[q]
        BY <1>0, <1>1, <3>2, <4>1, BuildStays DEF WorkAt
      <4> QED BY <3>2, <4>2 DEF WorkAt, SeesAll, OwnsRow, Made, Served
    <3>3. CASE pc[q] # "jobMark"
      BY <3>1, <3>3, FragileLock, NotFragile
         DEF WorkAt, SeesAll, OwnsRow, Fragile, Made, Served
    <3> QED BY <3>2, <3>3
  <2>4. CASE JobMark(o)
    <3> DEFINE w == cur[o]
    <3>1. w \in Versions /\ Present(w)
      BY <1>0, <2>4, RowHeld DEF JobMark, MarkFailed, Move
    <3>2. dep' = [dep EXCEPT ![w].status = "failed"]
      BY <2>4 DEF JobMark, MarkFailed
    <3>3. \A v \in Versions :
              /\ dep'[v].active = dep[v].active /\ dep'[v].manifest = dep[v].manifest
              /\ dep'[v].build = dep[v].build
              /\ dep'[v].status = IF v = w THEN "failed" ELSE dep[v].status
      BY <1>0, <3>1, <3>2 DEF Row
    <3>4. Commits(q) /\ pc[q] \in Made => w # ver[q]
      BY <2>2, <2>4, MarkElsewhere
    <3>5. /\ pc[q] \in HasRow => ver[q] \in Versions
          /\ pc[q] = "jobMark" => cur[q] \in Versions
      BY <1>0, RowHeld
    <3> HIDE DEF w
    <3>6. \A v \in Versions : Present(v)' <=> Present(v)
      BY <3>1, <3>3 DEF Present
    <3>7. \A n : IsLive(n)' <=> IsLive(n)
      BY <3>3 DEF IsLive
    <3>8. (Kind[q] = "upload" => SeesAll(q)')
      BY <1>1, <3>6 DEF WorkAt, SeesAll
    <3>9. (Commits(q) => OwnsRow(q)')
      BY <1>1, <3>3, <3>4, <3>5, <3>6 DEF WorkAt, OwnsRow, Made, HasRow
    <3>10. pc[q] \in Served => dep'[ver[q]].manifest
      BY <1>1, <3>3, <3>5 DEF WorkAt, Served, HasRow
    <3> QED BY <1>1, <3>3, <3>5, <3>7, <3>8, <3>9, <3>10 DEF WorkAt, Commits
  <2> QED BY <2>3, <2>4
<1> QED BY <1>2, <1>3

(* An op goes on with what it works on.                                    *)
LEMMA PickNumberWork ==
    ASSUME Fenced, NEW o \in Ops, PickNumber(o)
    PROVE  WorkAt(o)'
<1>1. PICK n \in MaybeVersion : IsLatest(n) /\ ver' = [ver EXCEPT ![o] = n + 1]
  BY DEF PickNumber
<1>2. pc[o] = "number" /\ pc'[o] = "insert" /\ ver'[o] = n + 1 /\ UNCHANGED <<dep, base>>
  BY <1>1 DEF PickNumber, Move, Goto, page, Fenced, Filed, Typed, TypeOK
<1>3. n \in Nat /\ \A v \in Versions : v \in Nat /\ (Present(v) => v <= n)
  BY <1>1, ConstantsAssumption DEF IsLatest, MaybeVersion, Versions
<1>4. \A v \in Versions : Present(v) => v < n + 1
  BY <1>3
<1>5. Kind[o] = "upload" => \A v \in Versions : Present(v) => v <= base[o]
  BY <1>2 DEF Fenced, Working, WorkAt, SeesAll
<1> QED BY <1>2, <1>4, <1>5 DEF WorkAt, SeesAll, OwnsRow, Made, Served, Present

LEMMA InsertRowWork ==
    ASSUME Fenced, [Next]_vars, NEW o \in Ops, InsertRow(o)
    PROVE  WorkAt(o)'
<1>0. dep \in [Versions -> Row] /\ ver[o] \in Versions /\ pc[o] = "insert"
  BY DEF InsertRow, Fenced, Filed, Typed, TypeOK, Located
<1>1. CASE ~InsertAllowed(o)
  <2>1. pc'[o] = Handler(o)
    BY <1>1 DEF InsertRow, Fail, Goto, Fenced, Filed, Typed, TypeOK
  <2> QED BY <2>1, HandlerNotFragile DEF WorkAt, SeesAll, OwnsRow, Fragile, Made, Served
<1>2. CASE InsertAllowed(o)
  <2>1. /\ dep' = [dep EXCEPT ![ver[o]] = NewRow(o)]
        /\ pc'[o] = "tree" /\ UNCHANGED <<ver, base>>
    BY <1>2 DEF InsertRow, Goto, local, Fenced, Filed, Typed, TypeOK
  <2>2. dep'[ver[o]] = NewRow(o) /\ \A v \in Versions \ {ver[o]} : dep'[v] = dep[v]
    BY <1>0, <2>1
  <2>3. \A v \in Versions : Present(v)' => v = ver[o] \/ Present(v)
    BY <2>2 DEF Present
  <2>4. Kind[o] = "upload" => SeesAll(o)'
    BY <1>0, <2>1, <2>3 DEF Fenced, Working, WorkAt, SeesAll, Made
  <2>5. Commits(o) => \A v \in Versions : Present(v)' => v <= ver[o]
    BY <1>0, <2>3 DEF Fenced, Working, WorkAt, OwnsRow, Versions
  <2>6. /\ dep'[ver[o]].status = "pending"
        /\ dep'[ver[o]].build = IF Kind[o] = "build" THEN Ref[o] ELSE None
    BY <2>2 DEF NewRow
  <2>7. Commits(o) => OwnsRow(o)'
    BY <2>1, <2>5, <2>6 DEF OwnsRow, Made, Present
  <2> QED BY <2>1, <2>4, <2>7 DEF WorkAt, Served, Commits
<1> QED BY <1>1, <1>2

(* Steps between the INSERT and the activation that keep the number, the   *)
(* base, the status and the build.                                         *)
LEMMA WorkGoesOn ==
    ASSUME Fenced, NEW o \in Ops, pc[o] \in Made, UNCHANGED <<ver, base>>,
           \A v \in Versions : /\ Present(v)' => Present(v)
                               /\ dep'[v].status = dep[v].status
                               /\ dep'[v].build = dep[v].build,
           pc'[o] \in Made, pc'[o] \in Served => dep'[ver[o]].manifest,
           pc'[o] = "txWrite" => IsLive(cur[o])'
    PROVE  WorkAt(o)'
<1>1. ver[o] \in Versions
  BY DEF Fenced, Filed, Typed, Located, Made, HasRow
<1>2. WorkAt(o)
  BY DEF Fenced, Working
<1>3. Kind[o] = "upload" => SeesAll(o)'
  BY <1>2 DEF WorkAt, SeesAll, Made
<1>4. Commits(o) => OwnsRow(o)'
  BY <1>1, <1>2 DEF WorkAt, OwnsRow, Made
<1> QED BY <1>3, <1>4 DEF WorkAt, Made, Commits

LEMMA MakingWork ==
    ASSUME Fenced, NEW o \in Ops,
           \/ InsertTree(o) \/ PersistManifest(o) \/ CheckNewer(o) \/ AssertHeld(o) \/ TxRead(o)
    PROVE  WorkAt(o)'
<1>0. /\ dep \in [Versions -> Row] /\ pc \in [Ops -> Steps] /\ cur \in [Ops -> MaybeVersion]
      /\ pc[o] \in HasRow => ver[o] \in Versions
  BY DEF Fenced, Filed, Typed, TypeOK, Located
<1>1. CASE InsertTree(o)
  <2>1. /\ pc[o] = "tree" /\ pc'[o] = "manifest" /\ UNCHANGED <<ver, base>>
        /\ \A v \in Versions : /\ dep'[v].status = dep[v].status
                               /\ dep'[v].build = dep[v].build
    BY <1>0, <1>1 DEF InsertTree, Move, Goto, local, Row
  <2> QED BY <2>1, WorkGoesOn DEF Made, Served, Present
<1>2. CASE PersistManifest(o)
  <2>1. /\ pc[o] = "manifest" /\ pc'[o] \in {"newer", "assert"} /\ UNCHANGED <<ver, base>>
        /\ \A v \in Versions : /\ dep'[v].status = dep[v].status
                               /\ dep'[v].build = dep[v].build
    BY <1>0, <1>2 DEF PersistManifest, Move, Goto, local, Row
  <2>2. dep'[ver[o]].manifest = TRUE
    BY <1>0, <1>2, <2>1 DEF PersistManifest, HasRow, Row
  <2> QED BY <2>1, <2>2, WorkGoesOn DEF Made, Served, Present
<1>3. CASE CheckNewer(o)
  <2>1. CASE pc'[o] = "assert" /\ UNCHANGED <<dep, ver, base>>
    <3>1. dep[ver[o]].manifest /\ pc[o] = "newer"
      BY <1>3 DEF CheckNewer, Fenced, Working, WorkAt, Served
    <3> QED BY <2>1, <3>1, WorkGoesOn DEF Made, Served, Present
  <2>2. CASE pc'[o] = Handler(o)
    BY <2>2, HandlerNotFragile DEF WorkAt, SeesAll, OwnsRow, Fragile, Made, Served
  <2> QED BY <1>0, <1>3, <2>1, <2>2 DEF CheckNewer, Goto, page, local
<1>4. CASE AssertHeld(o)
  <2>1. CASE pc'[o] = "txRead" /\ UNCHANGED <<dep, ver, base>>
    <3>1. dep[ver[o]].manifest /\ pc[o] = "assert"
      BY <1>4 DEF AssertHeld, Fenced, Working, WorkAt, Served
    <3> QED BY <2>1, <3>1, WorkGoesOn DEF Made, Served, Present
  <2>2. CASE pc'[o] = Handler(o)
    BY <2>2, HandlerNotFragile DEF WorkAt, SeesAll, OwnsRow, Fragile, Made, Served
  <2> QED BY <1>0, <1>4, <2>1, <2>2 DEF AssertHeld, Fail, Goto, page, local
<1>5. CASE TxRead(o)
  <2>1. /\ pc[o] = "txRead" /\ pc'[o] = "txWrite" /\ UNCHANGED <<dep, ver, base>>
    BY <1>0, <1>5 DEF TxRead, Move, Goto, page
  <2>2. dep[ver[o]].manifest
    BY <2>1 DEF Fenced, Working, WorkAt, Served
  <2>3. IsLive(cur'[o])
    BY <1>0, <1>5 DEF TxRead
  <2>4. IsLive(cur[o])'
    BY <2>1, <2>3 DEF IsLive
  <2> QED BY <2>1, <2>2, <2>4, WorkGoesOn DEF Made, Served, Present
<1> QED BY <1>1, <1>2, <1>3, <1>4, <1>5

LEMMA TxWriteWork ==
    ASSUME Fenced, NEW o \in Ops, TxWrite(o)
    PROVE  /\ WorkAt(o)'
           /\ pc'[o] = "setActive" => ver'[o] = ver[o] /\ IsLive(ver[o])'
<1>0. /\ dep \in [Versions -> Row] /\ pc \in [Ops -> Steps]
      /\ ver[o] \in Versions /\ pc[o] = "txWrite"
  BY DEF TxWrite, Fenced, Filed, Typed, TypeOK, Located, HasRow
<1>1. CASE TableAccepts(Activated(o))
  <2>1. /\ dep' = Activated(o) /\ pc'[o] = "setActive" /\ UNCHANGED ver
    BY <1>0, <1>1 DEF TxWrite, Goto, local
  <2>2. dep'[ver[o]].active
    BY <1>0, <2>1 DEF Activated, WentLive, Row
  <2>3. IsLive(ver[o])'
    BY <1>0, <2>1, <2>2 DEF IsLive
  <2> QED BY <2>1, <2>3 DEF WorkAt, SeesAll, OwnsRow, Made, Served
<1>2. CASE ~TableAccepts(Activated(o))
  <2>1. pc'[o] = Handler(o)
    BY <1>0, <1>2 DEF TxWrite, Fail, Goto
  <2> QED BY <2>1, HandlerNotFragile DEF WorkAt, SeesAll, OwnsRow, Fragile, Made, Served
<1> QED BY <1>1, <1>2

LEMMA CheckBaseWork ==
    ASSUME Fenced, NEW o \in Ops, CheckBase(o)
    PROVE  WorkAt(o)'
<1>0. pc \in [Ops -> Steps] /\ base[o] \in MaybeVersion
  BY DEF Fenced, Filed, Typed, TypeOK
<1>1. PICK n \in MaybeVersion :
          /\ IsLatest(n)
          /\ IF Stale(o, n) THEN Fail(o)
             ELSE Goto(o, "number") /\ UNCHANGED <<page, token, local>>
  BY DEF CheckBase
<1>2. CASE Stale(o, n)
  <2>1. pc'[o] = Handler(o)
    BY <1>0, <1>1, <1>2 DEF Fail, Goto
  <2> QED BY <2>1, HandlerNotFragile DEF WorkAt, SeesAll, OwnsRow, Fragile, Made, Served
<1>3. CASE ~Stale(o, n)
  <2>1. pc'[o] = "number" /\ UNCHANGED <<dep, base>>
    BY <1>0, <1>1, <1>3 DEF Goto, page, local
  <2>2. \A v \in Versions : Present(v) => v <= base[o]
    BY <1>0, <1>1, <1>3, ConstantsAssumption DEF Stale, IsLatest, MaybeVersion, Versions
  <2> QED BY <2>1, <2>2 DEF WorkAt, SeesAll, OwnsRow, Made, Served, Present
<1> QED BY <1>2, <1>3

LEMMA JobSelectWork ==
    ASSUME Fenced, NEW o \in Ops, JobSelect(o)
    PROVE  WorkAt(o)'
<1>1. PICK n \in MaybeVersion :
          /\ IsPendingOf(o, n)
          /\ cur' = [cur EXCEPT ![o] = n] /\ dep' = dep
          /\ pc' = [pc EXCEPT ![o] = IF n = 0 THEN "done" ELSE "jobMark"]
  BY DEF JobSelect, SelectPending, Move, Goto, page
<1>2. cur'[o] = n /\ pc'[o] = IF n = 0 THEN "done" ELSE "jobMark"
  BY <1>1 DEF Fenced, Filed, Typed, TypeOK
<1>3. n # 0 => dep[n].build = Ref[o]
  BY <1>1, ConstantsAssumption DEF IsPendingOf, MaybeVersion, Versions
<1> QED BY <1>1, <1>2, <1>3 DEF WorkAt, SeesAll, OwnsRow, Made, Served

LEMMA AcquireWork ==
    ASSUME Fenced, NEW o \in Ops, AcquireLock(o)
    PROVE  WorkAt(o)'
<1>1. \/ pc'[o] = Handler(o) \/ pc'[o] = "store"
      \/ pc'[o] = "manifest" /\ Kind[o] = "rollback"
  BY DEF AcquireLock, Fail, Goto, Fenced, Filed, Typed, TypeOK
<1> QED BY <1>1, HandlerNotFragile
        DEF WorkAt, SeesAll, OwnsRow, Fragile, Made, Served, Commits

LEMMA StoreBlobsWork ==
    ASSUME Fenced, NEW o \in Ops, StoreBlobs(o)
    PROVE  WorkAt(o)'
<1>1. pc'[o] = "check" \/ (pc'[o] = "number" /\ Kind[o] # "upload")
  BY DEF StoreBlobs, Move, Goto, Fenced, Filed, Typed, TypeOK
<1> QED BY <1>1 DEF WorkAt, SeesAll, OwnsRow, Made, Served

(* All other steps lead out of what the fence is about.                    *)
LEMMA OtherWork ==
    ASSUME Fenced, NEW o \in Ops,
           \/ Begin(o) \/ Throw(o) \/ Crash(o)
           \/ PrepareGet(o) \/ PrepareLock(o) \/ PrepareToken(o) \/ PrepareUndo(o)
           \/ SetActive(o) \/ Publish(o) \/ CompleteUpload(o) \/ Release(o)
           \/ ErrSelect(o) \/ ErrMark(o) \/ JobMark(o)
    PROVE  WorkAt(o)'
<1>1. pc \in [Ops -> Steps]
  BY DEF Fenced, Filed, Typed, TypeOK
<1>2. pc'[o] \notin Fragile
  <2>1. CASE Begin(o)
    BY <1>1, <2>1 DEF Begin, PrepareBegin, BeginUpload, BeginBuild, BeginRollback, Move, Goto,
                      Fragile, Made
  <2>2. CASE Throw(o) \/ Crash(o)
    BY <1>1, <2>2, HandlerNotFragile DEF Throw, Crash, Fail, Goto, Fragile, Made
  <2>3. CASE PrepareGet(o) \/ PrepareLock(o) \/ PrepareToken(o) \/ PrepareUndo(o)
    BY <1>1, <2>3, HandlerNotFragile
       DEF PrepareGet, PrepareLock, PrepareToken, PrepareUndo, Move, Fail, Goto, Fragile, Made
  <2>4. CASE SetActive(o) \/ Publish(o) \/ CompleteUpload(o) \/ Release(o)
    BY <1>1, <2>4
       DEF SetActive, Publish, CompleteUpload, Release, AfterLock, Move, Goto, Fragile, Made
  <2>5. CASE ErrSelect(o) \/ ErrMark(o) \/ JobMark(o)
    BY <1>1, <2>5
       DEF ErrSelect, SelectPending, ErrMark, JobMark, MarkFailed, Move, Goto, Fragile, Made
  <2> QED BY <2>1, <2>2, <2>3, <2>4, <2>5
<1> QED BY <1>2 DEF WorkAt, SeesAll, OwnsRow, Fragile, Made, Served

(* No op but the one that steps moves or sets its variables.               *)
LEMMA OneMoves ==
    ASSUME Typed, NEW o \in Ops, Begin(o) \/ Advance(o) \/ Throw(o) \/ Crash(o),
           NEW q \in Ops \ {o}
    PROVE  pc'[q] = pc[q] /\ ver'[q] = ver[q] /\ cur'[q] = cur[q] /\ base'[q] = base[q]
<1> USE DEF Typed, TypeOK, Move, Goto, Fail, local
<1>1. CASE Begin(o)
  BY <1>1 DEF Begin, PrepareBegin, BeginUpload, BeginBuild, BeginRollback
<1>2. CASE Throw(o) \/ Crash(o)
  BY <1>2 DEF Throw, Crash
<1>3. CASE \/ PrepareGet(o) \/ PrepareLock(o) \/ PrepareToken(o) \/ PrepareUndo(o)
           \/ AcquireLock(o) \/ StoreBlobs(o) \/ CheckBase(o) \/ PickNumber(o)
  BY <1>3 DEF PrepareGet, PrepareLock, PrepareToken, PrepareUndo, AcquireLock, StoreBlobs,
              CheckBase, PickNumber
<1>4. CASE \/ InsertRow(o) \/ InsertTree(o) \/ PersistManifest(o) \/ CheckNewer(o)
           \/ AssertHeld(o) \/ TxRead(o) \/ TxWrite(o) \/ SetActive(o) \/ Publish(o)
  BY <1>4 DEF InsertRow, InsertTree, PersistManifest, CheckNewer, AssertHeld, TxRead, TxWrite,
              SetActive, Publish
<1>5. CASE \/ CompleteUpload(o) \/ Release(o) \/ ErrSelect(o) \/ ErrMark(o)
           \/ JobSelect(o) \/ JobMark(o)
  BY <1>5 DEF CompleteUpload, Release, ErrSelect, ErrMark, JobSelect, JobMark,
              SelectPending, MarkFailed
<1> QED BY <1>1, <1>2, <1>3, <1>4, <1>5 DEF Advance

LEMMA ActorWork ==
    ASSUME Fenced, [Next]_vars, NEW o \in Ops,
           Begin(o) \/ Advance(o) \/ Throw(o) \/ Crash(o)
    PROVE  WorkAt(o)'
BY AcquireWork, StoreBlobsWork, CheckBaseWork, PickNumberWork, InsertRowWork, MakingWork,
   TxWriteWork, JobSelectWork, OtherWork
DEF Advance

LEMMA WritersAdvance ==
    ASSUME NEW o \in Ops, WritesRow(o)
    PROVE  Advance(o)
BY DEF WritesRow, Advance

LEMMA WorkingStep ==
    ASSUME Fenced, [Next]_vars PROVE Working'
<1>1. ASSUME NEW o \in Ops, Begin(o) \/ Advance(o) \/ Throw(o) \/ Crash(o)
      PROVE  Working'
  <2>1. WorkAt(o)'
    BY <1>1, ActorWork
  <2>2. ASSUME NEW q \in Ops \ {o} PROVE WorkAt(q)'
    <3>1. /\ pc'[q] = pc[q] /\ ver'[q] = ver[q] /\ cur'[q] = cur[q] /\ base'[q] = base[q]
      BY <1>1, OneMoves DEF Fenced, Filed
    <3>2. \A p \in Ops : WritesRow(p) => p # q
      <4> SUFFICES ASSUME WritesRow(q) PROVE FALSE
        OBVIOUS
      <4>1. pc'[q] # pc[q]
        <5>1. pc \in [Ops -> Steps]
          BY DEF Fenced, Filed, Typed, TypeOK
        <5>2. Handler(q) \notin Fragile
          BY HandlerNotFragile
        <5> QED BY <5>1, <5>2
                DEF WritesRow, InsertRow, InsertTree, PersistManifest, CheckNewer, TxWrite,
                    ErrMark, JobMark, MarkFailed, Move, Fail, Goto, Fragile, Made
      <4> QED BY <3>1, <4>1
    <3> QED BY <3>1, <3>2, OthersWork
  <2> QED BY <2>1, <2>2 DEF Working
<1>2. CASE UNCHANGED <<dep, pc, ver, cur, base>>
  BY <1>2 DEF Fenced, Working, WorkAt, SeesAll, OwnsRow, IsLive, Present
<1>3. ASSUME NEW o \in Ops, Heartbeat(o) PROVE Working'
  BY <1>2, <1>3 DEF Heartbeat, page, local
<1>4. CASE TtlLapse \/ UNCHANGED vars
  BY <1>2, <1>4 DEF TtlLapse, vars, page, local
<1> QED BY <1>1, <1>3, <1>4 DEF Next, Quiescent

LEMMA FencedInit == Init => Fenced
<1> SUFFICES ASSUME Init PROVE Working
  BY FiledInit, OneLiveInit, ExclusiveInit DEF Fenced
<1>1. \A o \in Ops : pc[o] \notin Fragile
  BY DEF Init, Fragile, Made
<1> QED BY <1>1, NotFragile DEF Working

LEMMA FencedStep ==
    ASSUME Disciplined, Fenced, [Next]_vars PROVE Fenced'
<1>1. Filed' /\ OneLiveDeployment'
  BY FiledStep, OneLiveStep DEF Fenced
<1>2. Exclusive'
  BY ExclusiveStep, TypedStep DEF Fenced, Exclusive
<1> QED BY <1>1, <1>2, WorkingStep DEF Fenced

LEMMA FencedAlways ==
    ASSUME Disciplined PROVE Spec => []Fenced
<1>1. Init => Fenced
  BY FencedInit
<1>2. Fenced /\ [Next]_vars => Fenced'
  BY FencedStep
<1> QED BY <1>1, <1>2, PTL DEF Spec

LEMMA AcceptedWhenFenced ==
    ASSUME Fenced, NEW o \in Ops, pc[o] = "txWrite"
    PROVE  TableAccepts(Activated(o))
<1>0. dep \in [Versions -> Row] /\ ver[o] \in Versions
  BY DEF Fenced, Filed, Typed, TypeOK, Located, HasRow
<1>1. IsLive(cur[o]) /\ dep[ver[o]].manifest
  BY DEF Fenced, Working, WorkAt, Served
<1>2. \A v \in Versions : dep[v].active => v = cur[o]
  BY <1>1 DEF IsLive, Fenced, OneLiveDeployment
<1>3. \A v \in Versions : Activated(o)[v].active => v = ver[o]
  BY <1>0, <1>2 DEF Activated, WentLive, Superseded, Row
<1>4. Activated(o)[ver[o]].manifest = dep[ver[o]].manifest
  BY <1>0 DEF Activated, WentLive, Row
<1> QED BY <1>1, <1>3, <1>4 DEF TableAccepts

(* With heartbeats on time and distinct holder ids the constraints of the  *)
(* deployments table are a backstop: no INSERT meets its number taken, and *)
(* no activation is refused, although number and live row were read        *)
(* several statements before (nextVersion, activateDeploymentTx).          *)
THEOREM BackstopOnly ==
    ASSUME Disciplined PROVE Spec => []ConstraintsNeverFire
<1>1. ASSUME Fenced PROVE ConstraintsNeverFire
  <2>1. ASSUME NEW o \in Ops, pc[o] = "insert" PROVE ~Present(ver[o])
    <3>1. Kind[o] \in {"upload", "build"}
      BY <1>1, <2>1, ConstantsAssumption
         DEF Fenced, Filed, Typed, Control, StepsOf, Ended, Kinds
    <3>2. ver[o] \in Versions
      BY <1>1, <2>1 DEF Fenced, Filed, Typed, Located
    <3> QED BY <1>1, <2>1, <3>1, <3>2 DEF Fenced, Working, WorkAt, OwnsRow, Commits, Versions
  <2> QED BY <1>1, <2>1, AcceptedWhenFenced DEF ConstraintsNeverFire
<1> QED BY <1>1, FencedAlways, PTL

(* Under the same conditions a commit puts live only the newest deployment *)
(* of its page, straight from pending: it never overwrites a newer one and *)
(* never revives one that was superseded or marked failed meanwhile.       *)
THEOREM NoOverwrite ==
    ASSUME Disciplined PROVE Spec => NoStaleOverwrite
<1>1. ASSUME Fenced, [Next]_vars, NEW o \in Ops, Commits(o), Activates(o)
      PROVE  IsLatest(ver[o]) /\ dep[ver[o]].status = "pending"
  <2>1. pc[o] = "txWrite"
    BY <1>1 DEF Activates
  <2>2. Present(ver[o])
    BY <1>1, <2>1, RowHeld DEF Fenced, HasRow
  <2>3. /\ \A v \in Versions : Present(v) => v <= ver[o]
        /\ dep[ver[o]].status = "pending"
    BY <1>1, <2>1 DEF Fenced, Working, WorkAt, OwnsRow, Made
  <2> QED BY <2>2, <2>3 DEF IsLatest
<1>2. Fenced /\ [Next]_vars =>
          \A o \in Ops : Commits(o) /\ Activates(o) =>
              IsLatest(ver[o]) /\ dep[ver[o]].status = "pending"
  BY <1>1
<1> QED BY <1>2, FencedAlways, PTL DEF Spec, NoStaleOverwrite

(* And what an upload puts live is newer than all it had not seen: no      *)
(* deployment came between its prepare and its activation (baseVersion).   *)
THEOREM UploadSawAll ==
    ASSUME Disciplined PROVE Spec => UploadNotStale
<1>1. Fenced /\ [Next]_vars =>
          \A o \in Ops : Kind[o] = "upload" /\ Activates(o) =>
              \A v \in Versions : Present(v) => v <= base[o] \/ v = ver[o]
  BY DEF Fenced, Working, WorkAt, SeesAll, Made, Activates
<1> QED BY <1>1, FencedAlways, PTL DEF Spec, UploadNotStale

-----------------------------------------------------------------------------
(* The Redis key of the page.                                              *)

(* A process neither dies nor throws between the activation transaction    *)
(* and the SET of the key.                                                 *)
SwitchesWhole == "setActive" \notin FaultAt

LEMMA LiveSame ==
    ASSUME KeepsPage \/ \E w \in Versions : StoresManifest(w), NEW n
    PROVE  IsLive(n)' <=> IsLive(n)
BY DEF KeepsPage, StoresManifest, IsLive

LEMMA FollowsStep ==
    ASSUME SwitchesWhole, Fenced, Fenced', RedisFollowsTable, [Next]_vars
    PROVE  RedisFollowsTable'
<1>0. pc \in [Ops -> Steps] /\ Typed
  BY DEF Fenced, Filed, Typed, TypeOK
<1>1. ASSUME NEW o \in Ops, TxWrite(o) PROVE RedisFollowsTable'
  <2>1. CASE pc'[o] = "setActive"
    BY <1>1, <2>1, TxWriteWork DEF RedisFollowsTable
  <2>2. CASE pc'[o] # "setActive"
    <3>1. UNCHANGED <<dep, redis, ver>>
      BY <1>0, <1>1, <2>2 DEF TxWrite, Fail, Goto, page
    <3>2. \A p \in Ops : pc[p] = "setActive" => pc'[p] = "setActive"
      BY <1>0, <1>1 DEF TxWrite, Fail, Goto
    <3> QED BY <3>1, <3>2 DEF RedisFollowsTable, IsLive
  <2> QED BY <2>1, <2>2
<1>2. ASSUME NEW o \in Ops, SetActive(o) PROVE RedisFollowsTable'
  <2>1. redis' = ver[o] /\ dep' = dep /\ pc[o] = "setActive"
    BY <1>2 DEF SetActive, Move
  <2>2. IsLive(ver[o])
    BY <2>1 DEF Fenced, Working, WorkAt
  <2> QED BY <2>1, <2>2 DEF RedisFollowsTable, IsLive
<1>3. ASSUME \A o \in Ops : ~TxWrite(o) /\ ~SetActive(o)
      PROVE  RedisFollowsTable'
  <2>1. KeepsPage \/ \E w \in Versions : StoresManifest(w)
    <3>1. CASE dep' = dep
      BY <3>1 DEF KeepsPage
    <3>2. CASE dep' # dep
      <4>1. PICK o \in Ops : WritesRow(o)
        BY <3>2, RowChanges
      <4>2. ASSUME NEW w \in Versions, dep'[w].active # dep[w].active PROVE FALSE
        BY <1>3, <3>2, <4>1, <4>2, RowHeld
        DEF Fenced, Filed, Typed, TypeOK, Blank, NoRow, Row, WritesRow, InsertRow, InsertAllowed,
            NewRow, InsertTree, PersistManifest, CheckNewer, ErrMark, JobMark, MarkFailed, Fail,
            page, Located, Move, HasRow
      <4>3. ~\E w \in Versions : SwitchesTo(w) /\ ~KeepsPage
        <5> SUFFICES ASSUME NEW w \in Versions, SwitchesTo(w), ~KeepsPage PROVE FALSE
          OBVIOUS
        <5> QED BY <4>2 DEF SwitchesTo, KeepsPage
      <4> QED BY <4>3, PageEffect DEF Fenced
    <3> QED BY <3>1, <3>2
  <2>2. redis' = redis
    BY <1>3 DEF Next, vars, page, Begin, PrepareBegin, BeginUpload, BeginBuild, BeginRollback,
       Advance, PrepareGet, PrepareLock, PrepareToken, PrepareUndo, AcquireLock, StoreBlobs,
       CheckBase, PickNumber, InsertRow, InsertTree, PersistManifest, CheckNewer, AssertHeld,
       TxRead, Publish, CompleteUpload, Release, ErrSelect, ErrMark, JobSelect, JobMark,
       SelectPending, MarkFailed, Heartbeat, Throw, Crash, Fail, TtlLapse, Quiescent
  <2>3. ASSUME NEW p \in Ops, pc[p] = "setActive"
        PROVE  pc'[p] = "setActive" /\ ver'[p] = ver[p]
    <3>1. ASSUME NEW o \in Ops, Begin(o) \/ Advance(o) \/ Throw(o) \/ Crash(o), o # p
          PROVE  pc'[p] = "setActive" /\ ver'[p] = ver[p]
      BY <1>0, <2>3, <3>1, OneMoves
    <3>2. ~(Begin(p) \/ Advance(p) \/ Throw(p) \/ Crash(p))
      BY <1>3, <2>3
      DEF Begin, PrepareBegin, BeginUpload, BeginBuild, BeginRollback, Move, Advance,
          PrepareGet, PrepareLock, PrepareToken, PrepareUndo, AcquireLock, StoreBlobs, CheckBase,
          PickNumber, InsertRow, InsertTree, PersistManifest, CheckNewer, AssertHeld, TxRead,
          TxWrite, Publish, CompleteUpload, Release, ErrSelect, ErrMark, JobSelect, JobMark,
          SelectPending, MarkFailed, Throw, Crash, SwitchesWhole
    <3>3. ASSUME NEW o \in Ops, Heartbeat(o) PROVE UNCHANGED <<pc, ver>>
      BY <3>3 DEF Heartbeat, local
    <3>4. TtlLapse \/ UNCHANGED vars => UNCHANGED <<pc, ver>>
      BY DEF TtlLapse, vars, local
    <3> QED BY <2>3, <3>1, <3>2, <3>3, <3>4 DEF Next, Quiescent
  <2> QED BY <2>1, <2>2, <2>3, LiveSame DEF RedisFollowsTable
<1> QED BY <1>1, <1>2, <1>3

(* With that, active_deployment:{siteId} names the live deployment, or one *)
(* op is about to write just that: what the blob servers are told can lag  *)
(* behind the table, and not differ from it (activateDeployment).          *)
THEOREM RedisFollows ==
    ASSUME Disciplined, SwitchesWhole PROVE Spec => []RedisFollowsTable
<1>1. Init => RedisFollowsTable
  <2> SUFFICES ASSUME Init PROVE IsLive(redis)
    BY DEF RedisFollowsTable
  <2>1. \A v \in Versions : dep[v].active <=> v = Seed
    <3> SUFFICES ASSUME NEW v \in Versions PROVE dep[v].active <=> v = Seed
      OBVIOUS
    <3>1. dep[v] = SeedRow(v) /\ v \in Nat /\ Seed \in Nat
      BY ConstantsAssumption DEF Init, Versions, MaybeVersion
    <3>2. CASE v > Seed
      BY <3>1, <3>2 DEF SeedRow, NoRow
    <3>3. CASE ~(v > Seed)
      <4>1. SeedRow(v).active = (v = Seed)
        BY <3>3, Zenon DEF SeedRow
      <4> QED BY <3>1, <4>1
    <3> QED BY <3>2, <3>3
  <2>2. redis = Seed
    BY DEF Init
  <2> QED BY <2>1, <2>2 DEF IsLive
<1>2. RedisFollowsTable /\ Fenced /\ Fenced' /\ [Next]_vars => RedisFollowsTable'
  BY FollowsStep
<1> QED BY <1>1, <1>2, FencedAlways, PTL DEF Spec
=============================================================================
