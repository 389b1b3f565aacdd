----------------------------- MODULE ConsoleProofs -----------------------------
(***************************************************************************)
(* The console, for any number of calls under way: the token that they     *)
(* share, the list of the deployments beside a rollback, the tree of the   *)
(* live one's files, and the projects with their sites, their spinner and  *)
(* the wizard.                                                             *)
(***************************************************************************)
EXTENDS TokenCache, DeploymentViews, Projects, ListProofs, FiniteSetTheorems, TLAPS

-----------------------------------------------------------------------------
(* Tokens.                                                                 *)

(* Nothing is held that has not been issued.                               *)
Known ==
    /\ cached <= issued /\ answer <= issued
    /\ \A c \in Callers : carries[c] <= issued /\ rejected[c] <= issued

(* A token on its way is younger than all the page holds or the API has    *)
(* refused: a call that joins its fetch is as well served as one that      *)
(* began it.                                                               *)
Younger ==
    fetching = "answered" =>
        answer > cached /\ \A c \in Callers : answer > carries[c] /\ answer > rejected[c]

Trusted == TokenTypeOK /\ Known /\ Younger /\ RetryIsFresh

LEMMA TokenInitTyped == MaxTokens \in Nat /\ TokenInit => TokenTypeOK
<1> SUFFICES ASSUME MaxTokens \in Nat, TokenInit PROVE TokenTypeOK
  OBVIOUS
<1>1. young \in BOOLEAN /\ session \in BOOLEAN
  BY DEF TokenInit
<1> QED BY <1>1 DEF TokenInit, TokenTypeOK, CallSteps

LEMMA TrustedInit == MaxTokens \in Nat /\ TokenInit => Trusted
<1> SUFFICES ASSUME MaxTokens \in Nat, TokenInit PROVE Trusted
  OBVIOUS
<1>1. TokenTypeOK
  BY TokenInitTyped
<1> QED BY <1>1 DEF TokenInit, Trusted, Known, Younger, RetryIsFresh

LEMMA TrustedCall ==
    ASSUME MaxTokens \in Nat, Trusted, NEW c \in Callers, Request(c) \/ Judge(c) \/ Retry(c)
    PROVE  Trusted'
<1> USE DEF Trusted, TokenTypeOK, CallSteps, Known, Younger, RetryIsFresh, GetAuthToken, Usable
<1>1. young' \in BOOLEAN /\ session' \in BOOLEAN
  BY DEF Request, Judge, Retry
<1>2. CASE Request(c) BY <1>1, <1>2 DEF Request
<1>3. CASE Judge(c) BY <1>1, <1>3 DEF Judge
<1>4. CASE Retry(c) BY <1>1, <1>4 DEF Retry, Cleared
<1> QED BY <1>2, <1>3, <1>4

LEMMA TrustedFetch ==
    ASSUME MaxTokens \in Nat, Trusted, Issue \/ Resolve \/ Age \/ Revoke
    PROVE  Trusted'
<1> USE DEF Trusted, TokenTypeOK, CallSteps, Known, Younger, RetryIsFresh
<1>1. young' \in BOOLEAN /\ session' \in BOOLEAN
  BY DEF Issue, Resolve, Age, Revoke
<1>2. CASE Issue BY <1>1, <1>2 DEF Issue
<1>3. CASE Resolve
  <2> DEFINE token == IF fetching = "answered" THEN answer ELSE 0
             Waits(c) == call[c] \in {"await1", "await2"}
  <2>1. /\ fetching' = "none" /\ UNCHANGED <<answer, rejected, issued, revoked>>
        /\ call' = [c \in Callers |-> CASE call[c] = "await1" -> "sent1"
                                        [] call[c] = "await2" -> "sent2"
                                        [] OTHER -> call[c]]
        /\ carries' = [c \in Callers |-> IF Waits(c) THEN token ELSE carries[c]]
        /\ cached' \in {token, cached}
    BY <1>3 DEF Resolve
  <2>2. token \in 0..issued
    <3>1. answer <= issued
      BY DEF Known
    <3> QED BY <3>1
  <2>3. TokenTypeOK'
    BY <1>1, <2>1, <2>2
  <2>4. Known' /\ Younger'
    BY <2>1, <2>2
  <2>5. RetryIsFresh'
    BY <2>1
  <2> QED BY <2>3, <2>4, <2>5
<1>4. CASE Age BY <1>1, <1>4 DEF Age
<1>5. CASE Revoke BY <1>1, <1>5 DEF Revoke
<1> QED BY <1>2, <1>3, <1>4, <1>5

LEMMA TrustedStep == MaxTokens \in Nat /\ Trusted /\ [TokenNext]_tokenVars => Trusted'
<1> SUFFICES ASSUME MaxTokens \in Nat, Trusted, [TokenNext]_tokenVars PROVE Trusted'
  OBVIOUS
<1>1. CASE UNCHANGED tokenVars
  BY <1>1 DEF tokenVars, Trusted, TokenTypeOK, Known, Younger, RetryIsFresh
<1>2. CASE TokenNext
  BY <1>2, TrustedCall, TrustedFetch DEF TokenNext
<1> QED BY <1>1, <1>2

(* The cache, the shared fetch and the calls keep their types, and what is *)
(* issued stays within its bound.                                          *)
THEOREM TokenTypeCorrect ==
    ASSUME MaxTokens \in Nat
    PROVE  TokenSpec => []TokenTypeOK
<1>1. Trusted => TokenTypeOK
  BY DEF Trusted
<1>2. TokenInit => Trusted
  BY TrustedInit
<1>3. Trusted /\ [TokenNext]_tokenVars => Trusted'
  BY TrustedStep
<1> QED BY <1>1, <1>2, <1>3, PTL DEF TokenSpec

(* A second attempt never repeats a refused token, for any number of calls *)
(* that share the fetch and any rotation of the keys.                      *)
THEOREM RetryStaysFresh ==
    ASSUME MaxTokens \in Nat
    PROVE  TokenSpec => []RetryIsFresh
<1>1. Trusted => RetryIsFresh
  BY DEF Trusted
<1>2. TokenInit => Trusted
  BY TrustedInit
<1>3. Trusted /\ [TokenNext]_tokenVars => Trusted'
  BY TrustedStep
<1> QED BY <1>1, <1>2, <1>3, PTL DEF TokenSpec

-----------------------------------------------------------------------------
(* The history that is listed.                                             *)

Rows == SUBSET [version : DepVersions, live : BOOLEAN]
OneLive(rows) == \A p, q \in rows : p.live /\ q.live => p = q

(* Each call, as it is: what has been answered is not older than the last  *)
(* rollback from here, and never has two rows live.                        *)
CallOK(reading) ==
    /\ reading.step \in {"idle", "asked", "answered"}
    /\ reading.step = "answered" =>
          /\ reading.rows \in Rows /\ OneLive(reading.rows)
          /\ reading.stamp \in Nat /\ reading.stamp >= mine

(* A rollback and a call of the list are never under way at once, so the   *)
(* list is as new as the last rollback but between that rollback and the   *)
(* call that ends it.                                                      *)
InStep ==
    /\ depRows \in [DepVersions -> {"none", "inactive", "active", "gone"}]
    /\ \A v, w \in DepVersions : depRows[v] = "active" /\ depRows[w] = "active" => v = w
    /\ changes \in Nat /\ mine \in 0..changes
    /\ reload = [r \in Reloads |-> reload[r]] /\ \A r \in Reloads : CallOK(reload[r])
    /\ history.rows \in Rows /\ OneLive(history.rows) /\ history.stamp \in Int
    /\ rolling \in {0} \cup DepVersions /\ rollback \in {"idle", "asked", "done", "refused"}
    /\ rolling = 0 <=> rollback = "idle"
    /\ rolling # 0 => ~Reloading
    /\ rollback # "done" /\ ~Reloading /\ history.stamp >= 0 => history.stamp >= mine

LEMMA VersionsArePositive == \A v \in DepVersions : v \in Nat /\ v # 0
BY ViewConstants DEF DepVersions

LEMMA InStepInit == ViewInit => InStep
<1> SUFFICES ASSUME ViewInit PROVE InStep
  OBVIOUS
<1>1. depRows = [v \in DepVersions |-> "none"] /\ changes = 0 /\ mine = 0
  BY DEF ViewInit
<1>2. history.rows = {} /\ history.stamp = -1 /\ rolling = 0 /\ rollback = "idle"
  BY DEF ViewInit
<1>3. reload = [r \in Reloads |-> NoReload] /\ NoReload.step = "idle"
  BY DEF ViewInit, NoReload
<1>4. \A r \in Reloads : CallOK(reload[r])
  BY <1>3 DEF CallOK
<1>5. history.rows \in Rows /\ OneLive(history.rows)
  BY <1>2 DEF Rows, OneLive
<1> QED BY <1>1, <1>2, <1>3, <1>4, <1>5 DEF InStep

(* Others change the rows: no call has an answer that they make older than *)
(* a rollback of this user's.                                              *)
LEMMA ActivatedHasOne ==
    ASSUME NEW v \in DepVersions,
           depRows \in [DepVersions -> {"none", "inactive", "active", "gone"}]
    PROVE  /\ Activated(v) \in [DepVersions -> {"none", "inactive", "active", "gone"}]
           /\ \A w \in DepVersions : Activated(v)[w] = "active" <=> w = v
BY DEF Activated

LEMMA InStepRows == ASSUME InStep, RowsChange PROVE InStep'
<1>1. PICK v \in DepVersions :
         InsertDeployment(v) \/ ActivateDeployment(v) \/ CollectDeployment(v)
  BY DEF RowsChange
<1>2. /\ depRows' \in [DepVersions -> {"none", "inactive", "active", "gone"}]
      /\ \A x, w \in DepVersions : depRows'[x] = "active" /\ depRows'[w] = "active" => x = w
      /\ changes' = changes + 1 /\ UNCHANGED historyVars
  <2>1. CASE InsertDeployment(v)
    BY <2>1 DEF InsertDeployment, Change, InStep
  <2>2. CASE ActivateDeployment(v)
    BY <2>2, ActivatedHasOne DEF ActivateDeployment, Change, InStep
  <2>3. CASE CollectDeployment(v)
    BY <2>3 DEF CollectDeployment, Change, InStep
  <2> QED BY <1>1, <2>1, <2>2, <2>3
<1> QED BY <1>2 DEF InStep, historyVars, CallOK, Reloading

(* A step of the list's calls.                                             *)
LEMMA InStepCall ==
    ASSUME InStep, Patient, NEW r \in Reloads,
           LoadDeployments(r) \/ ListDeployments(r) \/ ShowHistory(r) \/ FailHistory(r)
    PROVE  InStep'
<1>1. UNCHANGED <<serverRows, rolling, rollback, mine>>
  BY DEF LoadDeployments, ListDeployments, ShowHistory, FailHistory
<1>2. \A x \in Reloads : CallOK(reload[x])
  BY DEF InStep
<1>3. CASE LoadDeployments(r)
  <2>1. ~Reloading /\ rolling = 0 /\ reload' = Asked(r) /\ history' = history
    BY <1>3 DEF LoadDeployments
  <2>2. Asked(r)[r].step = "asked" /\ \A x \in Reloads \ {r} : Asked(r)[x] = reload[x]
    BY DEF Asked, NoReload, InStep
  <2>3. reload' = [x \in Reloads |-> reload'[x]]
    BY <2>1 DEF Asked, InStep
  <2>4. \A x \in Reloads : CallOK(reload[x])'
    BY <1>1, <1>2, <2>1, <2>2 DEF CallOK
  <2>5. Reloading'
    BY <2>1, <2>2 DEF Reloading
  <2> QED BY <1>1, <2>1, <2>3, <2>4, <2>5 DEF InStep, serverRows
<1>4. CASE ListDeployments(r)
  <2> DEFINE listed == [step |-> "answered", rows |-> Listed, stamp |-> changes]
  <2>1. reload[r].step = "asked" /\ reload' = [reload EXCEPT ![r] = listed] /\ history' = history
    BY <1>4 DEF ListDeployments
  <2>2. Listed \in Rows /\ OneLive(Listed)
    <3> DEFINE Row(v) == [version |-> v, live |-> depRows[v] = "active"]
    <3>1. \A v \in DepVersions : (depRows[v] = "active") \in BOOLEAN
      BY Zenon
    <3>2. \A v \in DepVersions : /\ Row(v) \in [version : DepVersions, live : BOOLEAN]
                                 /\ Row(v).live <=> depRows[v] = "active"
      BY <3>1
    <3>3. \A p \in Listed : \E v \in DepVersions : p = Row(v)
      BY DEF Listed
    <3> HIDE DEF Row
    <3>4. Listed \in Rows
      BY <3>2, <3>3 DEF Rows
    <3>5. \A p, q \in Listed : p.live /\ q.live => p = q
      BY <3>2, <3>3 DEF InStep
    <3> QED BY <3>4, <3>5 DEF OneLive
  <2>3. listed.step = "answered" /\ listed.rows = Listed /\ listed.stamp = changes
    OBVIOUS
  <2> HIDE DEF listed
  <2>4. reload' = [x \in Reloads |-> reload'[x]]
    BY <2>1 DEF InStep
  <2>5. reload'[r] = listed /\ \A x \in Reloads \ {r} : reload'[x] = reload[x]
    BY <2>1 DEF InStep
  <2>6. \A x \in Reloads : CallOK(reload[x])'
    BY <1>1, <1>2, <2>2, <2>3, <2>5 DEF CallOK, InStep
  <2>7. Reloading /\ Reloading'
    BY <2>1, <2>3, <2>5 DEF Reloading
  <2> QED BY <1>1, <2>1, <2>4, <2>6, <2>7 DEF InStep, serverRows
<1>5. CASE ShowHistory(r)
  <2>1. /\ reload[r].step = "answered" /\ reload' = [reload EXCEPT ![r] = NoReload]
        /\ history'.rows = reload[r].rows /\ history'.stamp = reload[r].stamp
    BY <1>5 DEF ShowHistory
  <2>2. /\ history'.rows \in Rows /\ OneLive(history'.rows)
        /\ history'.stamp \in Int /\ history'.stamp >= mine
    BY <1>2, <2>1 DEF CallOK
  <2>3. reload' = [x \in Reloads |-> reload'[x]]
    BY <2>1 DEF InStep
  <2>4. reload'[r] = NoReload /\ \A x \in Reloads \ {r} : reload'[x] = reload[x]
    BY <2>1 DEF InStep
  <2>5. \A x \in Reloads : CallOK(reload[x])'
    BY <1>1, <1>2, <2>4 DEF CallOK, NoReload
  <2>6. Reloading /\ rolling = 0
    BY <2>1 DEF Reloading, InStep
  <2> QED BY <1>1, <2>2, <2>3, <2>5, <2>6 DEF InStep, serverRows
<1>6. CASE FailHistory(r)
  <2>1. /\ reload[r].step # "idle" /\ reload' = [reload EXCEPT ![r] = NoReload]
        /\ history' = [history EXCEPT !.stamp = -1]
    BY <1>6 DEF FailHistory
  <2>2. history'.rows = history.rows /\ history'.stamp = -1
    BY <2>1 DEF InStep
  <2>3. reload' = [x \in Reloads |-> reload'[x]]
    BY <2>1 DEF InStep
  <2>4. reload'[r] = NoReload /\ \A x \in Reloads \ {r} : reload'[x] = reload[x]
    BY <2>1 DEF InStep
  <2>5. \A x \in Reloads : CallOK(reload[x])'
    BY <1>1, <1>2, <2>4 DEF CallOK, NoReload
  <2>6. Reloading /\ rolling = 0
    BY <2>1 DEF Reloading, InStep
  <2> QED BY <1>1, <2>2, <2>3, <2>5, <2>6 DEF InStep, serverRows
<1> QED BY <1>3, <1>4, <1>5, <1>6

(* A step of a rollback from here.                                         *)
LEMMA InStepRollback ==
    ASSUME InStep, Patient,
           (\E item \in history.rows : HandleRollback(item)) \/ RollBack \/ RefuseRollback \/ EndRollback
    PROVE  InStep'
<1>1. CASE \E item \in history.rows : HandleRollback(item)
  <2>1. PICK item \in history.rows : HandleRollback(item)
    BY <1>1
  <2>2. item.version \in DepVersions
    BY DEF InStep, Rows
  <2>3. item.version # 0
    BY <2>2, VersionsArePositive
  <2>4. /\ rolling = 0 /\ ~Reloading /\ rolling' = item.version /\ rollback' = "asked"
        /\ UNCHANGED <<serverRows, reload, history, mine>>
    BY <2>1 DEF HandleRollback
  <2> QED BY <2>2, <2>3, <2>4 DEF InStep, serverRows, Reloading, CallOK
<1>2. CASE RollBack
  <2>1. /\ rolling \in DepVersions /\ ~Reloading /\ changes' = changes + 1
        /\ depRows' = Activated(rolling)
        /\ rollback' \in {"done", "refused"} /\ UNCHANGED <<reload, history, rolling>>
    BY <1>2 DEF RollBack, Change, InStep
  <2>2. \/ rollback' = "done" /\ mine' = changes + 1
        \/ rollback' = "refused" /\ mine' = mine
    <3>1. mine' = IF rollback' = "done" THEN changes' ELSE mine
      BY <1>2 DEF RollBack
    <3> QED BY <2>1, <3>1
  <2>3. rollback = "asked"
    BY <1>2 DEF RollBack
  <2>4. /\ depRows' \in [DepVersions -> {"none", "inactive", "active", "gone"}]
        /\ \A x, w \in DepVersions : depRows'[x] = "active" /\ depRows'[w] = "active" => x = w
    BY <2>1, ActivatedHasOne DEF InStep
  <2>5. \A r \in Reloads : reload'[r].step = "idle"
    BY <2>1 DEF Reloading
  <2>6. /\ ~Reloading'
        /\ \A r \in Reloads : CallOK(reload[r])'
    BY <2>5 DEF Reloading, CallOK
  <2>7. mine' \in 0..changes'
    BY <2>1, <2>2 DEF InStep
  <2>8. rolling # 0
    BY <2>1, VersionsArePositive
  <2>9. rollback' # "done" /\ history'.stamp >= 0 => history'.stamp >= mine'
    BY <2>1, <2>2, <2>3 DEF InStep
  <2> QED BY <2>1, <2>2, <2>4, <2>6, <2>7, <2>8, <2>9 DEF InStep
<1>3. CASE RefuseRollback
  BY <1>3 DEF RefuseRollback, InStep, serverRows, Reloading, CallOK
<1>4. CASE EndRollback
  <2>1. rolling' = 0 /\ rollback' = "idle" /\ UNCHANGED <<serverRows, history, mine>>
    BY <1>4 DEF EndRollback
  <2>2. CASE rollback = "done" /\ \E r \in Reloads : ReloadsAfter(r)
    <3>1. PICK r \in Reloads : reload' = Asked(r)
      BY <2>2 DEF ReloadsAfter
    <3>2. Asked(r)[r].step = "asked" /\ \A x \in Reloads \ {r} : Asked(r)[x] = reload[x]
      BY DEF Asked, NoReload, InStep
    <3>3. reload' = [x \in Reloads |-> reload'[x]]
      BY <3>1 DEF Asked, InStep
    <3>4. \A x \in Reloads : CallOK(reload[x])'
      BY <2>1, <3>1, <3>2 DEF CallOK, InStep
    <3>5. Reloading'
      BY <3>1, <3>2 DEF Reloading
    <3> QED BY <2>1, <3>3, <3>4, <3>5 DEF InStep, serverRows
  <2>3. CASE rollback = "refused" /\ UNCHANGED reload
    BY <2>1, <2>3 DEF InStep, serverRows, Reloading, CallOK
  <2> QED BY <1>4, <2>2, <2>3 DEF EndRollback
<1> QED BY <1>1, <1>2, <1>3, <1>4

LEMMA InStepNext == Patient /\ InStep /\ [ViewNext]_viewVars => InStep'
<1> SUFFICES ASSUME Patient, InStep, [ViewNext]_viewVars PROVE InStep'
  OBVIOUS
<1>1. CASE RowsChange
  BY <1>1, InStepRows
<1>2. CASE FilesStep \/ UNCHANGED viewVars
  <2>1. UNCHANGED <<serverRows, historyVars>>
    BY <1>2 DEF FilesStep, LoadFiles, ReadActive, ReadNewestRow, ReadFiles, ShowFiles, FailFiles,
                Fetched, Draw, ClickFolder, viewVars
  <2> QED BY <2>1 DEF InStep, serverRows, historyVars, Reloading, CallOK
<1>3. CASE HistoryStep
  <2>1. (\E r \in Reloads : LoadDeployments(r) \/ ListDeployments(r) \/ ShowHistory(r) \/ FailHistory(r))
        \/ (\E item \in history.rows : HandleRollback(item)) \/ RollBack \/ RefuseRollback \/ EndRollback
    BY <1>3 DEF HistoryStep
  <2> QED BY <2>1, InStepCall, InStepRollback
<1> QED BY <1>1, <1>2, <1>3 DEF ViewNext

THEOREM HistoryStaysAhead == ASSUME Patient PROVE ViewSpec => []HistoryFollows
<1>1. InStep => HistoryFollows
  BY DEF InStep, HistoryFollows, OneLive
<1> QED BY <1>1, InStepInit, InStepNext, PTL DEF ViewSpec

-----------------------------------------------------------------------------
(* The tree of a listing.                                                  *)

Elements == [id : Seq(STRING), type : {"file", "folder"}, under : Seq(STRING)]

HasFolder(es, id) == \E i \in 1..Len(es) : es[i].type = "folder" /\ es[i].id = id
HasId(es, id) == \E i \in 1..Len(es) : es[i].id = id

(* Each element is under the folder of its path, and has an id of its own. *)
Rooted(es) ==
    /\ es \in Seq(Elements)
    /\ \A i \in 1..Len(es) :
          /\ es[i].id # <<>> /\ es[i].under = Front(es[i].id)
          /\ es[i].under # Root => HasFolder(es, es[i].under)
    /\ \A i, j \in 1..Len(es) : es[i].id = es[j].id => i = j

(* Each folder is on the way to one of the first m files.                  *)
OnWay(id, list, m) ==
    \E k \in 1..m : \E l \in 1..(Len(PartsOf(list[k])) - 1) : id = SubSeq(PartsOf(list[k]), 1, l)
Ways(es, list, m) ==
    \A i \in 1..Len(es) : es[i].type = "folder" => OnWay(es[i].id, list, m)

(* The files of the tree are the first n, in their order.                  *)
FilePlaces(es) == {i \in DOMAIN es : es[i].type = "file"}
Holds(g, es, list, n) ==
    /\ Enumerates(g, n, Len(es), FilePlaces(es))
    /\ \A k \in 1..n : es[g[k]].id = PartsOf(list[k])

TreeOf(es, list, n, m) ==
    /\ Rooted(es) /\ Ways(es, list, m)
    /\ \E g : Holds(g, es, list, n)

LEMMA AppendIs ==
    ASSUME NEW S, NEW s \in Seq(S), NEW e \in S
    PROVE  /\ Append(s, e) \in Seq(S) /\ Len(Append(s, e)) = Len(s) + 1
           /\ Append(s, e)[Len(s) + 1] = e
           /\ \A i \in 1..Len(s) : Append(s, e)[i] = s[i] /\ i \in 1..(Len(s) + 1)
           /\ \A i \in 1..(Len(s) + 1) : i \in 1..Len(s) \/ i = Len(s) + 1
           /\ Len(s) + 1 \in 1..(Len(s) + 1)
OBVIOUS

LEMMA RootedAppend ==
    ASSUME NEW es, Rooted(es), NEW e \in Elements, e.id # <<>>, e.under = Front(e.id),
           e.under # Root => HasFolder(es, e.under), ~HasId(es, e.id)
    PROVE  Rooted(Append(es, e))
<1> DEFINE t == Append(es, e)
           n == Len(es)
<1>0. es \in Seq(Elements)
  BY DEF Rooted
<1>1. /\ t \in Seq(Elements) /\ Len(t) = n + 1 /\ t[n + 1] = e
      /\ \A i \in 1..n : t[i] = es[i] /\ i \in 1..(n + 1)
      /\ \A i \in 1..(n + 1) : i \in 1..n \/ i = n + 1
  BY <1>0, AppendIs
<1> HIDE DEF t
<1>2. \A id : HasFolder(es, id) => HasFolder(t, id)
  BY <1>1 DEF HasFolder
<1>3. \A i \in 1..(n + 1) :
         /\ t[i].id # <<>> /\ t[i].under = Front(t[i].id)
         /\ t[i].under # Root => HasFolder(t, t[i].under)
  <2> SUFFICES ASSUME NEW i \in 1..(n + 1)
               PROVE  /\ t[i].id # <<>> /\ t[i].under = Front(t[i].id)
                      /\ t[i].under # Root => HasFolder(t, t[i].under)
    OBVIOUS
  <2>1. CASE i \in 1..n
    <3>1. /\ es[i].id # <<>> /\ es[i].under = Front(es[i].id)
          /\ es[i].under # Root => HasFolder(es, es[i].under)
      BY <2>1 DEF Rooted
    <3> QED BY <1>1, <1>2, <2>1, <3>1
  <2>2. CASE i = n + 1
    BY <1>1, <1>2, <2>2
  <2> QED BY <1>1, <2>1, <2>2
<1>4. \A i, j \in 1..(n + 1) : t[i].id = t[j].id => i = j
  <2>1. \A i, j \in 1..n : es[i].id = es[j].id => i = j
    BY DEF Rooted
  <2>2. \A i \in 1..n : es[i].id # e.id
    BY DEF HasId
  <2> QED BY <1>1, <2>1, <2>2
<1> QED BY <1>1, <1>3, <1>4 DEF Rooted, t

LEMMA FolderAppend ==
    ASSUME NEW es, NEW list, NEW n \in Nat, NEW m \in Nat, TreeOf(es, list, n, m),
           NEW e \in Elements, e.type = "folder", e.id # <<>>, e.under = Front(e.id),
           e.under # Root => HasFolder(es, e.under), ~HasId(es, e.id), OnWay(e.id, list, m)
    PROVE  TreeOf(Append(es, e), list, n, m)
<1> DEFINE t == Append(es, e)
           l == Len(es)
<1>0. es \in Seq(Elements) /\ l \in Nat
  BY DEF Rooted, TreeOf
<1>1. /\ t \in Seq(Elements) /\ Len(t) = l + 1 /\ t[l + 1] = e
      /\ \A i \in 1..l : t[i] = es[i] /\ i \in 1..(l + 1)
      /\ \A i \in 1..(l + 1) : i \in 1..l \/ i = l + 1
  BY <1>0, AppendIs
<1>2. Rooted(t)
  BY RootedAppend DEF TreeOf
<1>3. PICK g : Holds(g, es, list, n)
  BY DEF TreeOf
<1> HIDE DEF t
<1>4. Ways(t, list, m)
  <2> SUFFICES ASSUME NEW i \in 1..(l + 1), t[i].type = "folder" PROVE OnWay(t[i].id, list, m)
    BY <1>1 DEF Ways
  <2>1. CASE i \in 1..l
    BY <1>1, <2>1 DEF TreeOf, Ways
  <2>2. CASE i = l + 1
    BY <1>1, <2>2
  <2> QED BY <1>1, <2>1, <2>2
<1>5. Holds(g, t, list, n)
  <2>1. /\ \A k \in 1..n : g[k] \in 1..l /\ g[k] \in FilePlaces(es)
        /\ \A j, k \in 1..n : j < k => g[j] < g[k]
        /\ \A i \in 1..l : i \in FilePlaces(es) => \E k \in 1..n : g[k] = i
        /\ \A k \in 1..n : es[g[k]].id = PartsOf(list[k])
    BY <1>3 DEF Holds, Enumerates
  <2>2. \A i \in 1..l : i \in FilePlaces(t) <=> i \in FilePlaces(es)
    <3>1. DOMAIN es = 1..l /\ DOMAIN t = 1..(l + 1)
      BY <1>0, <1>1
    <3> QED BY <1>1, <3>1 DEF FilePlaces
  <2>3. l + 1 \notin FilePlaces(t)
    BY <1>1 DEF FilePlaces
  <2>4. /\ \A k \in 1..n : g[k] \in 1..(l + 1) /\ g[k] \in FilePlaces(t)
        /\ \A i \in 1..(l + 1) : i \in FilePlaces(t) => \E k \in 1..n : g[k] = i
    BY <1>1, <2>1, <2>2, <2>3
  <2>5. \A k \in 1..n : t[g[k]].id = PartsOf(list[k])
    BY <1>1, <2>1
  <2> QED BY <1>1, <2>1, <2>4, <2>5 DEF Holds, Enumerates
<1> QED BY <1>2, <1>4, <1>5 DEF TreeOf, t

LEMMA FileAppend ==
    ASSUME NEW es, NEW list, NEW n \in Nat, NEW m \in Nat, TreeOf(es, list, n, m),
           NEW e \in Elements, e.type = "file", e.id # <<>>, e.under = Front(e.id),
           e.under # Root => HasFolder(es, e.under), ~HasId(es, e.id), e.id = PartsOf(list[n + 1])
    PROVE  TreeOf(Append(es, e), list, n + 1, m)
<1> DEFINE t == Append(es, e)
           l == Len(es)
<1>0. es \in Seq(Elements) /\ l \in Nat
  BY DEF Rooted, TreeOf
<1>1. /\ t \in Seq(Elements) /\ Len(t) = l + 1 /\ t[l + 1] = e
      /\ \A i \in 1..l : t[i] = es[i] /\ i \in 1..(l + 1)
      /\ \A i \in 1..(l + 1) : i \in 1..l \/ i = l + 1
      /\ l + 1 \in 1..(l + 1)
  BY <1>0, AppendIs
<1>2. Rooted(t)
  BY RootedAppend DEF TreeOf
<1>3. PICK g : Holds(g, es, list, n)
  BY DEF TreeOf
<1> HIDE DEF t
<1>4. Ways(t, list, m)
  <2> SUFFICES ASSUME NEW i \in 1..(l + 1), t[i].type = "folder" PROVE OnWay(t[i].id, list, m)
    BY <1>1 DEF Ways
  <2>1. CASE i \in 1..l
    BY <1>1, <2>1 DEF TreeOf, Ways
  <2>2. CASE i = l + 1
    BY <1>1, <2>2
  <2> QED BY <1>1, <2>1, <2>2
<1> DEFINE h == [k \in 1..(n + 1) |-> IF k = n + 1 THEN l + 1 ELSE g[k]]
<1>5. h[n + 1] = l + 1 /\ \A k \in 1..n : h[k] = g[k] /\ k \in 1..(n + 1)
  OBVIOUS
<1>6. n + 1 \in 1..(n + 1) /\ \A k \in 1..(n + 1) : k \in 1..n \/ k = n + 1
  OBVIOUS
<1> HIDE DEF h
<1>7. Holds(h, t, list, n + 1)
  <2>1. /\ \A k \in 1..n : g[k] \in 1..l /\ g[k] \in FilePlaces(es)
        /\ \A j, k \in 1..n : j < k => g[j] < g[k]
        /\ \A i \in 1..l : i \in FilePlaces(es) => \E k \in 1..n : g[k] = i
        /\ \A k \in 1..n : es[g[k]].id = PartsOf(list[k])
    BY <1>3 DEF Holds, Enumerates
  <2>2. /\ \A i \in 1..l : i \in FilePlaces(t) <=> i \in FilePlaces(es)
        /\ l + 1 \in FilePlaces(t)
    <3>1. DOMAIN es = 1..l /\ DOMAIN t = 1..(l + 1)
      BY <1>0, <1>1
    <3> QED BY <1>1, <3>1 DEF FilePlaces
  <2>3. \A k \in 1..(n + 1) : h[k] \in 1..(l + 1) /\ h[k] \in FilePlaces(t)
    BY <1>1, <1>5, <1>6, <2>1, <2>2
  <2>4. \A i \in 1..(l + 1) : i \in FilePlaces(t) => \E k \in 1..(n + 1) : h[k] = i
    BY <1>1, <1>5, <1>6, <2>1, <2>2
  <2>5. \A j, k \in 1..(n + 1) : j < k => h[j] < h[k]
    <3> SUFFICES ASSUME NEW j \in 1..(n + 1), NEW k \in 1..(n + 1), j < k PROVE h[j] < h[k]
      OBVIOUS
    <3>1. j \in 1..n
      OBVIOUS
    <3>2. h[j] = g[j] /\ g[j] \in 1..l
      BY <1>5, <2>1, <3>1
    <3>3. CASE k = n + 1
      BY <1>0, <1>5, <3>2, <3>3
    <3>4. CASE k \in 1..n
      BY <1>5, <2>1, <3>1, <3>2, <3>4
    <3> QED BY <1>6, <3>3, <3>4
  <2>6. \A k \in 1..(n + 1) : t[h[k]].id = PartsOf(list[k])
    BY <1>1, <1>5, <1>6, <2>1
  <2> QED BY <1>1, <2>3, <2>4, <2>5, <2>6 DEF Holds, Enumerates
<1> QED BY <1>2, <1>4, <1>7 DEF TreeOf, t

LEMMA PartsAre == ASSUME NEW path \in Seq(STRING) PROVE PartsOf(path) \in Seq(STRING)
BY PickedAre DEF PartsOf

LEMMA StretchIs ==
    ASSUME NEW q \in Seq(STRING), NEW l \in 0..Len(q)
    PROVE  /\ SubSeq(q, 1, l) \in Seq(STRING) /\ Len(SubSeq(q, 1, l)) = l
           /\ \A i \in 1..l : SubSeq(q, 1, l)[i] = q[i]
<1>1. Len(q) \in Nat
  OBVIOUS
<1>2. l \in Nat /\ 1 \in Nat /\ 1 <= 1 /\ 1 <= l + 1 /\ l <= Len(q) /\ l - 1 + 1 = l
  BY <1>1
<1>3. /\ SubSeq(q, 1, l) \in Seq(STRING) /\ Len(SubSeq(q, 1, l)) = l - 1 + 1
      /\ \A i \in 1..(l - 1 + 1) : SubSeq(q, 1, l)[i] = q[1 + i - 1]
  BY <1>2, PartOf
<1>4. \A i \in 1..l : 1 + i - 1 = i
  BY <1>2
<1> QED BY <1>2, <1>3, <1>4

LEMMA SameStretch ==
    ASSUME NEW p \in Seq(STRING), NEW q \in Seq(STRING), Len(p) = Len(q), \A i \in 1..Len(p) : p[i] = q[i]
    PROVE  p = q
OBVIOUS

LEMMA FrontOfStretch ==
    ASSUME NEW q \in Seq(STRING), NEW l \in 0..(Len(q) - 1)
    PROVE  Front(SubSeq(q, 1, l + 1)) = SubSeq(q, 1, l) /\ SubSeq(q, 1, l + 1) # <<>>
<1> DEFINE p == SubSeq(q, 1, l + 1)
           r == SubSeq(q, 1, l)
           f == SubSeq(p, 1, l)
<1>0. Len(q) \in Nat /\ l \in 0..Len(q) /\ l + 1 \in 0..Len(q) /\ l \in Nat
  OBVIOUS
<1>1. p \in Seq(STRING) /\ Len(p) = l + 1 /\ \A i \in 1..(l + 1) : p[i] = q[i]
  BY <1>0, StretchIs
<1>2. r \in Seq(STRING) /\ Len(r) = l /\ \A i \in 1..l : r[i] = q[i]
  BY <1>0, StretchIs
<1> HIDE DEF p, r
<1>3. f \in Seq(STRING) /\ Len(f) = l /\ \A i \in 1..l : f[i] = p[i]
  <2>1. l \in 0..Len(p)
    BY <1>0, <1>1
  <2> QED BY <1>1, <2>1, StretchIs
<1>4. Front(p) = f
  BY <1>0, <1>1 DEF Front
<1> HIDE DEF f
<1>5. \A i \in 1..l : i \in 1..(l + 1)
  BY <1>0
<1>6. f = r
  BY <1>1, <1>2, <1>3, <1>5
<1>7. p # <<>>
  BY <1>0, <1>1
<1> QED BY <1>4, <1>6, <1>7 DEF p, r

LEMMA StretchBegins ==
    ASSUME NEW q \in Seq(STRING), NEW l \in 0..Len(q)
    PROVE  IsPrefix(SubSeq(q, 1, l), q)
<1> DEFINE p == SubSeq(q, 1, l)
           r == SubSeq(p, 1, l)
<1>0. Len(q) \in Nat /\ l \in Nat /\ l <= Len(q)
  OBVIOUS
<1>1. p \in Seq(STRING) /\ Len(p) = l /\ \A i \in 1..l : p[i] = q[i]
  BY StretchIs
<1> HIDE DEF p
<1>2. r \in Seq(STRING) /\ Len(r) = l /\ \A i \in 1..l : r[i] = p[i]
  <2>1. l \in 0..Len(p)
    BY <1>0, <1>1
  <2> QED BY <1>1, <2>1, StretchIs
<1>3. r = p
  <2> HIDE DEF r
  <2> QED BY <1>1, <1>2
<1> QED BY <1>0, <1>1, <1>3 DEF IsPrefix, p

(* Neither a file done nor a folder has what is new of a file's path.      *)
LEMMA NewId ==
    ASSUME NEW list, Directory(list), NEW n \in 0..(Len(list) - 1), NEW es, TreeOf(es, list, n, n + 1),
           NEW l \in 1..Len(PartsOf(list[n + 1]))
    PROVE  LET id == SubSeq(PartsOf(list[n + 1]), 1, l) IN
           /\ HasId(es, id) => HasFolder(es, id)
           /\ l = Len(PartsOf(list[n + 1])) => ~HasId(es, id)
<1> DEFINE parts == PartsOf(list[n + 1])
           id == SubSeq(parts, 1, l)
<1>0. /\ list \in Seq(Seq(STRING)) /\ DOMAIN list = 1..Len(list) /\ n + 1 \in 1..Len(list)
      /\ \A i, j \in 1..Len(list) : IsPrefix(PartsOf(list[i]), PartsOf(list[j])) => i = j
  BY DEF Directory
<1>1. \A k \in 1..Len(list) : PartsOf(list[k]) \in Seq(STRING)
  BY <1>0, PartsAre
<1>2. parts \in Seq(STRING) /\ l \in 0..Len(parts)
  BY <1>0, <1>1
<1>3. IsPrefix(id, parts)
  BY <1>2, StretchBegins
<1>4. Len(list) \in Nat /\ n \in Nat /\ \A k \in 1..n : k \in 1..Len(list) /\ k # n + 1
  BY <1>0
<1>5. es \in Seq(Elements) /\ DOMAIN es = 1..Len(es)
  BY DEF TreeOf, Rooted
<1>6. PICK g : Holds(g, es, list, n)
  BY DEF TreeOf
<1> HIDE DEF id, parts
<1>7. ASSUME NEW i \in 1..Len(es), es[i].id = id, es[i].type # "folder" PROVE FALSE
  <2>1. es[i].type = "file"
    <3>1. es[i] \in Elements
      BY <1>5
    <3>2. es[i].type \in {"file", "folder"}
      BY <3>1 DEF Elements
    <3> QED BY <1>7, <3>2
  <2>2. PICK k \in 1..n : g[k] = i
    BY <1>5, <1>6, <2>1 DEF Holds, Enumerates, FilePlaces
  <2>3. PartsOf(list[k]) = id
    BY <1>6, <1>7, <2>2 DEF Holds
  <2>4. k = n + 1
    BY <1>0, <1>3, <1>4, <2>2, <2>3 DEF parts
  <2> QED BY <1>4, <2>4
<1>8. HasId(es, id) => HasFolder(es, id)
  BY <1>7 DEF HasId, HasFolder
<1>9. ASSUME l = Len(parts), HasId(es, id) PROVE FALSE
  <2>1. PICK i \in 1..Len(es) : es[i].type = "folder" /\ es[i].id = id
    BY <1>8, <1>9 DEF HasFolder
  <2>0. PICK k \in 1..(n + 1) : \E c \in 1..(Len(PartsOf(list[k])) - 1) : id = SubSeq(PartsOf(list[k]), 1, c)
    BY <2>1 DEF TreeOf, Ways, OnWay
  <2>2. PICK c \in 1..(Len(PartsOf(list[k])) - 1) : id = SubSeq(PartsOf(list[k]), 1, c)
    BY <2>0
  <2>3. k \in 1..Len(list) /\ PartsOf(list[k]) \in Seq(STRING)
    BY <1>0, <1>1, <1>4
  <2> DEFINE other == PartsOf(list[k])
  <2>4. other \in Seq(STRING) /\ c \in 1..(Len(other) - 1) /\ id = SubSeq(other, 1, c)
    BY <2>2, <2>3
  <2>5. IsPrefix(other, parts) \/ IsPrefix(parts, other) => k = n + 1
    BY <1>0, <2>3 DEF parts
  <2>6. k = n + 1 => other = parts
    BY DEF parts
  <2> HIDE DEF other
  <2>7. c \in 0..Len(other) /\ c < Len(other) /\ Len(other) \in Nat /\ Len(parts) \in Nat
    BY <1>2, <2>4
  <2>8. IsPrefix(id, other) /\ Len(id) = c
    BY <2>4, <2>7, StretchBegins, StretchIs
  <2>9. id = parts
    <3>1. id \in Seq(STRING) /\ Len(id) = l /\ \A j \in 1..l : id[j] = parts[j]
      BY <1>2, StretchIs DEF id
    <3> QED BY <1>2, <1>9, <3>1
  <2> QED BY <2>5, <2>6, <2>7, <2>8, <2>9
<1> QED BY <1>8, <1>9 DEF id, parts

(* The loop over the folders of a file.                                    *)
WayUpTo(es, parts, N, f) ==
    f = [n \in 0..N |-> IF n = 0 THEN [elements |-> es, siblings |-> Root]
                        ELSE PushFolder(f[n - 1], SubSeq(parts, 1, n))]
WayOf(es, parts) == CHOOSE f : WayUpTo(es, parts, Len(parts) - 1, f)

LEMMA WayAre ==
    ASSUME NEW es, NEW parts \in Seq(STRING), parts # <<>>
    PROVE  /\ PushFolders(es, parts) = WayOf(es, parts)[Len(parts) - 1]
           /\ WayOf(es, parts)[0] = [elements |-> es, siblings |-> Root]
           /\ \A n \in 1..(Len(parts) - 1) :
                 WayOf(es, parts)[n] = PushFolder(WayOf(es, parts)[n - 1], SubSeq(parts, 1, n))
<1> DEFINE L == Len(parts) - 1
           T == {N \in 0..L : \E f : WayUpTo(es, parts, N, f)}
<1>0. L \in Nat
  OBVIOUS
<1>1. 0 \in T
  <2> DEFINE f == [n \in 0..0 |-> [elements |-> es, siblings |-> Root]]
  <2>1. WayUpTo(es, parts, 0, f)
    BY DEF WayUpTo
  <2>2. 0 \in 0..L
    BY <1>0
  <2> QED BY <2>1, <2>2
<1>2. \A N \in 0..L : N \in T /\ N < L => N + 1 \in T
  <2> SUFFICES ASSUME NEW N \in 0..L, N < L, NEW f, WayUpTo(es, parts, N, f)
               PROVE  N + 1 \in 0..L /\ \E g : WayUpTo(es, parts, N + 1, g)
    OBVIOUS
  <2> HIDE DEF L
  <2> DEFINE g == [n \in 0..(N + 1) |-> IF n = N + 1 THEN PushFolder(f[N], SubSeq(parts, 1, N + 1)) ELSE f[n]]
  <2>1. \A n \in 0..N : f[n] = IF n = 0 THEN [elements |-> es, siblings |-> Root]
                               ELSE PushFolder(f[n - 1], SubSeq(parts, 1, n))
    BY DEF WayUpTo
  <2>2. \A n \in 0..(N + 1) : g[n] = IF n = 0 THEN [elements |-> es, siblings |-> Root]
                                     ELSE PushFolder(g[n - 1], SubSeq(parts, 1, n))
    <3> SUFFICES ASSUME NEW n \in 0..(N + 1)
                 PROVE  g[n] = IF n = 0 THEN [elements |-> es, siblings |-> Root]
                               ELSE PushFolder(g[n - 1], SubSeq(parts, 1, n))
      OBVIOUS
    <3>1. CASE n = N + 1
      <4>1. g[n] = PushFolder(f[N], SubSeq(parts, 1, N + 1)) /\ n # 0 /\ n - 1 = N /\ g[N] = f[N]
        BY <3>1
      <4> QED BY <3>1, <4>1
    <3>2. CASE n # N + 1
      <4>1. n \in 0..N /\ g[n] = f[n]
        BY <3>2
      <4>2. n # 0 => n - 1 \in 0..N /\ g[n - 1] = f[n - 1]
        BY <4>1
      <4> HIDE DEF g
      <4> QED BY <2>1, <4>1, <4>2
    <3> QED BY <3>1, <3>2
  <2>3. g = [n \in 0..(N + 1) |-> g[n]]
    OBVIOUS
  <2> HIDE DEF g
  <2>4. WayUpTo(es, parts, N + 1, g)
    BY <2>2, <2>3 DEF WayUpTo
  <2>5. N + 1 \in 0..L
    BY <1>0
  <2> QED BY <2>4, <2>5
<1>3. PICK f : WayUpTo(es, parts, L, f)
  <2> HIDE DEF T, L
  <2>1. L \in 0..L
    BY <1>0
  <2>2. L \in T
    BY <1>0, <1>1, <1>2, <2>1, Reaches
  <2> QED BY <2>2 DEF T
<1>4. WayUpTo(es, parts, L, WayOf(es, parts))
  BY <1>3 DEF WayOf
<1>5. PushFolders(es, parts) = WayOf(es, parts)[L]
  BY DEF PushFolders, WayOf, WayUpTo
<1>6. WayOf(es, parts)[0] = [elements |-> es, siblings |-> Root]
  <2> HIDE DEF L
  <2>1. 0 \in 0..L
    BY <1>0
  <2> QED BY <1>4, <2>1 DEF WayUpTo
<1>7. \A n \in 1..L : WayOf(es, parts)[n] = PushFolder(WayOf(es, parts)[n - 1], SubSeq(parts, 1, n))
  <2> HIDE DEF L
  <2>1. \A n \in 1..L : n \in 0..L /\ n # 0
    BY <1>0
  <2> QED BY <1>4, <2>1 DEF WayUpTo
<1> QED BY <1>5, <1>6, <1>7

(* After l folders, of which the last is there to be filled.               *)
OnTheWayTo(at, list, n, l) ==
    /\ at \in [elements : Seq(Elements), siblings : Seq(STRING)]
    /\ TreeOf(at.elements, list, n, n + 1)
    /\ at.siblings = SubSeq(PartsOf(list[n + 1]), 1, l)
    /\ l # 0 => HasFolder(at.elements, at.siblings)

LEMMA FoldersAre ==
    ASSUME NEW es \in Seq(Elements), NEW path
    PROVE  /\ FoldersOf(es, path) # {} <=> HasFolder(es, path)
           /\ \A e \in FoldersOf(es, path) : e.id = path
<1>1. DOMAIN es = 1..Len(es)
  OBVIOUS
<1>2. \A e : e \in FoldersOf(es, path) <=> e \in ToSet(es) /\ e.type = "folder" /\ e.id = path
  BY DEF FoldersOf, FolderKey
<1>3. \A e : e \in ToSet(es) <=> \E i \in 1..Len(es) : es[i] = e
  BY <1>1 DEF ToSet
<1>4. FoldersOf(es, path) # {} <=> HasFolder(es, path)
  BY <1>2, <1>3 DEF HasFolder
<1> QED BY <1>2, <1>4

LEMMA FolderStep ==
    ASSUME NEW list, Directory(list), NEW n \in 0..(Len(list) - 1),
           NEW l \in 0..(Len(PartsOf(list[n + 1])) - 2), NEW at, OnTheWayTo(at, list, n, l)
    PROVE  OnTheWayTo(PushFolder(at, SubSeq(PartsOf(list[n + 1]), 1, l + 1)), list, n, l + 1)
<1> DEFINE parts == PartsOf(list[n + 1])
           path == SubSeq(parts, 1, l + 1)
           next == PushFolder(at, path)
<1>0. /\ parts \in Seq(STRING) /\ Len(parts) \in Nat /\ n \in Nat /\ n + 1 \in Nat
      /\ l + 1 \in 1..(Len(parts) - 1) /\ l + 1 \in 0..Len(parts) /\ l + 1 \in 1..Len(parts) /\ l \in 0..(Len(parts) - 1)
  <2>1. parts \in Seq(STRING)
    BY PartsAre DEF Directory
  <2>2. Len(list) \in Nat /\ n \in Nat
    BY DEF Directory
  <2> QED BY <2>1, <2>2
<1>1. path \in Seq(STRING) /\ path # <<>> /\ Front(path) = SubSeq(parts, 1, l)
  BY <1>0, StretchIs, FrontOfStretch
<1>2. HasId(at.elements, path) => HasFolder(at.elements, path)
  BY <1>0, NewId DEF OnTheWayTo
<1>3. OnWay(path, list, n + 1)
  BY <1>0 DEF OnWay
<1>4. /\ at \in [elements : Seq(Elements), siblings : Seq(STRING)]
      /\ TreeOf(at.elements, list, n, n + 1)
      /\ at.siblings = SubSeq(parts, 1, l)
      /\ l # 0 => HasFolder(at.elements, at.siblings)
  BY DEF OnTheWayTo
<1>11. l = 0 => SubSeq(parts, 1, l) = Root
  <2>1. 0 \in 0..Len(parts)
    BY <1>0
  <2>2. SubSeq(parts, 1, 0) \in Seq(STRING) /\ Len(SubSeq(parts, 1, 0)) = 0
    BY <1>0, <2>1, StretchIs
  <2> QED BY <2>2 DEF Root
<1> HIDE DEF parts, path
<1>5. /\ FoldersOf(at.elements, path) # {} <=> HasFolder(at.elements, path)
      /\ \A e \in FoldersOf(at.elements, path) : e.id = path
  <2>1. at.elements \in Seq(Elements)
    BY <1>4
  <2> QED BY <2>1, FoldersAre
<1>6. CASE FoldersOf(at.elements, path) # {}
  <2>1. next = [at EXCEPT !.siblings = path]
    <3>1. (CHOOSE e \in FoldersOf(at.elements, path) : TRUE).id = path
      BY <1>5, <1>6
    <3> QED BY <1>6, <3>1 DEF PushFolder
  <2>2. next \in [elements : Seq(Elements), siblings : Seq(STRING)] /\ next.elements = at.elements /\ next.siblings = path
    BY <1>1, <1>4, <2>1
  <2> HIDE DEF next
  <2> QED BY <1>4, <1>5, <1>6, <2>2 DEF OnTheWayTo, path, parts, next
<1>7. CASE FoldersOf(at.elements, path) = {}
  <2> DEFINE e == Element(path, "folder", at.siblings)
             es == at.elements
  <2>1. next = [elements |-> Append(es, e), siblings |-> path]
    BY <1>7 DEF PushFolder
  <2>2. /\ e \in Elements /\ e.type = "folder" /\ e.id = path /\ e.under = at.siblings
        /\ es \in Seq(Elements)
    BY <1>1, <1>4 DEF Element, Elements
  <2>3. ~HasFolder(es, path) /\ ~HasId(es, path)
    BY <1>2, <1>5, <1>7
  <2>4. e.under # Root => HasFolder(es, e.under)
    BY <1>4, <1>11, <2>2
  <2> HIDE DEF e, es, next
  <2>5. TreeOf(Append(es, e), list, n, n + 1)
    <3>1. e.id # <<>> /\ e.under = Front(e.id) /\ ~HasId(es, e.id) /\ OnWay(e.id, list, n + 1)
      BY <1>1, <1>3, <1>4, <2>2, <2>3
    <3>2. TreeOf(es, list, n, n + 1)
      BY <1>4 DEF es
    <3> QED BY <1>0, <2>2, <2>4, <3>1, <3>2, FolderAppend
  <2>6. Append(es, e) \in Seq(Elements) /\ HasFolder(Append(es, e), path)
    <3>1. /\ Append(es, e) \in Seq(Elements) /\ Len(Append(es, e)) = Len(es) + 1
          /\ Append(es, e)[Len(es) + 1] = e /\ Len(es) + 1 \in 1..(Len(es) + 1)
      BY <2>2, AppendIs
    <3> QED BY <2>2, <3>1 DEF HasFolder
  <2>7. next.elements = Append(es, e) /\ next.siblings = path
        /\ next \in [elements : Seq(Elements), siblings : Seq(STRING)]
    BY <1>1, <2>1, <2>6
  <2> QED BY <2>5, <2>6, <2>7 DEF OnTheWayTo, path, parts, next
<1> QED BY <1>6, <1>7 DEF next, path, parts

LEMMA FileStep ==
    ASSUME NEW list, Directory(list), NEW n \in 0..(Len(list) - 1), NEW es, TreeOf(es, list, n, n)
    PROVE  TreeOf(PushFile(es, list[n + 1]), list, n + 1, n + 1)
<1> DEFINE parts == PartsOf(list[n + 1])
           L == Len(parts) - 1
           way == WayOf(es, parts)
           at == way[L]
           e == Element(parts, "file", at.siblings)
<1>0. /\ list \in Seq(Seq(STRING)) /\ Len(list) \in Nat /\ DOMAIN list = 1..Len(list)
      /\ n \in Nat /\ n + 1 \in Nat /\ n + 1 \in 1..Len(list)
  BY DEF Directory
<1>1. parts \in Seq(STRING) /\ parts # <<>>
  <2>1. \A i \in 1..Len(list) : PartsOf(list[i]) # <<>>
    BY <1>0 DEF Directory
  <2>2. list[n + 1] \in Seq(STRING)
    BY <1>0
  <2> QED BY <1>0, <2>1, <2>2, PartsAre
<1>2. /\ PushFolders(es, parts) = at /\ way[0] = [elements |-> es, siblings |-> Root]
      /\ \A l \in 1..L : way[l] = PushFolder(way[l - 1], SubSeq(parts, 1, l))
  <2> HIDE DEF parts
  <2> QED BY <1>1, WayAre
<1>3. L \in Nat /\ Len(parts) \in Nat /\ Len(parts) = L + 1
  <2> HIDE DEF parts
  <2> QED BY <1>1
<1> HIDE DEF way, L, e
<1>4. OnTheWayTo(way[0], list, n, 0)
  <2>1. Ways(es, list, n + 1)
    <3>1. \A k \in 1..n : k \in 1..(n + 1)
      BY <1>0
    <3> QED BY <3>1 DEF TreeOf, Ways, OnWay
  <2>2. TreeOf(es, list, n, n + 1) /\ es \in Seq(Elements)
    BY <2>1 DEF TreeOf, Rooted
  <2>3. SubSeq(parts, 1, 0) = Root
    <3> HIDE DEF parts
    <3>1. 0 \in 0..Len(parts)
      BY <1>3
    <3>2. SubSeq(parts, 1, 0) \in Seq(STRING) /\ Len(SubSeq(parts, 1, 0)) = 0
      BY <1>1, <3>1, StretchIs
    <3> QED BY <3>2 DEF Root
  <2>4. Root \in Seq(STRING)
    BY DEF Root
  <2> QED BY <1>2, <2>2, <2>3, <2>4 DEF OnTheWayTo
<1>5. \A l \in 0..L : OnTheWayTo(way[l], list, n, l) /\ l < L => OnTheWayTo(way[l + 1], list, n, l + 1)
  <2> SUFFICES ASSUME NEW l \in 0..L, OnTheWayTo(way[l], list, n, l), l < L
               PROVE  OnTheWayTo(way[l + 1], list, n, l + 1)
    OBVIOUS
  <2>1. l \in 0..(Len(PartsOf(list[n + 1])) - 2) /\ l + 1 \in 1..L /\ l + 1 - 1 = l
    BY <1>3
  <2>2. OnTheWayTo(PushFolder(way[l], SubSeq(parts, 1, l + 1)), list, n, l + 1)
    BY <2>1, FolderStep
  <2>3. way[l + 1] = PushFolder(way[l], SubSeq(parts, 1, l + 1))
    <3>1. way[l + 1] = PushFolder(way[l + 1 - 1], SubSeq(parts, 1, l + 1))
      BY <1>2, <2>1
    <3> QED BY <2>1, <3>1
  <2> QED BY <2>2, <2>3
<1>6. OnTheWayTo(at, list, n, L)
  <2> DEFINE T == {l \in 0..L : OnTheWayTo(way[l], list, n, l)}
  <2>1. 0 \in T /\ \A l \in 0..L : l \in T /\ l < L => l + 1 \in T
    <3>1. \A l \in 0..L : l < L => l + 1 \in 0..L
      BY <1>3
    <3>2. 0 \in 0..L
      BY <1>3
    <3> QED BY <1>4, <1>5, <3>1, <3>2
  <2>2. L \in 0..L
    BY <1>3
  <2> HIDE DEF T
  <2>3. L \in T
    BY <1>3, <2>1, <2>2, Reaches
  <2> QED BY <2>3 DEF T
<1>7. /\ at.elements \in Seq(Elements) /\ at.siblings \in Seq(STRING)
      /\ TreeOf(at.elements, list, n, n + 1) /\ at.siblings = SubSeq(parts, 1, L)
      /\ L # 0 => HasFolder(at.elements, at.siblings)
  BY <1>6 DEF OnTheWayTo
<1>8. PushFile(es, list[n + 1]) = Append(at.elements, e)
  BY <1>1, <1>2 DEF PushFile, e
<1>9. e \in Elements /\ e.type = "file" /\ e.id = parts /\ e.under = at.siblings
  <2> HIDE DEF parts, at
  <2> QED BY <1>1, <1>7 DEF e, Element, Elements
<1>10. at.siblings = Front(parts)
  <2> HIDE DEF parts
  <2> QED BY <1>3, <1>7 DEF Front
<1>11. at.siblings # Root => HasFolder(at.elements, at.siblings)
  <2>1. L = 0 => at.siblings = Root
    <3> HIDE DEF parts, at
    <3>1. 0 \in 0..Len(parts)
      BY <1>3
    <3>2. SubSeq(parts, 1, 0) \in Seq(STRING) /\ Len(SubSeq(parts, 1, 0)) = 0
      BY <1>1, <3>1, StretchIs
    <3> QED BY <1>7, <3>2 DEF Root
  <2> QED BY <1>7, <2>1
<1>12. ~HasId(at.elements, parts)
  <2> DEFINE l == Len(parts)
  <2>1. l \in 1..Len(PartsOf(list[n + 1]))
    BY <1>3
  <2>2. ~HasId(at.elements, SubSeq(parts, 1, l))
    <3> HIDE DEF at
    <3> QED BY <1>7, <2>1, NewId
  <2>3. SubSeq(parts, 1, l) = parts
    <3> HIDE DEF parts
    <3>1. l \in 0..Len(parts)
      BY <1>3
    <3>2. SubSeq(parts, 1, l) \in Seq(STRING) /\ Len(SubSeq(parts, 1, l)) = Len(parts)
          /\ \A i \in 1..Len(parts) : SubSeq(parts, 1, l)[i] = parts[i]
      BY <1>1, <3>1, StretchIs
    <3> QED BY <1>1, <3>2, SameStretch
  <2> QED BY <2>2, <2>3
<1> HIDE DEF at
<1>13. TreeOf(Append(at.elements, e), list, n + 1, n + 1)
  BY <1>0, <1>1, <1>7, <1>9, <1>10, <1>11, <1>12, FileAppend
<1> QED BY <1>8, <1>13

(* The loop over the files.                                                *)
TreeUpTo(list, N, f) ==
    f = [n \in 0..N |-> IF n = 0 THEN <<>> ELSE PushFile(f[n - 1], list[n])]
TreesOf(list) == CHOOSE f : TreeUpTo(list, Len(list), f)

LEMMA TreesAre ==
    ASSUME NEW list \in Seq(Seq(STRING))
    PROVE  /\ PathsToTreeElements(list) = TreesOf(list)[Len(list)]
           /\ TreesOf(list)[0] = <<>>
           /\ \A n \in 1..Len(list) : TreesOf(list)[n] = PushFile(TreesOf(list)[n - 1], list[n])
<1> DEFINE L == Len(list)
           T == {N \in 0..L : \E f : TreeUpTo(list, N, f)}
<1>0. L \in Nat
  OBVIOUS
<1>1. 0 \in T
  <2> DEFINE f == [n \in 0..0 |-> <<>>]
  <2>1. TreeUpTo(list, 0, f)
    BY DEF TreeUpTo
  <2>2. 0 \in 0..L
    BY <1>0
  <2> QED BY <2>1, <2>2
<1>2. \A N \in 0..L : N \in T /\ N < L => N + 1 \in T
  <2> SUFFICES ASSUME NEW N \in 0..L, N < L, NEW f, TreeUpTo(list, N, f)
               PROVE  N + 1 \in 0..L /\ \E g : TreeUpTo(list, N + 1, g)
    OBVIOUS
  <2> HIDE DEF L
  <2> DEFINE g == [n \in 0..(N + 1) |-> IF n = N + 1 THEN PushFile(f[N], list[N + 1]) ELSE f[n]]
  <2>1. \A n \in 0..N : f[n] = IF n = 0 THEN <<>> ELSE PushFile(f[n - 1], list[n])
    BY DEF TreeUpTo
  <2>2. \A n \in 0..(N + 1) : g[n] = IF n = 0 THEN <<>> ELSE PushFile(g[n - 1], list[n])
    <3> SUFFICES ASSUME NEW n \in 0..(N + 1)
                 PROVE  g[n] = IF n = 0 THEN <<>> ELSE PushFile(g[n - 1], list[n])
      OBVIOUS
    <3>1. CASE n = N + 1
      <4>1. g[n] = PushFile(f[N], list[N + 1]) /\ n # 0 /\ n - 1 = N /\ g[N] = f[N]
        BY <3>1
      <4> QED BY <3>1, <4>1
    <3>2. CASE n # N + 1
      <4>1. n \in 0..N /\ g[n] = f[n]
        BY <3>2
      <4>2. n # 0 => n - 1 \in 0..N /\ g[n - 1] = f[n - 1]
        BY <4>1
      <4> HIDE DEF g
      <4> QED BY <2>1, <4>1, <4>2
    <3> QED BY <3>1, <3>2
  <2>3. g = [n \in 0..(N + 1) |-> g[n]]
    OBVIOUS
  <2> HIDE DEF g
  <2>4. TreeUpTo(list, N + 1, g)
    BY <2>2, <2>3 DEF TreeUpTo
  <2>5. N + 1 \in 0..L
    BY <1>0
  <2> QED BY <2>4, <2>5
<1>3. PICK f : TreeUpTo(list, L, f)
  <2> HIDE DEF T, L
  <2>1. L \in 0..L
    BY <1>0
  <2>2. L \in T
    BY <1>0, <1>1, <1>2, <2>1, Reaches
  <2> QED BY <2>2 DEF T
<1>4. TreeUpTo(list, L, TreesOf(list))
  BY <1>3 DEF TreesOf
<1>5. PathsToTreeElements(list) = TreesOf(list)[L]
  BY DEF PathsToTreeElements, TreesOf, TreeUpTo
<1>6. TreesOf(list)[0] = <<>>
  <2> HIDE DEF L
  <2>1. 0 \in 0..L
    BY <1>0
  <2> QED BY <1>4, <2>1 DEF TreeUpTo
<1>7. \A n \in 1..L : TreesOf(list)[n] = PushFile(TreesOf(list)[n - 1], list[n])
  <2> HIDE DEF L
  <2>1. \A n \in 1..L : n \in 0..L /\ n # 0
    BY <1>0
  <2> QED BY <1>4, <2>1 DEF TreeUpTo
<1> QED BY <1>5, <1>6, <1>7

LEMMA TreeIs ==
    ASSUME NEW list, Directory(list)
    PROVE  TreeOf(PathsToTreeElements(list), list, Len(list), Len(list))
<1> DEFINE L == Len(list)
           trees == TreesOf(list)
           T == {n \in 0..L : TreeOf(trees[n], list, n, n)}
<1>0. list \in Seq(Seq(STRING)) /\ L \in Nat
  BY DEF Directory
<1>1. /\ PathsToTreeElements(list) = trees[L] /\ trees[0] = <<>>
      /\ \A n \in 1..L : trees[n] = PushFile(trees[n - 1], list[n])
  BY <1>0, TreesAre
<1> HIDE DEF trees
<1>2. 0 \in T
  <2>1. Rooted(<<>>) /\ Ways(<<>>, list, 0)
    BY DEF Rooted, Ways
  <2>2. Holds(<<>>, <<>>, list, 0)
    BY DEF Holds, Enumerates
  <2>3. 0 \in 0..L
    BY <1>0
  <2> QED BY <1>1, <2>1, <2>2, <2>3 DEF TreeOf
<1>3. \A n \in 0..L : n \in T /\ n < L => n + 1 \in T
  <2> SUFFICES ASSUME NEW n \in 0..L, TreeOf(trees[n], list, n, n), n < L
               PROVE  n + 1 \in 0..L /\ TreeOf(trees[n + 1], list, n + 1, n + 1)
    OBVIOUS
  <2>1. n \in 0..(Len(list) - 1) /\ n + 1 \in 1..L /\ n + 1 \in 0..L /\ n + 1 - 1 = n
    BY <1>0
  <2>2. TreeOf(PushFile(trees[n], list[n + 1]), list, n + 1, n + 1)
    BY <2>1, FileStep
  <2>3. trees[n + 1] = PushFile(trees[n], list[n + 1])
    <3>1. trees[n + 1] = PushFile(trees[n + 1 - 1], list[n + 1])
      BY <1>1, <2>1
    <3> QED BY <2>1, <3>1
  <2> QED BY <2>1, <2>2, <2>3
<1>4. L \in T
  <2> HIDE DEF T, L
  <2>1. L \in 0..L
    BY <1>0
  <2> QED BY <1>0, <1>2, <1>3, <2>1, Reaches
<1> QED BY <1>1, <1>4 DEF T

LEMMA VisibleIs == ASSUME NEW list, Directory(list) PROVE Directory(Visible(list))
<1> DEFINE shown == Visible(list)
           places == {i \in DOMAIN list : Last(list[i]) \notin Compressed}
<1>0. /\ list \in Seq(Seq(STRING)) /\ DOMAIN list = 1..Len(list)
      /\ \A i \in 1..Len(list) : PartsOf(list[i]) # <<>>
      /\ \A i, j \in 1..Len(list) : IsPrefix(PartsOf(list[i]), PartsOf(list[j])) => i = j
  BY DEF Directory
<1>1. shown = Picked(list, places)
  BY DEF Visible
<1> DEFINE S == Seq(STRING)
<1> HIDE DEF shown, places, S
<1>2. PICK m \in Nat : \E g :
         /\ Enumerates(g, m, Len(list), places)
         /\ shown \in Seq(S) /\ Len(shown) = m
         /\ \A k \in 1..m : shown[k] = list[g[k]] /\ g[k] \in 1..Len(list)
  <2>1. list \in Seq(S)
    BY <1>0 DEF S
  <2> QED BY <1>1, <2>1, PickedAre
<1>3. PICK g :
         /\ Enumerates(g, m, Len(list), places)
         /\ shown \in Seq(S) /\ Len(shown) = m
         /\ \A k \in 1..m : shown[k] = list[g[k]] /\ g[k] \in 1..Len(list)
  BY <1>2
<1>4. DOMAIN shown = 1..m
  BY <1>3
<1>5. \A k \in 1..m : PartsOf(shown[k]) # <<>>
  BY <1>0, <1>3
<1>6. \A j, k \in 1..m : g[j] = g[k] => j = k
  <2>1. \A j, k \in 1..m : j < k => g[j] < g[k]
    BY <1>3 DEF Enumerates
  <2>2. \A k \in 1..m : g[k] \in Nat
    BY <1>3
  <2> SUFFICES ASSUME NEW j \in 1..m, NEW k \in 1..m, g[j] = g[k], j # k PROVE FALSE
    OBVIOUS
  <2>3. j < k \/ k < j
    OBVIOUS
  <2> QED BY <2>1, <2>2, <2>3
<1>7. \A j, k \in 1..m : IsPrefix(PartsOf(shown[j]), PartsOf(shown[k])) => j = k
  BY <1>0, <1>3, <1>6
<1> QED BY <1>3, <1>4, <1>5, <1>7 DEF Directory, shown, S

(* What the tree of a directory shows.                                     *)
Shown(elements, files) ==
    /\ [i \in DOMAIN Leaves(elements) |-> Leaves(elements)[i].id]
           = [i \in DOMAIN files |-> PartsOf(files[i])]
    /\ Len(Leaves(elements)) = Len(files)
    /\ \A e \in ToSet(elements) : InPlace(elements, e)
    /\ \A i, j \in DOMAIN elements : elements[i].id = elements[j].id => i = j

LEMMA TreeIsShown ==
    ASSUME NEW files, Directory(files) PROVE Shown(PathsToTreeElements(files), files)
<1> DEFINE es == PathsToTreeElements(files)
           n == Len(files)
<1>0. n \in Nat /\ DOMAIN files = 1..n
  BY DEF Directory
<1>1. TreeOf(es, files, n, n)
  BY TreeIs
<1> HIDE DEF es
<1>2. es \in Seq(Elements) /\ DOMAIN es = 1..Len(es)
  BY <1>1 DEF TreeOf, Rooted
<1>3. PICK g : Holds(g, es, files, n)
  BY <1>1 DEF TreeOf
<1>4. Leaves(es) = Picked(es, FilePlaces(es))
  BY DEF Leaves, FilePlaces
<1>5. /\ Leaves(es) \in Seq(Elements) /\ Len(Leaves(es)) = n
      /\ \A k \in 1..n : Leaves(es)[k] = es[g[k]] /\ g[k] \in 1..Len(es)
  BY <1>0, <1>2, <1>3, <1>4, PickedIs DEF Holds
<1>6. \A k \in 1..n : Leaves(es)[k].id = PartsOf(files[k])
  BY <1>3, <1>5 DEF Holds
<1>7. [i \in DOMAIN Leaves(es) |-> Leaves(es)[i].id] = [i \in DOMAIN files |-> PartsOf(files[i])]
  <2>1. DOMAIN Leaves(es) = 1..n
    BY <1>5
  <2> QED BY <1>0, <1>6, <2>1
<1>8. ASSUME NEW e \in ToSet(es) PROVE InPlace(es, e)
  <2>1. PICK i \in 1..Len(es) : e = es[i]
    BY <1>2 DEF ToSet
  <2>2. e.under = Front(e.id) /\ (e.under # Root => HasFolder(es, e.under))
    BY <1>1, <2>1 DEF TreeOf, Rooted
  <2>3. \A id : HasFolder(es, id) => \E f \in ToSet(es) : f.type = "folder" /\ f.id = id
    BY <1>2 DEF HasFolder, ToSet
  <2> QED BY <2>2, <2>3 DEF InPlace
<1>9. \A i, j \in DOMAIN es : es[i].id = es[j].id => i = j
  BY <1>1, <1>2 DEF TreeOf, Rooted
<1> QED BY <1>5, <1>7, <1>8, <1>9 DEF Shown, es

(* What the tab reads of a version, and what it draws of it: all of it, or *)
(* nothing if the collector has come between.                              *)
Read(v, files) ==
    /\ v \in DepVersions
    /\ \/ files = paths[v]
       \/ files = <<>> /\ depRows[v] = "gone"
Drawn(shown) ==
    \E files :
        /\ Read(shown.version, files)
        /\ shown.elements = PathsToTreeElements(Visible(files))
        /\ shown.count = Len(Visible(files))

IdsOf(elements) == {e.id : e \in ToSet(elements)}

Browsed ==
    /\ depRows \in [DepVersions -> {"none", "inactive", "active", "gone"}]
    /\ \A v \in DepVersions : Directory(paths[v])
    /\ fetch.step = "found" => fetch.found \in DepVersions /\ depRows[fetch.found] # "none"
    /\ fetch.step = "answered" /\ fetch.found # 0 => Read(fetch.found, fetch.files)
    /\ browser.version # 0 => Drawn(browser)
    /\ opened \subseteq IdsOf(browser.elements)

LEMMA NoDirectory == Directory(<<>>)
BY DEF Directory

LEMMA BrowsedInit == ViewInit => Browsed
<1> SUFFICES ASSUME ViewInit PROVE Browsed
  OBVIOUS
<1>1. \A v \in DepVersions : Directory(paths[v])
  <2>1. PICK list \in Listings :
           paths = [v \in DepVersions |-> IF v = 1 /\ tab = "files" THEN list ELSE <<>>]
    BY DEF ViewInit
  <2>2. \A v \in DepVersions : paths[v] = list \/ paths[v] = <<>>
    BY <2>1
  <2> QED BY <2>2, DirectoriesOnly, NoDirectory
<1>2. fetch.step = "idle" /\ browser.version = 0 /\ opened = {}
  BY DEF ViewInit, NoFetch, NoFiles
<1> QED BY <1>1, <1>2 DEF ViewInit, Browsed

LEMMA BrowsedRows ==
    ASSUME Browsed, paths' = paths, UNCHANGED filesVars,
           depRows' \in [DepVersions -> {"none", "inactive", "active", "gone"}],
           \A v \in DepVersions :
               /\ depRows[v] = "gone" => depRows'[v] = "gone"
               /\ depRows[v] # "none" => depRows'[v] # "none"
    PROVE  Browsed'
<1>1. fetch' = fetch /\ browser' = browser /\ opened' = opened
  BY DEF filesVars
<1>2. \A v, files : Read(v, files) => Read(v, files)'
  BY DEF Read
<1>3. Drawn(browser) => Drawn(browser)'
  BY <1>1, <1>2 DEF Drawn
<1> QED BY <1>1, <1>2, <1>3 DEF Browsed

LEMMA BrowsedChange ==
    ASSUME Browsed, UNCHANGED filesVars, RowsChange \/ RollBack PROVE Browsed'
<1> DEFINE Kept(rows) ==
               /\ rows \in [DepVersions -> {"none", "inactive", "active", "gone"}]
               /\ \A v \in DepVersions :
                      /\ depRows[v] = "gone" => rows[v] = "gone"
                      /\ depRows[v] # "none" => rows[v] # "none"
<1>0. depRows \in [DepVersions -> {"none", "inactive", "active", "gone"}]
  BY DEF Browsed
<1>1. ASSUME NEW v, Stored(v) PROVE Kept(Activated(v))
  BY <1>0, <1>1 DEF Activated, Stored
<1>2. ASSUME NEW v \in DepVersions, depRows[v] = "none" PROVE Kept([depRows EXCEPT ![v] = "inactive"])
  BY <1>0, <1>2
<1>3. ASSUME NEW v \in DepVersions, depRows[v] = "inactive" PROVE Kept([depRows EXCEPT ![v] = "gone"])
  BY <1>0, <1>3
<1>4. Kept(depRows') /\ paths' = paths
  <2>1. CASE RollBack
    <3>1. Stored(rolling) /\ Change(Activated(rolling))
      BY <2>1 DEF RollBack
    <3> HIDE DEF Kept
    <3> QED BY <1>1, <3>1 DEF Change
  <2>2. CASE RowsChange
    <3>1. PICK v \in DepVersions : InsertDeployment(v) \/ ActivateDeployment(v) \/ CollectDeployment(v)
      BY <2>2 DEF RowsChange
    <3> HIDE DEF Kept
    <3>2. CASE InsertDeployment(v)
      BY <1>2, <3>2 DEF InsertDeployment, Change
    <3>3. CASE ActivateDeployment(v)
      BY <1>1, <3>3 DEF ActivateDeployment, Change, Stored
    <3>4. CASE CollectDeployment(v)
      BY <1>3, <3>4 DEF CollectDeployment, Change
    <3> QED BY <3>1, <3>2, <3>3, <3>4
  <2> QED BY <2>1, <2>2
<1> QED BY <1>4, BrowsedRows

LEMMA TopFoldersAre == ASSUME NEW es PROVE TopLevelFolders(es) \subseteq IdsOf(es)
BY DEF TopLevelFolders, IdsOf

LEMMA BrowsedSame ==
    ASSUME Browsed, UNCHANGED serverRows, UNCHANGED filesVars PROVE Browsed'
BY DEF Browsed, serverRows, filesVars, Read, Drawn

(* A call's answer, and the tree drawn of it.                              *)
LEMMA BrowsedFetch ==
    ASSUME Browsed, UNCHANGED <<serverRows, browser, opened>>,
           fetch'.step = "found" => fetch'.found \in DepVersions /\ depRows[fetch'.found] # "none",
           fetch'.step = "answered" /\ fetch'.found # 0 => Read(fetch'.found, fetch'.files)
    PROVE  Browsed'
<1>1. depRows' = depRows /\ paths' = paths /\ browser' = browser /\ opened' = opened
  BY DEF serverRows
<1>2. \A v, files : Read(v, files) => Read(v, files)'
  BY <1>1 DEF Read
<1>3. \A shown : Drawn(shown) => Drawn(shown)'
  BY <1>1, <1>2 DEF Drawn
<1>4. (browser.version # 0 => Drawn(browser))'
  BY <1>1, <1>3 DEF Browsed
<1>5. (fetch.step = "answered" /\ fetch.found # 0 => Read(fetch.found, fetch.files))'
  BY <1>2
<1> QED BY <1>1, <1>4, <1>5 DEF Browsed

LEMMA BrowsedDraw ==
    ASSUME Browsed, UNCHANGED serverRows, NEW shown, browser' = shown, fetch'.step = "idle",
           opened' \subseteq IdsOf(shown.elements), shown.version # 0 => Drawn(shown)
    PROVE  Browsed'
<1>1. depRows' = depRows /\ paths' = paths
  BY DEF serverRows
<1>2. \A v, files : Read(v, files) => Read(v, files)'
  BY <1>1 DEF Read
<1>3. Drawn(shown) => Drawn(shown)'
  BY <1>2 DEF Drawn
<1>4. (browser.version # 0 => Drawn(browser))'
  BY <1>3
<1>5. (opened \subseteq IdsOf(browser.elements))'
  BY DEF IdsOf
<1> QED BY <1>1, <1>4, <1>5 DEF Browsed

LEMMA BrowsedFiles == ASSUME Browsed, FilesStep PROVE Browsed'
<1>0. depRows \in [DepVersions -> {"none", "inactive", "active", "gone"}]
  BY DEF Browsed
<1>1. CASE LoadFiles
  BY <1>1, BrowsedFetch DEF LoadFiles, NoFetch
<1>2. ASSUME NEW step, NEW found, NEW files, Fetched(step, found, files),
             step = "found" => found \in DepVersions /\ depRows[found] # "none",
             step = "answered" /\ found # 0 => Read(found, files)
      PROVE  Browsed'
  <2>1. fetch'.step = step /\ fetch'.found = found /\ fetch'.files = files
    BY <1>2 DEF Fetched
  <2>2. UNCHANGED <<serverRows, browser, opened>>
    BY <1>2 DEF Fetched
  <2> QED BY <1>2, <2>1, <2>2, BrowsedFetch
<1>3. CASE ReadActive
  <2>1. CASE Fetched("none live", 0, <<>>)
    BY <1>2, <2>1
  <2>2. CASE \E v \in DepVersions : depRows[v] = "active" /\ Fetched("found", v, <<>>)
    BY <1>2, <2>2
  <2> QED BY <1>3, <2>1, <2>2 DEF ReadActive
<1>4. CASE ReadNewestRow
  <2> DEFINE rows == {v \in DepVersions : Stored(v)}
  <2>1. CASE \E v \in DepVersions : Stored(v)
    <3>1. Max(rows) \in rows
      <4>1. rows # {} /\ rows \in SUBSET (0..MaxDeployments) /\ MaxDeployments \in Nat
        BY <2>1, ViewConstants DEF DepVersions
      <4> HIDE DEF rows
      <4> QED BY <4>1, GreatestExists
    <3>2. Max(rows) \in DepVersions /\ depRows[Max(rows)] # "none"
      BY <3>1 DEF Stored
    <3>3. Fetched("found", Max(rows), <<>>)
      BY <1>4, <2>1 DEF ReadNewestRow
    <3> HIDE DEF rows
    <3> QED BY <1>2, <3>2, <3>3
  <2>2. CASE ~\E v \in DepVersions : Stored(v)
    <3>1. Fetched("answered", 0, <<>>)
      BY <1>4, <2>2 DEF ReadNewestRow
    <3> QED BY <1>2, <3>1
  <2> QED BY <2>1, <2>2
<1>5. CASE ReadFiles
  <2> DEFINE files == IF Stored(fetch.found) THEN paths[fetch.found] ELSE <<>>
  <2>1. fetch.found \in DepVersions /\ depRows[fetch.found] # "none"
    BY <1>5 DEF ReadFiles, Browsed
  <2>2. depRows[fetch.found] \in {"none", "inactive", "active", "gone"}
    BY <1>0, <2>1
  <2>3. Read(fetch.found, files)
    BY <2>1, <2>2 DEF Read, Stored
  <2>4. Fetched("answered", fetch.found, files)
    BY <1>5 DEF ReadFiles
  <2> HIDE DEF files
  <2> QED BY <1>2, <2>3, <2>4
<1>6. CASE ShowFiles
  <2> DEFINE shown == [version |-> fetch.found, elements |-> PathsToTreeElements(Visible(fetch.files)),
                       count |-> Len(Visible(fetch.files))]
  <2>1. fetch.step = "answered" /\ Draw(shown)
    BY <1>6 DEF ShowFiles
  <2>2. shown.version # 0 => Drawn(shown)
    <3>1. shown.version # 0 => Read(fetch.found, fetch.files)
      BY <2>1 DEF Browsed
    <3> QED BY <3>1 DEF Drawn
  <2> HIDE DEF shown
  <2>3. browser' = shown /\ opened' = TopLevelFolders(shown.elements) /\ fetch'.step = "idle" /\ UNCHANGED serverRows
    BY <2>1 DEF Draw, NoFetch
  <2> QED BY <2>2, <2>3, TopFoldersAre, BrowsedDraw
<1>7. CASE FailFiles
  <2>1. browser' = NoFiles /\ opened' = TopLevelFolders(NoFiles.elements) /\ fetch'.step = "idle" /\ UNCHANGED serverRows
    BY <1>7 DEF FailFiles, Draw, NoFetch
  <2>2. NoFiles.version = 0
    BY DEF NoFiles
  <2> QED BY <2>1, <2>2, TopFoldersAre, BrowsedDraw
<1>8. ASSUME NEW e \in ToSet(browser.elements), ClickFolder(e) PROVE Browsed'
  <2>1. opened' = Toggled(opened, e.id) /\ fetch' = fetch /\ fetch.step = "idle" /\ browser' = browser /\ UNCHANGED serverRows
    BY <1>8 DEF ClickFolder
  <2>2. e.id \in IdsOf(browser.elements)
    BY <1>8 DEF IdsOf
  <2>3. opened' \subseteq IdsOf(browser.elements)
    BY <2>1, <2>2 DEF Toggled, Browsed
  <2>4. browser.version # 0 => Drawn(browser)
    BY DEF Browsed
  <2>5. fetch'.step = "idle"
    BY <2>1
  <2> QED BY <2>1, <2>3, <2>4, <2>5, BrowsedDraw
<1> QED BY <1>1, <1>3, <1>4, <1>5, <1>6, <1>7, <1>8 DEF FilesStep

LEMMA BrowsedHistory == ASSUME Browsed, HistoryStep PROVE Browsed'
<1>1. ASSUME NEW r \in Reloads, LoadDeployments(r) \/ ListDeployments(r) \/ ShowHistory(r) \/ FailHistory(r)
      PROVE  Browsed'
  BY <1>1, BrowsedSame DEF LoadDeployments, ListDeployments, ShowHistory, FailHistory
<1>2. ASSUME NEW item \in history.rows, HandleRollback(item) PROVE Browsed'
  BY <1>2, BrowsedSame DEF HandleRollback
<1>3. CASE RollBack
  BY <1>3, BrowsedChange DEF RollBack
<1>4. CASE RefuseRollback
  BY <1>4, BrowsedSame DEF RefuseRollback
<1>5. CASE EndRollback
  BY <1>5, BrowsedSame DEF EndRollback
<1> QED BY <1>1, <1>2, <1>3, <1>4, <1>5 DEF HistoryStep

LEMMA BrowsedNext == Browsed /\ [ViewNext]_viewVars => Browsed'
<1> SUFFICES ASSUME Browsed, [ViewNext]_viewVars PROVE Browsed'
  OBVIOUS
<1>1. CASE UNCHANGED viewVars
  BY <1>1, BrowsedSame DEF viewVars
<1>2. CASE RowsChange
  <2>1. UNCHANGED filesVars
    BY <1>2 DEF RowsChange, InsertDeployment, ActivateDeployment, CollectDeployment
  <2> QED BY <1>2, <2>1, BrowsedChange
<1>3. CASE FilesStep
  BY <1>3, BrowsedFiles
<1>4. CASE HistoryStep
  BY <1>4, BrowsedHistory
<1> QED BY <1>1, <1>2, <1>3, <1>4 DEF ViewNext

LEMMA NothingPicked == ASSUME NEW places PROVE Picked(<<>>, places) = <<>>
<1>1. ASSUME NEW s \in Seq(STRING), Len(s) = 0 PROVE Len(Picked(s, places)) = 0 /\ Picked(s, places) \in Seq(STRING)
  <2>1. Enumerates(s, 0, Len(s), places)
    BY <1>1 DEF Enumerates
  <2> QED BY <2>1, PickedIs
<1>2. \A s \in Seq(STRING) : Len(s) = 0 => Picked(s, places) = <<>>
  <2>1. \A t \in Seq(STRING) : Len(t) = 0 => t = <<>>
    OBVIOUS
  <2> QED BY <1>1, <2>1
<1>3. <<>> \in Seq(STRING) /\ Len(<<>>) = 0
  OBVIOUS
<1> QED BY <1>2, <1>3

LEMMA BrowsedShows == Browsed => TreeShowsFiles
<1> SUFFICES ASSUME Browsed, browser.version # 0
             PROVE  LET elements == browser.elements
                        files == Visible(paths[browser.version])
                    IN  /\ \/ [i \in DOMAIN Leaves(elements) |-> Leaves(elements)[i].id]
                                  = [i \in DOMAIN files |-> PartsOf(files[i])]
                           \/ elements = <<>> /\ depRows[browser.version] = "gone"
                        /\ browser.count = Len(Leaves(elements))
                        /\ \A e \in ToSet(elements) : InPlace(elements, e)
                        /\ \A i, j \in DOMAIN elements :
                               elements[i].id = elements[j].id => i = j
                        /\ opened \subseteq {e.id : e \in ToSet(elements)}
  BY DEF TreeShowsFiles
<1> DEFINE elements == browser.elements
           all == paths[browser.version]
<1>1. PICK files : /\ Read(browser.version, files)
                   /\ elements = PathsToTreeElements(Visible(files))
                   /\ browser.count = Len(Visible(files))
  BY DEF Browsed, Drawn
<1>2. Directory(files)
  BY <1>1, NoDirectory DEF Browsed, Read
<1>3. Shown(elements, Visible(files))
  BY <1>1, <1>2, VisibleIs, TreeIsShown
<1>4. browser.count = Len(Leaves(elements))
  BY <1>1, <1>3 DEF Shown
<1>5. opened \subseteq {e.id : e \in ToSet(elements)}
  BY DEF Browsed, IdsOf
<1>6. \/ files = all
      \/ elements = <<>> /\ depRows[browser.version] = "gone"
  <2>1. files = <<>> => elements = <<>>
    <3>1. Visible(<<>>) = <<>>
      BY NothingPicked DEF Visible
    <3>2. PathsToTreeElements(<<>>) = <<>>
      <4>1. <<>> \in Seq(Seq(STRING)) /\ Len(<<>>) = 0
        OBVIOUS
      <4> QED BY <4>1, TreesAre
    <3> QED BY <1>1, <3>1, <3>2
  <2> QED BY <1>1, <2>1 DEF Read
<1> HIDE DEF elements, all
<1>7. \/ [i \in DOMAIN Leaves(elements) |-> Leaves(elements)[i].id]
             = [i \in DOMAIN Visible(all) |-> PartsOf(Visible(all)[i])]
      \/ elements = <<>> /\ depRows[browser.version] = "gone"
  BY <1>3, <1>6 DEF Shown
<1>8. /\ \A e \in ToSet(elements) : InPlace(elements, e)
      /\ \A i, j \in DOMAIN elements : elements[i].id = elements[j].id => i = j
  BY <1>3 DEF Shown
<1> QED BY <1>4, <1>5, <1>7, <1>8 DEF elements, all

(* The tree that the tab of files draws is the deployment's: its leaves    *)
(* are the files, each once, in its folders and with an id of its own,     *)
(* whatever deploys, rollbacks and the collector do between the queries    *)
(* of listPageDeploymentFiles and whatever the user opens and closes.      *)
THEOREM TreeStaysTrue == ViewSpec => []TreeShowsFiles
BY BrowsedInit, BrowsedNext, BrowsedShows, PTL DEF ViewSpec

-----------------------------------------------------------------------------
(* The wizard.                                                             *)

WizardType == [step : {"name", "deploy"}, creating : BOOLEAN, created : {0} \cup PageIds,
               shown : BOOLEAN, deploying : BOOLEAN, active : {0} \cup PageIds, over : BOOLEAN]
EditType == [kind : {"none", "create", "delete"}, step : {"idle", "asked", "half", "done", "refused"},
             id : {0} \cup PageIds, acted : BOOLEAN, heard : BOOLEAN, local : BOOLEAN]
TriggerType == [step : {"idle", "asked", "done", "refused"}, page : {0} \cup PageIds]

CallsTyped ==
    /\ edits \in [Edits -> EditType] /\ triggers \in [Triggers -> TriggerType]
    /\ wizard \in WizardType /\ strayed \in BOOLEAN
    /\ screen \in {"list", "new", "detail"} /\ detail \in {0} \cup PageIds

Asking(t) == triggers[t].step # "idle"

(* Whose answer the wizard is waiting for has made a project, if it has    *)
(* succeeded; when the wizard is not there, nothing is for it.             *)
Addressed ==
    /\ \A e \in Edits :
          /\ edits[e].local => Live(e) /\ edits[e].kind = "create" /\ edits[e].heard
          /\ edits[e].kind = "create" /\ edits[e].step \in {"half", "done"} => edits[e].id \in PageIds
    /\ screen # "new" =>
          /\ wizard = NewWizard
          /\ \A e \in Edits : ~edits[e].local
          /\ \A t \in Triggers : ~Asking(t)

(* The wizard has one call under way, and it is for the project and the    *)
(* step it shows.                                                          *)
Single ==
    /\ wizard.step = "name" => ~wizard.shown
    /\ ~wizard.shown => wizard.active = 0
    /\ \A t \in Triggers : Asking(t) =>
          triggers[t].page = wizard.created /\ wizard.shown /\ wizard.deploying /\ wizard.active = 0
    /\ \A s, t \in Triggers : Asking(s) /\ Asking(t) => s = t
    /\ \A e \in Edits : edits[e].local => wizard.creating
    /\ \A d, e \in Edits : edits[d].local /\ edits[e].local => d = e

Following ==
    /\ wizard.active # 0 => wizard.active = wizard.created
    /\ wizard.active # 0 /\ ~wizard.deploying => wizard.over
    /\ wizard.step = "deploy" => wizard.created # 0 /\ ~wizard.creating
    /\ wizard.creating => \E e \in Edits : edits[e].local
    /\ wizard.deploying /\ wizard.active = 0 => \E t \in Triggers : Asking(t)

Steered == CallsTyped /\ Addressed /\ (~strayed => Single /\ Following)

LEMMA IdleIs ==
    /\ \A calls \in [Triggers -> TriggerType] :
          /\ Idle(calls) # Triggers <=> \E t \in Triggers : calls[t].step # "idle"
          /\ Idle(calls) # {} => AnyOf(Idle(calls)) \in Triggers
                                 /\ calls[AnyOf(Idle(calls))].step = "idle"
    /\ \A calls \in [Edits -> EditType] :
          Idle(calls) # {} => AnyOf(Idle(calls)) \in Edits
                              /\ calls[AnyOf(Idle(calls))].step = "idle"
BY DEF Idle, AnyOf

LEMMA SteeredTrue == Steered => WizardIsTrue
<1> SUFFICES ASSUME Steered, ~strayed PROVE WizardIsTrue
  BY DEF WizardIsTrue
<1>1. Triggering <=> \E t \in Triggers : Asking(t)
  BY IdleIs DEF Triggering, Asking, Steered, CallsTyped
<1> QED BY <1>1 DEF Steered, Following, Addressed, WizardIsTrue

LEMMA SteeredInit == ProjectInit => Steered
<1> SUFFICES ASSUME ProjectInit PROVE Steered
  OBVIOUS
<1>1. CallsTyped
  <2>1. NoEdit \in EditType /\ NoTrigger \in TriggerType /\ NewWizard \in WizardType
    BY DEF NoEdit, NoTrigger, NewWizard, EditType, TriggerType, WizardType
  <2> QED BY <2>1 DEF ProjectInit, CallsTyped, NoTriggers
<1>2. (\A e \in Edits : edits[e] = NoEdit) /\ (\A t \in Triggers : triggers[t] = NoTrigger)
      /\ wizard = NewWizard
  BY DEF ProjectInit, NoTriggers
<1>3. Addressed
  BY <1>2 DEF Addressed, NoEdit, NoTrigger, Asking
<1>4. Single /\ Following
  BY <1>2 DEF Single, Following, NoEdit, NoTrigger, NewWizard, Asking
<1> QED BY <1>1, <1>3, <1>4 DEF Steered

-----------------------------------------------------------------------------
(* Calls go on, and none begins to be local to the wizard or ceases to be. *)
LEMMA SteeredOn ==
    ASSUME Steered, UNCHANGED <<screen, wizard, strayed>>, CallsTyped',
           \A e \in Edits :
               /\ edits'[e].local = edits[e].local
               /\ edits'[e].kind = edits[e].kind \/ ~edits[e].local
               /\ edits[e].local => Live(e)' /\ edits'[e].heard
               /\ edits'[e].kind = "create" /\ edits'[e].step \in {"half", "done"} =>
                     edits'[e].id \in PageIds,
           \A t \in Triggers : triggers'[t].page = triggers[t].page /\ (Asking(t)' <=> Asking(t))
    PROVE  Steered'
<1>1. Addressed'
  BY DEF Steered, Addressed
<1>2. ~strayed => Single'
  BY DEF Steered, Single
<1>3. ~strayed => Following'
  BY DEF Steered, Following
<1> QED BY <1>1, <1>2, <1>3 DEF Steered

(* The wizard is not there: a list or a project is.                        *)
LEMMA SteeredAway ==
    ASSUME screen' # "new", wizard' = NewWizard, CallsTyped',
           \A e \in Edits :
               /\ ~edits'[e].local
               /\ edits'[e].kind = "create" /\ edits'[e].step \in {"half", "done"} =>
                     edits'[e].id \in PageIds,
           \A t \in Triggers : ~Asking(t)'
    PROVE  Steered'
<1>1. Addressed'
  BY DEF Addressed
<1>2. Single' /\ Following'
  BY DEF Single, Following, NewWizard
<1> QED BY <1>1, <1>2 DEF Steered

(* An answer, a trigger or a step of the wizard.                           *)
LEMMA LeastPage ==
    ASSUME NEW free, free \subseteq PageIds, free # {} PROVE Min(free) \in free
<1>1. free \subseteq Nat
  BY DEF PageIds
<1>2. PICK x \in free : \A y \in free : ~(<<y, x>> \in OpToRel(<, Nat))
  BY <1>1, NatLessThanWellFounded, WFMin
<1>3. \A y \in free : ~(y < x)
  BY <1>1, <1>2 DEF OpToRel
<1>4. \A y \in free : x <= y
  BY <1>1, <1>3
<1> QED BY <1>4 DEF Min

-----------------------------------------------------------------------------
(* The API.                                                                *)
LEMMA SteeredApi ==
    ASSUME Steered, ApiStep PROVE Steered'
<1>1. UNCHANGED <<screen, wizard, strayed, detail>>
  BY DEF ApiStep, InsertSite, InsertPage, DeletePage, DeactivateSite, RefuseEdit, ReadPages, AnswerTrigger,
         EditTo, screenVars
<1>2. edits \in [Edits -> EditType] /\ triggers \in [Triggers -> TriggerType]
  BY DEF Steered, CallsTyped
<1>3. ASSUME NEW e \in Edits, NEW to \in EditType, edits' = [edits EXCEPT ![e] = to],
             triggers' = triggers, Live(e), to.step # "idle",
             to.kind = edits[e].kind, to.local = edits[e].local, to.heard = edits[e].heard,
             to.kind = "create" /\ to.step \in {"half", "done"} => to.id \in PageIds
      PROVE  Steered'
  <2>1. edits'[e] = to /\ \A d \in Edits \ {e} : edits'[d] = edits[d]
    BY <1>2, <1>3
  <2>2. CallsTyped'
    BY <1>1, <1>2, <1>3 DEF Steered, CallsTyped
  <2> QED BY <1>1, <1>3, <2>1, <2>2, SteeredOn DEF Steered, Addressed, Live, Asking
<1>4. ASSUME NEW e \in Edits, InsertSite(e) PROVE Steered'
  <2> DEFINE free == {p \in PageIds : siteState[p] = "none"}
             to == [edits[e] EXCEPT !.step = "half", !.id = Min(free)]
  <2>1. Min(free) \in PageIds
    BY <1>4, LeastPage DEF InsertSite
  <2>2. edits' = [edits EXCEPT ![e] = to] /\ triggers' = triggers /\ edits[e].step = "asked"
    BY <1>4, <1>2 DEF InsertSite
  <2>3. /\ to \in EditType /\ to.step = "half" /\ to.id \in PageIds
        /\ to.kind = edits[e].kind /\ to.local = edits[e].local /\ to.heard = edits[e].heard
    <3> HIDE DEF free
    <3> QED BY <1>2, <2>1 DEF EditType
  <2> HIDE DEF to
  <2> QED BY <1>3, <2>2, <2>3 DEF Live
<1>5. ASSUME NEW e \in Edits, InsertPage(e) PROVE Steered'
  <2> DEFINE to == [edits[e] EXCEPT !.step = "done", !.acted = TRUE]
  <2>1. edits' = [edits EXCEPT ![e] = to] /\ triggers' = triggers /\ edits[e].step = "half"
        /\ edits[e].kind = "create"
    BY <1>2, <1>5 DEF InsertPage
  <2>2. /\ to \in EditType /\ to.step = "done" /\ to.id = edits[e].id
        /\ to.kind = edits[e].kind /\ to.local = edits[e].local /\ to.heard = edits[e].heard
    BY <1>2 DEF EditType
  <2>3. edits[e].id \in PageIds
    BY <2>1 DEF Steered, Addressed
  <2> HIDE DEF to
  <2> QED BY <1>3, <2>1, <2>2, <2>3 DEF Live
<1>6. ASSUME NEW e \in Edits, DeletePage(e) PROVE Steered'
  <2> DEFINE to == [edits[e] EXCEPT !.step = "half", !.acted = TRUE]
  <2>1. edits' = [edits EXCEPT ![e] = to] /\ triggers' = triggers /\ edits[e].step = "asked"
        /\ edits[e].kind = "delete"
    BY <1>2, <1>6 DEF DeletePage
  <2>2. /\ to \in EditType /\ to.step = "half" /\ to.id = edits[e].id
        /\ to.kind = edits[e].kind /\ to.local = edits[e].local /\ to.heard = edits[e].heard
    BY <1>2 DEF EditType
  <2> HIDE DEF to
  <2> QED BY <1>3, <2>1, <2>2 DEF Live
<1>7. ASSUME NEW e \in Edits, DeactivateSite(e) PROVE Steered'
  <2> DEFINE to == [edits[e] EXCEPT !.step = "done"]
  <2>1. edits' = [edits EXCEPT ![e] = to] /\ triggers' = triggers /\ edits[e].step = "half"
        /\ edits[e].kind = "delete"
    BY <1>2, <1>7 DEF DeactivateSite, EditTo
  <2>2. /\ to \in EditType /\ to.step = "done" /\ to.id = edits[e].id
        /\ to.kind = edits[e].kind /\ to.local = edits[e].local /\ to.heard = edits[e].heard
    BY <1>2 DEF EditType
  <2> HIDE DEF to
  <2> QED BY <1>3, <2>1, <2>2 DEF Live
<1>8. ASSUME NEW e \in Edits, RefuseEdit(e) PROVE Steered'
  <2> DEFINE to == [edits[e] EXCEPT !.step = "refused"]
  <2>1. edits' = [edits EXCEPT ![e] = to] /\ triggers' = triggers /\ edits[e].step \in {"asked", "half"}
    BY <1>2, <1>8 DEF RefuseEdit
  <2>2. /\ to \in EditType /\ to.step = "refused"
        /\ to.kind = edits[e].kind /\ to.local = edits[e].local /\ to.heard = edits[e].heard
    BY <1>2 DEF EditType
  <2> HIDE DEF to
  <2> QED BY <1>3, <2>1, <2>2 DEF Live
<1>9. ASSUME NEW f \in Fetches, ReadPages(f) PROVE Steered'
  <2>1. edits' = edits /\ triggers' = triggers
    BY <1>9 DEF ReadPages
  <2> QED BY <1>1, <2>1, SteeredOn DEF Steered, CallsTyped, Addressed, Live, Asking
<1>10. ASSUME NEW t \in Triggers, AnswerTrigger(t) PROVE Steered'
  <2>1. PICK answered \in {"done", "refused"} :
            triggers' = [triggers EXCEPT ![t].step = answered]
    BY <1>10 DEF AnswerTrigger
  <2>2. edits' = edits /\ triggers[t].step = "asked"
    BY <1>10 DEF AnswerTrigger
  <2>3. /\ triggers' \in [Triggers -> TriggerType]
        /\ \A s \in Triggers : triggers'[s].page = triggers[s].page
        /\ triggers'[t].step = answered /\ \A s \in Triggers \ {t} : triggers'[s] = triggers[s]
    BY <1>2, <2>1 DEF TriggerType
  <2>4. \A s \in Triggers : Asking(s)' <=> Asking(s)
    BY <2>2, <2>3 DEF Asking
  <2>5. CallsTyped'
    BY <1>1, <2>2, <2>3 DEF Steered, CallsTyped
  <2> QED BY <1>1, <2>2, <2>3, <2>4, <2>5, SteeredOn DEF Steered, Addressed, Live
<1> QED BY <1>4, <1>5, <1>6, <1>7, <1>8, <1>9, <1>10 DEF ApiStep

-----------------------------------------------------------------------------
(* The console.                                                            *)
LEMMA Blank ==
    /\ NoEdit \in EditType /\ NoEdit.kind = "none" /\ NoEdit.step = "idle" /\ ~NoEdit.local
    /\ NoTrigger \in TriggerType /\ NoTrigger.step = "idle"
    /\ NewWizard \in WizardType
    /\ NoTriggers \in [Triggers -> TriggerType] /\ \A t \in Triggers : NoTriggers[t].step = "idle"
BY DEF NoEdit, NoTrigger, NoTriggers, NewWizard, EditType, TriggerType, WizardType

LEMMA SteeredSame ==
    ASSUME Steered, UNCHANGED <<edits, triggers, screenVars>> PROVE Steered'
BY SteeredOn DEF Steered, CallsTyped, Addressed, Live, Asking, screenVars

(* A call is over.                                                         *)
LEMMA SteeredEnd ==
    ASSUME Steered, NEW e \in Edits, edits' = [edits EXCEPT ![e] = NoEdit], UNCHANGED <<triggers, screen, detail, strayed>>,
           \/ UNCHANGED wizard /\ ~edits[e].local
           \/ /\ edits[e].local
              /\ \/ wizard' = [wizard EXCEPT !.creating = FALSE]
                 \/ /\ edits[e].kind = "create" /\ edits[e].step = "done"
                    /\ wizard' = [wizard EXCEPT !.created = edits[e].id, !.step = "deploy",
                                                !.creating = FALSE]
    PROVE  Steered'
<1>1. /\ edits \in [Edits -> EditType] /\ triggers \in [Triggers -> TriggerType] /\ wizard \in WizardType
      /\ edits' \in [Edits -> EditType] /\ edits'[e] = NoEdit
      /\ \A d \in Edits \ {e} : edits'[d] = edits[d]
  BY Blank DEF Steered, CallsTyped
<1>2. CASE UNCHANGED wizard /\ ~edits[e].local
  <2>1. CallsTyped'
    BY <1>1, <1>2 DEF Steered, CallsTyped
  <2>2. \A d \in Edits :
            /\ edits'[d].local = edits[d].local
            /\ edits'[d].kind = edits[d].kind \/ ~edits[d].local
            /\ edits[d].local => Live(d)' /\ edits'[d].heard
            /\ edits'[d].kind = "create" /\ edits'[d].step \in {"half", "done"} =>
                  edits'[d].id \in PageIds
    <3>1. ~edits'[e].local /\ edits'[e].kind = "none" /\ edits[e].local = FALSE /\ edits'[e].local = FALSE
      <4>1. edits[e].local \in BOOLEAN
        BY <1>1 DEF EditType
      <4> QED BY <1>1, <1>2, <4>1 DEF NoEdit
    <3>2. \A d \in Edits \ {e} : edits[d].local => Live(d)' /\ edits'[d].heard
      BY <1>1 DEF Steered, Addressed, Live
    <3>3. \A d \in Edits \ {e} : edits'[d].kind = "create" /\ edits'[d].step \in {"half", "done"} =>
                  edits'[d].id \in PageIds
      BY <1>1 DEF Steered, Addressed
    <3> QED BY <1>1, <1>2, <3>1, <3>2, <3>3
  <2> QED BY <1>1, <1>2, <2>1, <2>2, SteeredOn DEF Asking
<1>3. ASSUME edits[e].local, NEW to \in WizardType, wizard' = to, ~to.creating,
             to.shown = wizard.shown, to.deploying = wizard.deploying,
             to.active = wizard.active, to.over = wizard.over,
             \/ to.created = wizard.created /\ to.step = wizard.step
             \/ to.created # 0 /\ to.step = "deploy"
      PROVE  Steered'
  <2>1. CallsTyped'
    BY <1>1, <1>3 DEF Steered, CallsTyped
  <2>2. screen = "new"
    BY <1>3 DEF Steered, Addressed
  <2>3. Addressed'
    BY <1>1, <2>2, Blank DEF Steered, Addressed, Live
  <2>4. ASSUME ~strayed PROVE Single' /\ Following'
    <3>1. Single /\ Following
      BY <2>4 DEF Steered
    <3>2. /\ wizard.creating /\ wizard.step = "name" /\ ~wizard.shown /\ wizard.active = 0
          /\ \A t \in Triggers : ~Asking(t)
      BY <1>1, <1>3, <3>1 DEF Single, Following, WizardType
    <3>3. \A d \in Edits : ~edits'[d].local
      BY <1>1, <1>3, <3>1, Blank DEF Single
    <3>4. ~wizard.deploying
      BY <3>1, <3>2 DEF Following
    <3>5. Single'
      BY <1>3, <3>2, <3>3 DEF Single, Asking
    <3>6. Following'
      BY <1>3, <3>2, <3>4 DEF Following
    <3> QED BY <3>5, <3>6
  <2> QED BY <2>1, <2>3, <2>4 DEF Steered
<1>4. CASE edits[e].local /\ wizard' = [wizard EXCEPT !.creating = FALSE]
  <2> DEFINE to == [wizard EXCEPT !.creating = FALSE]
  <2>1. /\ to \in WizardType /\ ~to.creating /\ to.shown = wizard.shown
        /\ to.deploying = wizard.deploying /\ to.active = wizard.active /\ to.over = wizard.over
        /\ to.created = wizard.created /\ to.step = wizard.step
    BY <1>1 DEF WizardType
  <2>2. wizard' = to
    BY <1>4
  <2> HIDE DEF to
  <2> QED BY <1>3, <1>4, <2>1, <2>2
<1>5. CASE /\ edits[e].local /\ edits[e].kind = "create" /\ edits[e].step = "done"
           /\ wizard' = [wizard EXCEPT !.created = edits[e].id, !.step = "deploy", !.creating = FALSE]
  <2> DEFINE to == [wizard EXCEPT !.created = edits[e].id, !.step = "deploy", !.creating = FALSE]
  <2>1. edits[e].id \in PageIds /\ edits[e].id # 0
    BY <1>5 DEF Steered, Addressed, PageIds
  <2>2. /\ to \in WizardType /\ ~to.creating /\ to.shown = wizard.shown
        /\ to.deploying = wizard.deploying /\ to.active = wizard.active /\ to.over = wizard.over
        /\ to.created # 0 /\ to.step = "deploy"
    BY <1>1, <2>1 DEF WizardType
  <2>3. wizard' = to
    BY <1>5
  <2> HIDE DEF to
  <2> QED BY <1>3, <1>5, <2>2, <2>3
<1> QED BY <1>2, <1>4, <1>5

LEMMA SteeredEdits ==
    ASSUME Steered, NEW e \in Edits, EndCreate(e) \/ FailEdit(e) \/ Forget(e) PROVE Steered'
<1>1. edits[e].local => edits[e].heard
  BY DEF Steered, Addressed
<1> QED BY <1>1, SteeredEnd DEF EndCreate, FailEdit, Forget, screenVars

(* The calls when their screen is left.                                    *)
LEMMA Left ==
    ASSUME Steered, NEW under, under \in [Edits -> EditType],
           \A e \in Edits : under[e].kind = "create" /\ under[e].step \in {"half", "done"} =>
               under[e].id \in PageIds
    PROVE  LET left == Unlocal(under) IN
           /\ left \in [Edits -> EditType]
           /\ \A e \in Edits :
                 /\ ~left[e].local
                 /\ left[e].kind = "create" /\ left[e].step \in {"half", "done"} =>
                       left[e].id \in PageIds
BY DEF Unlocal, EditType

LEMMA SteeredToList ==
    ASSUME Steered, NEW under, under \in [Edits -> EditType], GoToList(under),
           \A e \in Edits : under[e].kind = "create" /\ under[e].step \in {"half", "done"} =>
               under[e].id \in PageIds
    PROVE  Steered'
<1>1. /\ screen' = "list" /\ detail' = 0 /\ wizard' = NewWizard /\ strayed' = FALSE
      /\ edits' = Unlocal(under) /\ triggers' = NoTriggers
  BY DEF GoToList
<1>2. CallsTyped'
  BY <1>1, Left, Blank DEF CallsTyped
<1> QED BY <1>1, <1>2, Left, Blank, SteeredAway DEF Asking

LEMMA SteeredEndDelete ==
    ASSUME Steered, NEW e \in Edits, EndDelete(e) PROVE Steered'
<1>1. edits \in [Edits -> EditType] /\ edits[e].kind = "delete" /\ ~edits[e].local
  BY DEF EndDelete, Steered, CallsTyped, Addressed
<1>2. CASE GoToList([edits EXCEPT ![e] = NoEdit])
  <2> DEFINE under == [edits EXCEPT ![e] = NoEdit]
  <2>1. /\ under \in [Edits -> EditType] /\ under[e] = NoEdit
        /\ \A d \in Edits \ {e} : under[d] = edits[d]
    BY <1>1, Blank
  <2>2. GoToList(under)
    BY <1>2
  <2> HIDE DEF under
  <2>3. \A d \in Edits : under[d].kind = "create" /\ under[d].step \in {"half", "done"} =>
            under[d].id \in PageIds
    BY <2>1, Blank DEF Steered, Addressed
  <2> QED BY <2>1, <2>2, <2>3, SteeredToList
<1>3. CASE edits' = [edits EXCEPT ![e] = NoEdit] /\ UNCHANGED <<triggers, screenVars>>
  BY <1>1, <1>3, SteeredEnd DEF screenVars
<1> QED BY <1>2, <1>3 DEF EndDelete

LEMMA SteeredOpen ==
    ASSUME Steered, OpenList \/ OpenWizard \/ \E id \in PageIds : OpenProject(id) PROVE Steered'
<1>1. CASE OpenList
  BY <1>1, SteeredToList DEF OpenList, Steered, CallsTyped, Addressed
<1>2. CASE OpenWizard
  <2>1. UNCHANGED <<edits, triggers, detail, wizard, strayed>> /\ screen' = "new"
    BY <1>2 DEF OpenWizard, callVars
  <2>2. CallsTyped' /\ Addressed'
    BY <2>1 DEF Steered, CallsTyped, Addressed, Live
  <2>3. ~strayed => Single' /\ Following'
    BY <2>1 DEF Steered, Single, Following, Asking
  <2> QED BY <2>1, <2>2, <2>3 DEF Steered
<1>3. ASSUME NEW id \in PageIds, OpenProject(id) PROVE Steered'
  <2>1. /\ screen' = "detail" /\ detail' = id /\ wizard' = NewWizard /\ strayed' = FALSE
        /\ edits' = [e \in Edits |-> [edits[e] EXCEPT !.heard = FALSE, !.local = FALSE]]
        /\ triggers' = NoTriggers
    BY <1>3 DEF OpenProject
  <2>2. edits \in [Edits -> EditType]
    BY DEF Steered, CallsTyped
  <2>3. /\ edits' \in [Edits -> EditType]
        /\ \A e \in Edits : /\ ~edits'[e].local /\ edits'[e].kind = edits[e].kind
                            /\ edits'[e].step = edits[e].step /\ edits'[e].id = edits[e].id
    BY <2>1, <2>2 DEF EditType
  <2>4. CallsTyped'
    BY <2>1, <2>3, Blank DEF CallsTyped
  <2> QED BY <2>1, <2>3, <2>4, Blank, SteeredAway DEF Steered, Addressed, Asking
<1> QED BY <1>1, <1>2, <1>3

LEMMA SteeredHandleDelete ==
    ASSUME Steered, HandleDelete PROVE Steered'
<1> DEFINE x == AnyOf(Idle(edits))
           to == [kind |-> "delete", step |-> "asked", id |-> detail, acted |-> FALSE, heard |-> TRUE,
                  local |-> FALSE]
<1>1. edits \in [Edits -> EditType] /\ detail \in {0} \cup PageIds /\ Idle(edits) # {}
  BY DEF Steered, CallsTyped, HandleDelete, BeginEdit
<1>2. x \in Edits /\ edits[x].step = "idle"
  BY <1>1, IdleIs
<1>3. Begun(detail, "delete") = to
  BY DEF Begun
<1>4. edits' = [edits EXCEPT ![x] = to] /\ triggers' = triggers /\ UNCHANGED screenVars
  BY <1>3 DEF HandleDelete, BeginEdit
<1>5. to \in EditType /\ to.kind = "delete" /\ to.step = "asked" /\ ~to.local
  BY <1>1 DEF EditType
<1> HIDE DEF to, x
<1>6. edits' \in [Edits -> EditType] /\ edits'[x] = to /\ \A d \in Edits \ {x} : edits'[d] = edits[d]
  BY <1>1, <1>2, <1>4, <1>5
<1>7. ~edits[x].local
  BY <1>2 DEF Steered, Addressed, Live
<1>8. CallsTyped'
  BY <1>4, <1>6 DEF Steered, CallsTyped, screenVars
<1>9. \A d \in Edits :
          /\ edits'[d].local = edits[d].local
          /\ edits'[d].kind = edits[d].kind \/ ~edits[d].local
          /\ edits[d].local => Live(d)' /\ edits'[d].heard
          /\ edits'[d].kind = "create" /\ edits'[d].step \in {"half", "done"} =>
                edits'[d].id \in PageIds
  <2>1. edits[x].local = FALSE /\ edits'[x].local = FALSE
    <3>1. edits[x].local \in BOOLEAN /\ edits'[x].local \in BOOLEAN
      BY <1>1, <1>2, <1>6 DEF EditType
    <3> QED BY <1>5, <1>6, <1>7, <3>1
  <2>2. \A d \in Edits \ {x} : edits[d].local => Live(d)' /\ edits'[d].heard
    BY <1>6 DEF Steered, Addressed, Live
  <2>3. \A d \in Edits \ {x} : edits'[d].kind = "create" /\ edits'[d].step \in {"half", "done"} =>
                edits'[d].id \in PageIds
    BY <1>6 DEF Steered, Addressed
  <2> QED BY <1>5, <1>6, <1>7, <2>1, <2>2, <2>3
<1> QED BY <1>4, <1>8, <1>9, SteeredOn DEF screenVars, Asking

LEMMA SteeredNameContinue ==
    ASSUME Steered, HandleNameContinue PROVE Steered'
<1> DEFINE x == AnyOf(Idle(edits))
           to == [kind |-> "create", step |-> "asked", id |-> 0, acted |-> FALSE, heard |-> TRUE,
                  local |-> TRUE]
<1>1. edits \in [Edits -> EditType] /\ Idle(edits) # {} /\ wizard \in WizardType
  BY DEF Steered, CallsTyped, HandleNameContinue, BeginEdit
<1>2. x \in Edits /\ edits[x].step = "idle"
  BY <1>1, IdleIs
<1>3. Begun(0, "create") = to
  BY DEF Begun
<1>4. /\ edits' = [edits EXCEPT ![x] = to] /\ triggers' = triggers /\ UNCHANGED <<screen, detail>>
      /\ screen = "new" /\ wizard.step = "name"
      /\ wizard' = [wizard EXCEPT !.creating = TRUE]
      /\ strayed' = (strayed \/ wizard.creating)
  BY <1>3 DEF HandleNameContinue, BeginEdit
<1>5. to \in EditType /\ to.kind = "create" /\ to.step = "asked" /\ to.local /\ to.heard
  BY DEF EditType
<1> HIDE DEF to, x
<1>6. edits' \in [Edits -> EditType] /\ edits'[x] = to /\ \A d \in Edits \ {x} : edits'[d] = edits[d]
  BY <1>1, <1>2, <1>4, <1>5
<1>7. /\ wizard' \in WizardType /\ wizard'.creating
      /\ wizard'.step = "name" /\ wizard'.shown = wizard.shown /\ wizard'.created = wizard.created
      /\ wizard'.deploying = wizard.deploying /\ wizard'.active = wizard.active /\ wizard'.over = wizard.over
  BY <1>1, <1>4 DEF WizardType
<1>8. CallsTyped'
  <2>1. strayed' \in BOOLEAN
    BY <1>4, Zenon
  <2> QED BY <1>4, <1>6, <1>7, <2>1 DEF Steered, CallsTyped
<1>9. Addressed'
  BY <1>4, <1>5, <1>6 DEF Steered, Addressed, Live
<1>10. ASSUME ~strayed' PROVE Single' /\ Following'
  <2>1. ~strayed /\ ~wizard.creating
    BY <1>4, <1>10
  <2>2. Single /\ Following
    BY <2>1 DEF Steered
  <2>3. \A d \in Edits : ~edits[d].local
    BY <2>1, <2>2 DEF Single
  <2>4. Single'
    BY <1>4, <1>6, <1>7, <2>2, <2>3 DEF Single, Asking
  <2>5. Following'
    BY <1>2, <1>4, <1>5, <1>6, <1>7, <2>2 DEF Following, Asking
  <2> QED BY <2>4, <2>5
<1> QED BY <1>8, <1>9, <1>10 DEF Steered

(* A step of the wizard, which is about its triggers.                      *)
LEMMA SteeredCloudDeploy ==
    ASSUME Steered, HandleCloudDeploy PROVE Steered'
<1> DEFINE x == AnyOf(Idle(triggers))
           to == [step |-> "asked", page |-> wizard.created]
<1>1. triggers \in [Triggers -> TriggerType] /\ Idle(triggers) # {} /\ wizard \in WizardType
  BY DEF Steered, CallsTyped, HandleCloudDeploy
<1>2. x \in Triggers /\ triggers[x].step = "idle"
  BY <1>1, IdleIs
<1>3. /\ triggers' = [triggers EXCEPT ![x] = to] /\ UNCHANGED <<edits, screen, detail, strayed>>
      /\ screen = "new" /\ wizard.step = "deploy" /\ ~wizard.shown
      /\ wizard' = [wizard EXCEPT !.deploying = TRUE, !.shown = TRUE]
  BY DEF HandleCloudDeploy
<1>4. to \in TriggerType /\ to.step = "asked" /\ to.page = wizard.created
  BY <1>1 DEF TriggerType, WizardType
<1> HIDE DEF to, x
<1>5. /\ triggers' \in [Triggers -> TriggerType] /\ triggers'[x] = to
      /\ \A t \in Triggers \ {x} : triggers'[t] = triggers[t]
  BY <1>1, <1>2, <1>3, <1>4
<1>6. /\ wizard' \in WizardType /\ wizard'.deploying /\ wizard'.shown
      /\ wizard'.step = "deploy" /\ wizard'.creating = wizard.creating /\ wizard'.created = wizard.created
      /\ wizard'.active = wizard.active /\ wizard'.over = wizard.over
  BY <1>1, <1>3 DEF WizardType
<1>7. CallsTyped' /\ Addressed'
  BY <1>3, <1>5, <1>6 DEF Steered, CallsTyped, Addressed, Live
<1>8. ASSUME ~strayed PROVE Single' /\ Following'
  <2>1. Single /\ Following /\ wizard.active = 0 /\ \A t \in Triggers : ~Asking(t)
    BY <1>3, <1>8 DEF Steered, Single
  <2>2. Single'
    BY <1>3, <1>4, <1>5, <1>6, <2>1 DEF Single, Asking
  <2>3. Following'
    BY <1>2, <1>3, <1>4, <1>5, <1>6, <2>1 DEF Following, Asking
  <2> QED BY <2>2, <2>3
<1> QED BY <1>3, <1>7, <1>8 DEF Steered

LEMMA SteeredEndTrigger ==
    ASSUME Steered, NEW t \in Triggers, EndTrigger(t) PROVE Steered'
<1>1. triggers \in [Triggers -> TriggerType] /\ wizard \in WizardType
  BY DEF Steered, CallsTyped
<1>2. /\ triggers' = [triggers EXCEPT ![t] = NoTrigger] /\ UNCHANGED <<edits, screen, detail, strayed>>
      /\ triggers[t].step \in {"done", "refused"}
      /\ wizard' = IF triggers[t].step = "refused" THEN [wizard EXCEPT !.deploying = FALSE]
                   ELSE [wizard EXCEPT !.active = triggers[t].page, !.over = FALSE,
                                       !.deploying = wizard.deploying]
  BY DEF EndTrigger, DeployingAfter
<1>3. /\ triggers' \in [Triggers -> TriggerType] /\ triggers'[t] = NoTrigger
      /\ \A s \in Triggers \ {t} : triggers'[s] = triggers[s]
  BY <1>1, <1>2, Blank
<1>4. /\ wizard' \in WizardType /\ wizard'.shown = wizard.shown
      /\ wizard'.step = wizard.step /\ wizard'.creating = wizard.creating
      /\ wizard'.created = wizard.created
      /\ \/ ~wizard'.deploying /\ wizard'.active = wizard.active
         \/ wizard'.deploying = wizard.deploying /\ wizard'.active = triggers[t].page
  <2>1. CASE triggers[t].step = "refused"
    BY <1>1, <1>2, <2>1 DEF WizardType
  <2>2. CASE triggers[t].step # "refused"
    BY <1>1, <1>2, <2>2 DEF WizardType, TriggerType
  <2> QED BY <2>1, <2>2
<1>5. Asking(t) /\ screen = "new"
  BY <1>2 DEF Asking, Steered, Addressed
<1>6. CallsTyped' /\ Addressed'
  BY <1>2, <1>3, <1>4, <1>5 DEF Steered, CallsTyped, Addressed, Live
<1>7. ASSUME ~strayed PROVE Single' /\ Following'
  <2>1. /\ Single /\ Following /\ wizard.active = 0 /\ wizard.shown /\ wizard.deploying
        /\ triggers[t].page = wizard.created /\ wizard.step = "deploy" /\ wizard.created # 0
    BY <1>1, <1>5, <1>7 DEF Steered, Single, Following, WizardType
  <2>2. \A s \in Triggers : ~Asking(s)'
    BY <1>3, <1>5, <2>1, Blank DEF Single, Asking
  <2>3. Single'
    BY <1>2, <1>4, <2>1, <2>2 DEF Single
  <2>4. Following'
    BY <1>2, <1>4, <2>1 DEF Following
  <2> QED BY <2>3, <2>4
<1> QED BY <1>2, <1>6, <1>7 DEF Steered

LEMMA SteeredBuildComplete ==
    ASSUME Steered, HandleBuildComplete PROVE Steered'
<1>1. /\ UNCHANGED <<edits, triggers, screen, detail, strayed>> /\ screen = "new"
      /\ wizard.active # 0
      /\ wizard' = [wizard EXCEPT !.deploying = FALSE, !.over = TRUE]
  BY DEF HandleBuildComplete, callVars
<1>2. /\ wizard' \in WizardType /\ ~wizard'.deploying /\ wizard'.over
      /\ wizard'.step = wizard.step /\ wizard'.creating = wizard.creating /\ wizard'.shown = wizard.shown
      /\ wizard'.active = wizard.active /\ wizard'.created = wizard.created
  BY <1>1 DEF Steered, CallsTyped, WizardType
<1>3. CallsTyped' /\ Addressed'
  BY <1>1, <1>2 DEF Steered, CallsTyped, Addressed, Live
<1>4. ASSUME ~strayed PROVE Single' /\ Following'
  <2>1. Single /\ Following
    BY <1>4 DEF Steered
  <2> QED BY <1>1, <1>2, <2>1 DEF Single, Following, Asking
<1> QED BY <1>1, <1>3, <1>4 DEF Steered

LEMMA SteeredStepBack ==
    ASSUME Steered, StepBack PROVE Steered'
<1>1. /\ UNCHANGED <<edits, triggers, screen, detail>> /\ screen = "new" /\ wizard.step = "deploy"
      /\ \/ ~wizard.shown /\ wizard' = [wizard EXCEPT !.step = "name"]
         \/ wizard.active = 0 /\ wizard' = [wizard EXCEPT !.shown = FALSE, !.deploying = FALSE]
      /\ strayed' = (strayed \/ Triggering)
  BY DEF StepBack, callVars
<1>2. /\ wizard' \in WizardType /\ wizard'.creating = wizard.creating /\ wizard'.created = wizard.created
      /\ wizard'.active = wizard.active /\ wizard'.over = wizard.over
      /\ \/ /\ ~wizard.shown /\ ~wizard'.shown /\ wizard'.step = "name"
            /\ wizard'.deploying = wizard.deploying
         \/ /\ wizard.active = 0 /\ ~wizard'.shown /\ wizard'.step = "deploy" /\ ~wizard'.deploying
  BY <1>1 DEF Steered, CallsTyped, WizardType
<1>3. CallsTyped' /\ Addressed'
  <2>1. strayed' \in BOOLEAN
    BY <1>1, Zenon DEF Triggering
  <2> QED BY <1>1, <1>2, <2>1 DEF Steered, CallsTyped, Addressed, Live
<1>4. ASSUME ~strayed' PROVE Single' /\ Following'
  <2>1. ~strayed /\ ~Triggering
    BY <1>1, <1>4
  <2>2. \A t \in Triggers : ~Asking(t)
    BY <2>1, IdleIs DEF Triggering, Asking, Steered, CallsTyped
  <2>3. Single /\ Following
    BY <2>1 DEF Steered
  <2>4. wizard.active = 0 /\ ~wizard'.shown
    BY <1>2, <2>3 DEF Single
  <2>5. Single'
    BY <1>1, <1>2, <2>2, <2>3, <2>4 DEF Single, Asking
  <2>6. Following'
    BY <1>1, <1>2, <2>2, <2>3, <2>4 DEF Following
  <2> QED BY <2>5, <2>6
<1> QED BY <1>3, <1>4 DEF Steered

(* The wizard keeps to its project.                                        *)
LEMMA SteeredAlways == ProjectSpec => []Steered
<1>1. Steered /\ [ProjectNext]_projectVars => Steered'
  <2> SUFFICES ASSUME Steered, [ProjectNext]_projectVars PROVE Steered'
    OBVIOUS
  <2>1. ASSUME NEW f \in Fetches, ShowProjects(f) \/ FailFetch(f) PROVE Steered'
    BY <2>1, SteeredSame DEF ShowProjects, FailFetch
  <2>2. CASE UNCHANGED projectVars
    BY <2>2, SteeredSame DEF projectVars, callVars
  <2> QED BY <2>1, <2>2, SteeredApi, SteeredEdits, SteeredEndDelete, SteeredOpen, SteeredHandleDelete,
             SteeredNameContinue, SteeredCloudDeploy, SteeredEndTrigger, SteeredBuildComplete,
             SteeredStepBack
          DEF ProjectNext, ConsoleStep
<1> QED BY <1>1, SteeredInit, PTL DEF ProjectSpec

(* Unless its user went back while a build was being started, or asked     *)
(* twice for a project, the wizard follows a build of the project it has   *)
(* made, whatever calls overlap, are refused, or answer after it was left. *)
THEOREM WizardStaysTrue == ProjectSpec => []WizardIsTrue
<1> QED BY SteeredAlways, SteeredTrue, PTL

-----------------------------------------------------------------------------
(* The pages and their sites.                                              *)

HalfMade(e) == edits[e].kind = "create" /\ edits[e].step = "half"
HalfRemoved(e) == edits[e].kind = "delete" /\ edits[e].step = "half"

(* A page that is half made is nobody else's, and one that is half removed *)
(* has no row: the step that ends it takes the site of no other.           *)
Made(e) == edits[e].id \in PageIds \ pageRows /\ siteState[edits[e].id] = "active"
Removed(e) == edits[e].id \in PageIds \ pageRows /\ siteState[edits[e].id] # "none"
Apart(d, e) == HalfMade(d) \/ HalfRemoved(d) => d = e \/ edits[d].id # edits[e].id

Sited ==
    /\ pageRows \subseteq PageIds
    /\ siteState \in [PageIds -> {"none", "active", "inactive"}]
    /\ \A p \in pageRows : siteState[p] = "active"
    /\ \A e \in Edits : HalfMade(e) => Made(e) /\ \A d \in Edits : Apart(d, e)
    /\ \A e \in Edits : HalfRemoved(e) => Removed(e)

LEMMA SitedInit == ProjectInit => Sited
<1> SUFFICES ASSUME ProjectInit PROVE Sited
  OBVIOUS
<1>1. \A e \in Edits : edits[e] = NoEdit
  BY DEF ProjectInit
<1> QED BY <1>1, Blank DEF ProjectInit, Sited, Made, Removed, Apart, HalfMade, HalfRemoved

(* No call is half through that was not.                                   *)
LEMMA SitedOn ==
    ASSUME Sited, UNCHANGED apiVars,
           \A e \in Edits : edits'[e].step = "half" =>
               edits[e].step = "half" /\ edits'[e].kind = edits[e].kind /\ edits'[e].id = edits[e].id
    PROVE  Sited'
BY DEF Sited, Made, Removed, Apart, HalfMade, HalfRemoved, apiVars

LEMMA SitedConsole ==
    ASSUME CallsTyped, Sited, ConsoleStep PROVE Sited'
<1>1. edits \in [Edits -> EditType]
  BY DEF CallsTyped
<1>2. ASSUME NEW e \in Edits, NEW to \in EditType, edits' = [edits EXCEPT ![e] = to],
             to.step # "half", UNCHANGED apiVars
      PROVE  Sited'
  BY <1>1, <1>2, SitedOn
<1>3. ASSUME UNCHANGED <<edits, apiVars>> PROVE Sited'
  BY <1>3, SitedOn
<1>4. ASSUME NEW under \in [Edits -> EditType], edits' = Unlocal(under), UNCHANGED apiVars,
             \A e \in Edits : under[e].step = "half" => under[e] = edits[e]
      PROVE  Sited'
  <2>1. \A e \in Edits : /\ edits'[e].step = under[e].step /\ edits'[e].kind = under[e].kind
                         /\ edits'[e].id = under[e].id
    BY <1>4 DEF Unlocal, EditType
  <2> QED BY <1>4, <2>1, SitedOn
<1>5. ASSUME NEW id \in {0} \cup PageIds, NEW kind \in {"create", "delete"}, BeginEdit(id, kind)
      PROVE  Sited'
  <2>1. Begun(id, kind) \in EditType /\ Begun(id, kind).step = "asked"
    <3>1. (kind = "create") \in BOOLEAN
      BY Zenon
    <3> QED BY <3>1 DEF Begun, EditType
  <2>2. AnyOf(Idle(edits)) \in Edits
    BY <1>1, <1>5, IdleIs DEF BeginEdit
  <2> QED BY <1>2, <1>5, <2>1, <2>2 DEF BeginEdit
<1>6. ASSUME NEW e \in Edits, EndCreate(e) \/ EndDelete(e) \/ FailEdit(e) \/ Forget(e) PROVE Sited'
  <2>1. CASE edits' = [edits EXCEPT ![e] = NoEdit]
    BY <1>2, <1>6, <2>1, Blank DEF EndCreate, EndDelete, FailEdit, Forget
  <2>2. CASE GoToList([edits EXCEPT ![e] = NoEdit]) /\ UNCHANGED apiVars
    <3>1. /\ [edits EXCEPT ![e] = NoEdit] \in [Edits -> EditType]
          /\ \A d \in Edits : [edits EXCEPT ![e] = NoEdit][d].step = "half" =>
                                  [edits EXCEPT ![e] = NoEdit][d] = edits[d]
      BY <1>1, Blank
    <3> QED BY <1>4, <2>2, <3>1 DEF GoToList
  <2> QED BY <1>6, <2>1, <2>2 DEF EndCreate, EndDelete, FailEdit, Forget
<1>7. CASE OpenList
  BY <1>1, <1>4, <1>7 DEF OpenList, GoToList
<1>8. ASSUME NEW id \in PageIds, OpenProject(id) PROVE Sited'
  <2>1. edits' = [e \in Edits |-> [edits[e] EXCEPT !.heard = FALSE, !.local = FALSE]] /\ UNCHANGED apiVars
    BY <1>8 DEF OpenProject
  <2>2. \A e \in Edits : /\ edits'[e].step = edits[e].step /\ edits'[e].kind = edits[e].kind
                         /\ edits'[e].id = edits[e].id
    BY <1>1, <2>1 DEF EditType
  <2> QED BY <2>1, <2>2, SitedOn
<1>9. CASE HandleDelete
  BY <1>5, <1>9 DEF HandleDelete, CallsTyped
<1>10. CASE HandleNameContinue
  BY <1>5, <1>10 DEF HandleNameContinue
<1>11. CASE OpenWizard \/ HandleCloudDeploy \/ HandleBuildComplete \/ StepBack
            \/ (\E f \in Fetches : ShowProjects(f) \/ FailFetch(f)) \/ \E t \in Triggers : EndTrigger(t)
  BY <1>3, <1>11 DEF OpenWizard, HandleCloudDeploy, HandleBuildComplete, StepBack, ShowProjects, FailFetch,
                     EndTrigger, callVars
<1> QED BY <1>6, <1>7, <1>8, <1>9, <1>10, <1>11 DEF ConsoleStep

LEMMA SitedApi ==
    ASSUME CallsTyped, Sited, ApiStep PROVE Sited'
<1>1. edits \in [Edits -> EditType]
  BY DEF CallsTyped
<1>2. ASSUME NEW e \in Edits, InsertSite(e) PROVE Sited'
  <2> DEFINE free == {p \in PageIds : siteState[p] = "none"}
             new == Min(free)
  <2>1. new \in PageIds /\ siteState[new] = "none"
    BY <1>2, LeastPage DEF InsertSite
  <2>2. /\ edits' = [edits EXCEPT ![e].step = "half", ![e].id = new]
        /\ siteState' = [siteState EXCEPT ![new] = "active"] /\ pageRows' = pageRows
        /\ edits[e].kind = "create" /\ edits[e].step = "asked"
    BY <1>2 DEF InsertSite
  <2> HIDE DEF new, free
  <2>3. /\ edits'[e].step = "half" /\ edits'[e].id = new /\ edits'[e].kind = "create"
        /\ \A d \in Edits \ {e} : edits'[d] = edits[d]
    BY <1>1, <2>2 DEF EditType
  <2>4. /\ siteState' \in [PageIds -> {"none", "active", "inactive"}] /\ siteState'[new] = "active"
        /\ \A p \in PageIds \ {new} : siteState'[p] = siteState[p]
    BY <2>1, <2>2 DEF Sited
  <2>5. new \notin pageRows /\ \A d \in Edits : HalfMade(d) \/ HalfRemoved(d) => edits[d].id # new
    BY <2>1 DEF Sited, Made, Removed
  <2>6. \A d \in Edits \ {e} : (HalfMade(d)' <=> HalfMade(d)) /\ (HalfRemoved(d)' <=> HalfRemoved(d))
    BY <2>3 DEF HalfMade, HalfRemoved
  <2>7. ~HalfRemoved(e)' /\ Made(e)'
    BY <2>1, <2>2, <2>3, <2>4, <2>5 DEF HalfRemoved, Made
  <2>8. ASSUME NEW d \in Edits, d # e PROVE (Made(d) => Made(d)') /\ (Removed(d) => Removed(d)')
    <3>1. edits'[d] = edits[d] /\ pageRows' = pageRows
      BY <2>2, <2>3, <2>8
    <3>2. \A p \in PageIds : (siteState[p] = "active" => siteState'[p] = "active")
                            /\ (siteState[p] # "none" => siteState'[p] # "none")
      BY <2>4
    <3>3. Made(d) => Made(d)'
      BY <3>1, <3>2 DEF Made
    <3>4. Removed(d) => Removed(d)'
      BY <3>1, <3>2 DEF Removed
    <3> QED BY <3>3, <3>4
  <2>9. ASSUME NEW c \in Edits, NEW d \in Edits, HalfMade(d)' PROVE Apart(c, d)'
    BY <2>3, <2>5, <2>6, <2>9 DEF Sited, Apart
  <2> QED BY <2>2, <2>4, <2>5, <2>6, <2>7, <2>8, <2>9 DEF Sited
<1>3. ASSUME NEW e \in Edits, InsertPage(e) PROVE Sited'
  <2>1. /\ edits' = [edits EXCEPT ![e].step = "done", ![e].acted = TRUE] /\ HalfMade(e)
        /\ pageRows' = pageRows \cup {edits[e].id} /\ siteState' = siteState
    BY <1>3 DEF InsertPage, HalfMade, HalfRemoved
  <2>2. edits'[e].step = "done" /\ \A d \in Edits \ {e} : edits'[d] = edits[d]
    BY <1>1, <2>1 DEF EditType
  <2>3. ~HalfMade(e)' /\ ~HalfRemoved(e)'
    BY <2>2 DEF HalfMade, HalfRemoved
  <2>4. \A d \in Edits \ {e} : (HalfMade(d)' <=> HalfMade(d)) /\ (HalfRemoved(d)' <=> HalfRemoved(d))
    BY <2>2 DEF HalfMade, HalfRemoved
  <2>5. Made(e) /\ \A d \in Edits : Apart(d, e)
    BY <2>1 DEF Sited
  <2>6. pageRows' \subseteq PageIds /\ \A p \in pageRows' : siteState'[p] = "active"
    BY <2>1, <2>5 DEF Sited, Made
  <2>7. ASSUME NEW d \in Edits, d # e, HalfMade(d) \/ HalfRemoved(d)
        PROVE  (Made(d) => Made(d)') /\ (Removed(d) => Removed(d)')
    <3>1. edits'[d] = edits[d] /\ edits[d].id # edits[e].id
      BY <2>2, <2>5, <2>7 DEF Apart
    <3>2. Made(d) => Made(d)'
      BY <2>1, <3>1 DEF Made
    <3>3. Removed(d) => Removed(d)'
      BY <2>1, <3>1 DEF Removed
    <3> QED BY <3>2, <3>3
  <2>8. ASSUME NEW c \in Edits, NEW d \in Edits, HalfMade(d)' PROVE Apart(c, d)'
    BY <2>2, <2>3, <2>4, <2>8 DEF Sited, Apart
  <2> QED BY <2>1, <2>3, <2>4, <2>6, <2>7, <2>8 DEF Sited
<1>4. ASSUME NEW e \in Edits, DeletePage(e) PROVE Sited'
  <2>1. /\ edits' = [edits EXCEPT ![e].step = "half", ![e].acted = TRUE]
        /\ edits[e].kind = "delete" /\ edits[e].id \in pageRows
        /\ pageRows' = pageRows \ {edits[e].id} /\ siteState' = siteState
    BY <1>4 DEF DeletePage
  <2>2. /\ edits'[e].kind = "delete" /\ edits'[e].id = edits[e].id
        /\ \A d \in Edits \ {e} : edits'[d] = edits[d]
    BY <1>1, <2>1 DEF EditType
  <2>3. \A d \in Edits \ {e} : (HalfMade(d)' <=> HalfMade(d)) /\ (HalfRemoved(d)' <=> HalfRemoved(d))
    BY <2>2 DEF HalfMade, HalfRemoved
  <2>4. ~HalfMade(e)' /\ Removed(e)'
    BY <2>1, <2>2 DEF HalfMade, Sited, Removed
  <2>5. pageRows' \subseteq PageIds /\ \A p \in pageRows' : siteState'[p] = "active"
    BY <2>1 DEF Sited
  <2>6. ASSUME NEW d \in Edits, d # e PROVE (Made(d) => Made(d)') /\ (Removed(d) => Removed(d)')
    <3>1. edits'[d] = edits[d]
      BY <2>2, <2>6
    <3>2. Made(d) => Made(d)'
      BY <2>1, <3>1 DEF Made
    <3>3. Removed(d) => Removed(d)'
      BY <2>1, <3>1 DEF Removed
    <3> QED BY <3>2, <3>3
  <2>7. ASSUME NEW c \in Edits, NEW d \in Edits, HalfMade(d)' PROVE Apart(c, d)'
    <3>1. d # e /\ HalfMade(d) /\ Made(d) /\ Apart(c, d)
      BY <2>3, <2>4, <2>7 DEF Sited
    <3>2. edits[d].id # edits[e].id /\ edits'[d] = edits[d]
      BY <2>1, <2>2, <3>1 DEF Made
    <3> QED BY <2>2, <2>3, <3>1, <3>2 DEF Apart
  <2> QED BY <2>1, <2>3, <2>4, <2>5, <2>6, <2>7 DEF Sited
<1>5. ASSUME NEW e \in Edits, DeactivateSite(e) PROVE Sited'
  <2>1. /\ edits' = [edits EXCEPT ![e].step = "done"] /\ HalfRemoved(e)
        /\ siteState' = [siteState EXCEPT ![edits[e].id] = "inactive"] /\ pageRows' = pageRows
    BY <1>5 DEF DeactivateSite, EditTo, HalfMade, HalfRemoved
  <2>2. edits'[e].step = "done" /\ \A d \in Edits \ {e} : edits'[d] = edits[d]
    BY <1>1, <2>1 DEF EditType
  <2>3. ~HalfMade(e)' /\ ~HalfRemoved(e)'
    BY <2>2 DEF HalfMade, HalfRemoved
  <2>4. \A d \in Edits \ {e} : (HalfMade(d)' <=> HalfMade(d)) /\ (HalfRemoved(d)' <=> HalfRemoved(d))
    BY <2>2 DEF HalfMade, HalfRemoved
  <2>5. /\ edits[e].id \in PageIds \ pageRows /\ siteState'[edits[e].id] = "inactive"
        /\ siteState' \in [PageIds -> {"none", "active", "inactive"}]
        /\ \A p \in PageIds : p # edits[e].id => siteState'[p] = siteState[p]
    BY <2>1 DEF Sited, Removed
  <2>6. ASSUME NEW d \in Edits, d # e, HalfMade(d) PROVE Made(d)'
    <3>1. Made(d) /\ edits[d].id # edits[e].id
      BY <2>1, <2>6 DEF Sited, Apart
    <3> QED BY <2>1, <2>2, <2>5, <2>6, <3>1 DEF Made
  <2>7. ASSUME NEW d \in Edits, d # e, HalfRemoved(d) PROVE Removed(d)'
    <3>1. Removed(d)
      BY <2>7 DEF Sited
    <3> QED BY <2>1, <2>2, <2>5, <2>7, <3>1 DEF Removed
  <2>8. ASSUME NEW c \in Edits, NEW d \in Edits, HalfMade(d)' PROVE Apart(c, d)'
    BY <2>2, <2>3, <2>4, <2>8 DEF Sited, Apart
  <2>9. \A p \in pageRows : siteState'[p] = "active"
    BY <2>5 DEF Sited
  <2> QED BY <2>1, <2>3, <2>4, <2>5, <2>6, <2>7, <2>8, <2>9 DEF Sited
<1>6. ASSUME NEW e \in Edits, RefuseEdit(e) PROVE Sited'
  <2>1. edits' = [edits EXCEPT ![e].step = "refused"] /\ UNCHANGED apiVars
    BY <1>6 DEF RefuseEdit
  <2>2. edits'[e].step = "refused" /\ \A d \in Edits \ {e} : edits'[d] = edits[d]
    BY <1>1, <2>1 DEF EditType
  <2> QED BY <2>1, <2>2, SitedOn
<1>7. CASE (\E f \in Fetches : ReadPages(f)) \/ \E t \in Triggers : AnswerTrigger(t)
  BY <1>7, SitedOn DEF ReadPages, AnswerTrigger
<1> QED BY <1>2, <1>3, <1>4, <1>5, <1>6, <1>7 DEF ApiStep

LEMMA SitedAlways == ProjectSpec => []Sited
<1>1. CallsTyped /\ Sited /\ [ProjectNext]_projectVars => Sited'
  <2> SUFFICES ASSUME CallsTyped, Sited, [ProjectNext]_projectVars PROVE Sited'
    OBVIOUS
  <2>1. CASE UNCHANGED projectVars
    BY <2>1, SitedOn DEF projectVars, callVars
  <2> QED BY <2>1, SitedConsole, SitedApi DEF ProjectNext
<1>2. Steered => CallsTyped
  BY DEF Steered
<1> QED BY <1>1, <1>2, SitedInit, SteeredAlways, PTL DEF ProjectSpec

(* No page is without a site that serves it, however the two statements of *)
(* a creation and of a removal interleave, and whichever of them fails.    *)
THEOREM PagesStayServed == ProjectSpec => []PagesAreServed
<1>1. Sited => PagesAreServed
  BY DEF Sited, PagesAreServed
<1> QED BY <1>1, SitedAlways, PTL

-----------------------------------------------------------------------------
(* The spinner.                                                            *)

FetchShape(f) == [step |-> fetches[f].step, list |-> fetches[f].list, crossed |-> fetches[f].crossed]

(* Whose end will take the spinner away.                                   *)
Pending ==
    \/ \E e \in Edits : Live(e) /\ edits[e].heard
    \/ \E f \in Fetches : fetches[f].step # "idle"

Spinning ==
    /\ fetches = [f \in Fetches |-> FetchShape(f)]
    /\ isLoading => Pending

LEMMA FetchSet ==
    ASSUME NEW shape, fetches = [f \in Fetches |-> FetchShape(f)], NEW f \in Fetches,
           NEW step, NEW list, NEW crossed,
           shape = [step |-> step, list |-> list, crossed |-> crossed],
           fetches' = [fetches EXCEPT ![f] = shape]
    PROVE  /\ (fetches = [x \in Fetches |-> FetchShape(x)])'
           /\ fetches'[f].step = step
           /\ \A x \in Fetches \ {f} : fetches'[x] = fetches[x]
<1>1. /\ fetches' = [x \in Fetches |-> fetches'[x]]
      /\ fetches'[f] = shape /\ \A x \in Fetches \ {f} : fetches'[x] = fetches[x]
  OBVIOUS
<1>2. \A x \in Fetches : fetches'[x] = FetchShape(x)'
  BY <1>1 DEF FetchShape
<1> QED BY <1>1, <1>2

LEMMA SpinningInit == ProjectInit => Spinning
<1> SUFFICES ASSUME ProjectInit PROVE Spinning
  OBVIOUS
<1> DEFINE first == AnyOf(Fetches)
           asked == PagesAsked(FALSE)
<1>1. first \in Fetches
  BY ProjectConstants DEF AnyOf
<1>2. fetches = [f \in Fetches |-> IF f = first THEN asked ELSE NoCall]
  BY DEF ProjectInit
<1>3. /\ asked = [step |-> "asked", list |-> <<>>, crossed |-> FALSE]
      /\ NoCall = [step |-> "idle", list |-> <<>>, crossed |-> FALSE]
  BY DEF NoCall, PagesAsked
<1> HIDE DEF first, asked
<1>4. \A f \in Fetches : fetches[f] = FetchShape(f)
  BY <1>2, <1>3 DEF FetchShape
<1>5. fetches[first].step # "idle"
  BY <1>1, <1>2, <1>3
<1> QED BY <1>1, <1>2, <1>4, <1>5 DEF Spinning, Pending

LEMMA SpinningApi == ASSUME CallsTyped, Spinning, ApiStep PROVE Spinning'
<1>1. isLoading' = isLoading
  BY DEF ApiStep, InsertSite, InsertPage, DeletePage, DeactivateSite, RefuseEdit, ReadPages, AnswerTrigger,
         storeVars
<1>2. edits \in [Edits -> EditType]
  BY DEF CallsTyped
<1>3. ASSUME NEW e \in Edits,
             InsertSite(e) \/ InsertPage(e) \/ DeletePage(e) \/ DeactivateSite(e) \/ RefuseEdit(e)
      PROVE  Spinning'
  <2>1. fetches' = fetches
    BY <1>3 DEF InsertSite, InsertPage, DeletePage, DeactivateSite, RefuseEdit
  <2>2. /\ edits'[e].step # "idle" /\ edits'[e].heard = edits[e].heard
        /\ \A d \in Edits \ {e} : edits'[d] = edits[d]
    <3>1. CASE InsertSite(e) BY <1>2, <3>1 DEF InsertSite, EditType
    <3>2. CASE InsertPage(e) BY <1>2, <3>2 DEF InsertPage, EditType
    <3>3. CASE DeletePage(e) BY <1>2, <3>3 DEF DeletePage, EditType
    <3>4. CASE DeactivateSite(e) BY <1>2, <3>4 DEF DeactivateSite, EditTo, EditType
    <3>5. CASE RefuseEdit(e) BY <1>2, <3>5 DEF RefuseEdit, EditType
    <3> QED BY <1>3, <3>1, <3>2, <3>3, <3>4, <3>5
  <2>3. (fetches = [f \in Fetches |-> FetchShape(f)])'
    BY <2>1 DEF Spinning, FetchShape
  <2>4. Pending => Pending'
    BY <2>1, <2>2 DEF Pending, Live
  <2> QED BY <1>1, <2>3, <2>4 DEF Spinning
<1>4. ASSUME NEW f \in Fetches, ReadPages(f) PROVE Spinning'
  <2> DEFINE list == SetToSeq(pageRows)
             to == [step |-> "answered", list |-> list, crossed |-> fetches[f].crossed]
  <2>1. fetches' = [fetches EXCEPT ![f] = to]
    BY <1>4 DEF ReadPages
  <2> HIDE DEF list
  <2>2. (fetches = [x \in Fetches |-> FetchShape(x)])' /\ fetches'[f].step = "answered"
    BY <2>1, FetchSet DEF Spinning
  <2> QED BY <2>2 DEF Spinning, Pending
<1>5. ASSUME NEW t \in Triggers, AnswerTrigger(t) PROVE Spinning'
  BY <1>1, <1>5 DEF AnswerTrigger, Spinning, Pending, FetchShape, Live
<1> QED BY <1>3, <1>4, <1>5 DEF ApiStep

(* Who asks, turns the spinner on.                                         *)
LEMMA SpinningFetch ==
    ASSUME Spinning, NEW under, FetchProjects(under) PROVE Spinning'
<1> DEFINE x == AnyOf(Idle(fetches))
           crossed == Idle(under) # Edits
           to == [step |-> "asked", list |-> <<>>, crossed |-> crossed]
<1>1. DOMAIN fetches = Fetches
  BY DEF Spinning
<1>2. x \in Fetches
  BY <1>1 DEF FetchProjects, Idle, AnyOf
<1>3. fetches' = [fetches EXCEPT ![x] = to]
  BY DEF FetchProjects, PagesAsked
<1> HIDE DEF x, crossed
<1>4. (fetches = [f \in Fetches |-> FetchShape(f)])' /\ fetches'[x].step = "asked"
  BY <1>2, <1>3, FetchSet DEF Spinning
<1> QED BY <1>2, <1>4 DEF Spinning, Pending

LEMMA SpinningEdit ==
    ASSUME CallsTyped, Spinning, NEW id \in {0} \cup PageIds, NEW kind \in {"create", "delete"}, BeginEdit(id, kind)
    PROVE  Spinning'
<1> DEFINE to == Begun(id, kind)
<1>1. edits \in [Edits -> EditType] /\ fetches' = Crossed
  BY DEF BeginEdit, CallsTyped
<1>2. PICK x \in Edits : edits' = [edits EXCEPT ![x] = to]
  BY <1>1, IdleIs DEF BeginEdit
<1>3. to.step = "asked" /\ to.heard
  BY DEF Begun
<1> HIDE DEF to
<1>4. Live(x)' /\ edits'[x].heard
  BY <1>1, <1>2, <1>3 DEF Live
<1>5. (fetches = [f \in Fetches |-> FetchShape(f)])'
  <2>1. \A f \in Fetches : /\ fetches'[f].step = fetches[f].step /\ fetches'[f].list = fetches[f].list
                           /\ fetches'[f].crossed = Crossed[f].crossed
    BY <1>1 DEF Crossed
  <2>2. \A f \in Fetches : fetches'[f] = FetchShape(f)'
    BY <1>1, <2>1 DEF Crossed, FetchShape
  <2> QED BY <1>1, <2>2 DEF Crossed
<1> QED BY <1>4, <1>5 DEF Spinning, Pending

LEMMA SpinningConsole == ASSUME CallsTyped, Spinning, ConsoleStep PROVE Spinning'
<1>1. ASSUME isLoading' = FALSE, fetches' = fetches PROVE Spinning'
  BY <1>1 DEF Spinning, FetchShape
<1>2. ASSUME NEW f \in Fetches, isLoading' = FALSE, fetches' = [fetches EXCEPT ![f] = NoCall] PROVE Spinning'
  BY <1>2, FetchSet DEF Spinning, NoCall
<1>3. ASSUME UNCHANGED <<isLoading, fetches, edits>> PROVE Spinning'
  BY <1>3 DEF Spinning, FetchShape, Pending, Live
<1>4. ASSUME NEW f \in Fetches, ShowProjects(f) \/ FailFetch(f) PROVE Spinning'
  BY <1>2, <1>4 DEF ShowProjects, FailFetch
<1>5. ASSUME NEW e \in Edits, EndCreate(e) \/ FailEdit(e) PROVE Spinning'
  BY <1>1, <1>5 DEF EndCreate, FailEdit
<1>6. ASSUME NEW e \in Edits, EndDelete(e) PROVE Spinning'
  BY <1>1, <1>6, SpinningFetch DEF EndDelete, GoToList
<1>7. ASSUME NEW e \in Edits, Forget(e) PROVE Spinning'
  <2>1. edits' = [edits EXCEPT ![e] = NoEdit] /\ ~edits[e].heard /\ UNCHANGED <<fetches, isLoading>>
    BY <1>7 DEF Forget, storeVars
  <2>2. \A d \in Edits \ {e} : edits'[d] = edits[d]
    BY <2>1 DEF CallsTyped
  <2>3. Pending => Pending'
    BY <2>1, <2>2 DEF Pending, Live
  <2> QED BY <2>1, <2>3 DEF Spinning, FetchShape
<1>8. CASE OpenList
  BY <1>8, SpinningFetch DEF OpenList, GoToList
<1>9. ASSUME NEW id \in PageIds, OpenProject(id) PROVE Spinning'
  <2> DEFINE first == AnyOf(Fetches)
             crossed == Idle(edits) # Edits
             asked == PagesAsked(crossed)
  <2>1. first \in Fetches
    BY ProjectConstants DEF AnyOf
  <2>2. fetches' = [f \in Fetches |-> IF f = first THEN asked ELSE NoCall]
    BY <1>9 DEF OpenProject
  <2> HIDE DEF first, crossed
  <2>3. /\ asked = [step |-> "asked", list |-> <<>>, crossed |-> crossed]
        /\ NoCall = [step |-> "idle", list |-> <<>>, crossed |-> FALSE]
    BY DEF NoCall, PagesAsked
  <2> HIDE DEF asked
  <2>4. \A f \in Fetches : fetches'[f] = FetchShape(f)'
    BY <2>2, <2>3 DEF FetchShape
  <2>5. fetches'[first].step # "idle"
    BY <2>1, <2>2, <2>3
  <2> QED BY <2>1, <2>2, <2>4, <2>5 DEF Spinning, Pending
<1>10. CASE HandleDelete
  BY <1>10, SpinningEdit DEF HandleDelete, CallsTyped
<1>11. CASE HandleNameContinue
  BY <1>11, SpinningEdit DEF HandleNameContinue
<1>12. CASE OpenWizard \/ HandleCloudDeploy \/ HandleBuildComplete \/ StepBack
            \/ \E t \in Triggers : EndTrigger(t)
  BY <1>3, <1>12 DEF OpenWizard, HandleCloudDeploy, HandleBuildComplete, StepBack, EndTrigger, callVars, storeVars
<1> QED BY <1>4, <1>5, <1>6, <1>7, <1>8, <1>9, <1>10, <1>11, <1>12 DEF ConsoleStep

LEMMA SpinningAlways == ProjectSpec => []Spinning
<1>1. CallsTyped /\ Spinning /\ [ProjectNext]_projectVars => Spinning'
  <2> SUFFICES ASSUME CallsTyped, Spinning, [ProjectNext]_projectVars PROVE Spinning'
    OBVIOUS
  <2>1. CASE UNCHANGED projectVars
    BY <2>1 DEF projectVars, callVars, storeVars, Spinning, FetchShape, Pending, Live
  <2> QED BY <2>1, SpinningApi, SpinningConsole DEF ProjectNext
<1>2. Steered => CallsTyped
  BY DEF Steered
<1> QED BY <1>1, <1>2, SpinningInit, SteeredAlways, PTL DEF ProjectSpec

(* Once no call is under way that this load of the page has made, the      *)
(* spinner is off, though each call turns one flag on and off for all.     *)
THEOREM SpinnerStops == ProjectSpec => []SpinnerEnds
<1>1. Spinning => SpinnerEnds
  <2> SUFFICES ASSUME Spinning, Idle(fetches) = Fetches, Pending PROVE \E e \in Edits : Live(e) /\ edits[e].heard
    BY DEF Spinning, SpinnerEnds
  <2> QED BY DEF Pending, Idle
<1> QED BY <1>1, SpinningAlways, PTL

-----------------------------------------------------------------------------
(* The list of the projects.                                               *)

Distinct(s) == \A i, j \in 1..Len(s) : s[i] = s[j] => i = j

LEMMA FilterSet ==
    ASSUME NEW S, NEW s \in Seq(S), NEW kept
    PROVE  /\ Filter(s, kept) \in Seq(S)
           /\ ToSet(Filter(s, kept)) = ToSet(s) \cap kept
           /\ Distinct(s) => Distinct(Filter(s, kept))
<1> DEFINE f == Filter(s, kept)
<1>0. f \in Seq(S)
  BY FilterIs
<1>1. PICK m \in Nat : \E g : Keeps(g, m, s, kept, f)
  BY FilterIs
<1> HIDE DEF f
<1>2. PICK g : /\ Len(f) = m
               /\ \A k \in 1..m : f[k] = s[g[k]] /\ g[k] \in 1..Len(s) /\ s[g[k]] \in kept
               /\ \A j, k \in 1..m : j < k => g[j] < g[k]
               /\ \A i \in 1..Len(s) : s[i] \in kept => \E k \in 1..m : g[k] = i
  BY <1>1 DEF Keeps
<1>3. DOMAIN s = 1..Len(s) /\ DOMAIN f = 1..m
  BY <1>0, <1>2
<1>4. \A x : x \in ToSet(f) <=> x \in ToSet(s) /\ x \in kept
  <2>1. \A x : x \in ToSet(f) => x \in ToSet(s) /\ x \in kept
    BY <1>2, <1>3 DEF ToSet
  <2>2. \A x : x \in ToSet(s) /\ x \in kept => x \in ToSet(f)
    <3> SUFFICES ASSUME NEW i \in 1..Len(s), s[i] \in kept PROVE s[i] \in ToSet(f)
      BY <1>3 DEF ToSet
    <3>1. PICK k \in 1..m : g[k] = i
      BY <1>2
    <3>2. f[k] = s[i]
      BY <1>2, <3>1
    <3> QED BY <1>3, <3>2 DEF ToSet
  <2> QED BY <2>1, <2>2
<1>5. ASSUME Distinct(s) PROVE Distinct(f)
  <2> SUFFICES ASSUME NEW j \in 1..m, NEW k \in 1..m, f[j] = f[k], j # k PROVE FALSE
    BY <1>2 DEF Distinct
  <2>1. g[j] = g[k]
    BY <1>2, <1>5 DEF Distinct
  <2>2. j < k \/ k < j
    OBVIOUS
  <2>3. g[j] \in 1..Len(s)
    BY <1>2
  <2>4. g[j] < g[k] \/ g[k] < g[j]
    BY <1>2, <2>2
  <2> QED BY <2>1, <2>3, <2>4
<1> QED BY <1>0, <1>4, <1>5 DEF f

(* A list without repetitions is as long as what it lists.                 *)
LEMMA DistinctLength ==
    ASSUME NEW S, NEW s \in Seq(S), Distinct(s)
    PROVE  Len(s) = Cardinality(ToSet(s))
<1>1. DOMAIN s = 1..Len(s) /\ Len(s) \in Nat
  OBVIOUS
<1>2. s \in [1..Len(s) -> ToSet(s)]
  <2>1. \A i \in 1..Len(s) : s[i] \in ToSet(s)
    BY <1>1 DEF ToSet
  <2>2. s \in [1..Len(s) -> S]
    OBVIOUS
  <2> QED BY <2>1, <2>2
<1>3. s \in Surjection(1..Len(s), ToSet(s))
  <2>1. \A t \in ToSet(s) : \E i \in 1..Len(s) : s[i] = t
    BY <1>1 DEF ToSet
  <2> QED BY <1>2, <2>1 DEF Surjection
<1>4. s \in Injection(1..Len(s), ToSet(s))
  BY <1>1, <1>2 DEF Injection, IsInjective, Distinct
<1>5. IsFiniteSet(1..Len(s)) /\ Cardinality(1..Len(s)) = Len(s)
  BY <1>1, FS_Interval
<1>6. Cardinality(ToSet(s)) = Cardinality(1..Len(s))
  BY <1>3, <1>4, <1>5, FS_Surjection
<1> QED BY <1>5, <1>6

LEMMA PagesListed ==
    ASSUME NEW pages, pages \subseteq PageIds
    PROVE  /\ SetToSeq(pages) \in Seq(PageIds) /\ ToSet(SetToSeq(pages)) = pages
           /\ Distinct(SetToSeq(pages))
<1> DEFINE n == Cardinality(pages)
           f == SetToSeq(pages)
<1>1. IsFiniteSet(pages) /\ n \in Nat /\ ExistsBijection(1..n, pages)
  <2>1. IsFiniteSet(PageIds)
    BY ProjectConstants, FS_Interval DEF PageIds
  <2>2. IsFiniteSet(pages)
    BY <2>1, FS_Subset
  <2> QED BY <2>2, FS_CardinalityType
<1>2. IsFiniteSet(1..n) /\ Cardinality(1..n) = n
  BY <1>1, FS_Interval
<1>3. \E g : g \in [1..n -> pages] /\ IsInjective(g)
  BY <1>1 DEF ExistsBijection, Bijection, Injection
<1>4. f \in [1..n -> pages] /\ IsInjective(f)
  BY <1>3 DEF SetToSeq
<1>5. f \in Surjection(1..n, pages)
  <2>1. f \in Injection(1..n, pages)
    BY <1>4 DEF Injection
  <2> HIDE DEF f
  <2> QED BY <1>1, <1>2, <2>1, FS_Injection
<1> HIDE DEF f, n
<1>6. f \in Seq(PageIds) /\ Len(f) = n /\ DOMAIN f = 1..n
  BY <1>1, <1>4
<1>7. ToSet(f) = pages
  <2>1. \A p \in pages : \E i \in 1..n : f[i] = p
    BY <1>5 DEF Surjection
  <2> QED BY <1>4, <1>6, <2>1 DEF ToSet
<1>8. Distinct(f)
  BY <1>4, <1>6 DEF Distinct, IsInjective
<1> QED BY <1>6, <1>7, <1>8 DEF f
Adding(e) == edits[e].kind = "create" /\ edits[e].acted
Removing(e) == edits[e].kind = "delete" /\ edits[e].acted

(* How far a call has come, and whether it has been carried out.           *)
Shaped(e) ==
    /\ edits[e].step = "idle" <=> edits[e].kind = "none"
    /\ edits[e].kind = "none" => ~edits[e].acted
    /\ edits[e].kind = "create" => (edits[e].acted <=> edits[e].step = "done")
    /\ edits[e].kind = "delete" /\ edits[e].acted => edits[e].step # "asked"
    /\ edits[e].kind = "delete" /\ edits[e].step \in {"half", "done"} => edits[e].acted

(* A fetch that no such call has overlapped brings what the rows are.      *)
Quiet == \A e \in Edits : edits[e].step = "idle"
Brings(f) ==
    /\ fetches[f].list \in Seq(PageIds) /\ fetches[f].crossed \in BOOLEAN
    /\ fetches[f].step # "idle" /\ ~fetches[f].crossed => Quiet
    /\ fetches[f].step = "answered" /\ ~fetches[f].crossed => fetches[f].list = SetToSeq(pageRows)

(* The list has the rows but for those whose making it has not heard of,   *)
(* and with those whose removal it has not heard of.                       *)
Unheard(p) == \E e \in Edits : Adding(e) /\ edits[e].id = p
Gone(p) == \E e \in Edits : Removing(e) /\ edits[e].id = p
StillListed(p) == (p \in pageRows /\ ~Unheard(p)) \/ Gone(p)

Faithful ==
    /\ Distinct(projects)
    /\ \A p \in PageIds : p \in ToSet(projects) <=> StillListed(p)

Accounted ==
    /\ \A e \in Edits : Live(e) => edits[e].heard
    /\ \A e \in Edits : Adding(e) => edits[e].id \in pageRows
    /\ \A d, e \in Edits : Adding(d) /\ Adding(e) /\ edits[d].id = edits[e].id => d = e
    /\ \A e \in Edits : Removing(e) => edits[e].id \notin pageRows
    /\ \A e \in Edits : edits[e].kind = "delete" =>
          /\ edits[e].id \in ToSet(projects) /\ siteState[edits[e].id] # "none"
          /\ \A d \in Edits : edits[d].kind = "delete" => d = e
          /\ \A d \in Edits : HalfMade(d) => edits[d].id # edits[e].id

Listing ==
    /\ projects \in Seq(PageIds) /\ stale \in BOOLEAN
    /\ \A e \in Edits : Shaped(e)
    /\ \A f \in Fetches : Brings(f)
    /\ ~stale => Faithful /\ Accounted

LEMMA ShapedSame ==
    ASSUME \A e \in Edits : Shaped(e),
           \A e \in Edits : /\ edits'[e].step = edits[e].step /\ edits'[e].kind = edits[e].kind
                            /\ edits'[e].acted = edits[e].acted
    PROVE  \A e \in Edits : Shaped(e)'
BY DEF Shaped

LEMMA ShapedSet ==
    ASSUME CallsTyped, \A e \in Edits : Shaped(e), NEW e \in Edits, NEW to,
           edits' = [edits EXCEPT ![e] = to], to.step = "idle" <=> to.kind = "none",
           to.kind = "none" => ~to.acted, to.kind = "create" => (to.acted <=> to.step = "done"),
           to.kind = "delete" /\ to.acted => to.step # "asked",
           to.kind = "delete" /\ to.step \in {"half", "done"} => to.acted
    PROVE  \A d \in Edits : Shaped(d)'
<1>1. edits'[e] = to /\ \A d \in Edits \ {e} : edits'[d] = edits[d]
  BY DEF CallsTyped
<1> QED BY <1>1 DEF Shaped

LEMMA ShapedApi ==
    ASSUME CallsTyped, \A e \in Edits : Shaped(e), ApiStep PROVE \A e \in Edits : Shaped(e)'
<1>1. edits \in [Edits -> EditType]
  BY DEF CallsTyped
<1>2. ASSUME NEW e \in Edits, InsertSite(e) PROVE \A d \in Edits : Shaped(d)'
  <2> DEFINE to == [edits[e] EXCEPT !.step = "half", !.id = Min({p \in PageIds : siteState[p] = "none"})]
  <2>1. edits' = [edits EXCEPT ![e] = to] /\ edits[e].kind = "create" /\ edits[e].step = "asked"
    BY <1>1, <1>2 DEF InsertSite
  <2>2. to.kind = edits[e].kind /\ to.acted = edits[e].acted /\ to.step = "half"
    BY <1>1 DEF EditType
  <2> HIDE DEF to
  <2>3. ~to.acted
    BY <2>1, <2>2 DEF Shaped
  <2> QED BY <2>1, <2>2, <2>3, ShapedSet
<1>3. ASSUME NEW e \in Edits, InsertPage(e) PROVE \A d \in Edits : Shaped(d)'
  <2> DEFINE to == [edits[e] EXCEPT !.step = "done", !.acted = TRUE]
  <2>1. edits' = [edits EXCEPT ![e] = to] /\ edits[e].kind = "create"
    BY <1>1, <1>3 DEF InsertPage
  <2>2. to.kind = edits[e].kind /\ to.acted /\ to.step = "done"
    BY <1>1 DEF EditType
  <2> HIDE DEF to
  <2> QED BY <2>1, <2>2, ShapedSet
<1>4. ASSUME NEW e \in Edits, DeletePage(e) PROVE \A d \in Edits : Shaped(d)'
  <2> DEFINE to == [edits[e] EXCEPT !.step = "half", !.acted = TRUE]
  <2>1. edits' = [edits EXCEPT ![e] = to] /\ edits[e].kind = "delete"
    BY <1>1, <1>4 DEF DeletePage
  <2>2. to.kind = edits[e].kind /\ to.acted /\ to.step = "half"
    BY <1>1 DEF EditType
  <2> HIDE DEF to
  <2> QED BY <2>1, <2>2, ShapedSet
<1>5. ASSUME NEW e \in Edits, DeactivateSite(e) PROVE \A d \in Edits : Shaped(d)'
  <2> DEFINE to == [edits[e] EXCEPT !.step = "done"]
  <2>1. edits' = [edits EXCEPT ![e] = to] /\ edits[e].kind = "delete" /\ edits[e].step = "half"
    BY <1>1, <1>5 DEF DeactivateSite, EditTo
  <2>2. to.kind = edits[e].kind /\ to.acted = edits[e].acted /\ to.step = "done"
    BY <1>1 DEF EditType
  <2> HIDE DEF to
  <2>3. to.acted
    BY <2>1, <2>2 DEF Shaped
  <2> QED BY <2>1, <2>2, <2>3, ShapedSet
<1>6. ASSUME NEW e \in Edits, RefuseEdit(e) PROVE \A d \in Edits : Shaped(d)'
  <2> DEFINE to == [edits[e] EXCEPT !.step = "refused"]
  <2>1. edits' = [edits EXCEPT ![e] = to] /\ edits[e].step \in {"asked", "half"}
    BY <1>1, <1>6 DEF RefuseEdit
  <2>2. to.kind = edits[e].kind /\ to.acted = edits[e].acted /\ to.step = "refused"
    BY <1>1 DEF EditType
  <2> HIDE DEF to
  <2>3. to.kind # "none" /\ (to.kind = "create" => ~to.acted)
    BY <2>1, <2>2 DEF Shaped
  <2> QED BY <2>1, <2>2, <2>3, ShapedSet
<1>7. CASE UNCHANGED edits
  BY <1>7, ShapedSame
<1> QED BY <1>2, <1>3, <1>4, <1>5, <1>6, <1>7 DEF ApiStep, ReadPages, AnswerTrigger

LEMMA ShapedConsole ==
    ASSUME CallsTyped, \A e \in Edits : Shaped(e), ConsoleStep PROVE \A e \in Edits : Shaped(e)'
<1>1. edits \in [Edits -> EditType]
  BY DEF CallsTyped
<1>2. ASSUME NEW e \in Edits, edits' = [edits EXCEPT ![e] = NoEdit] PROVE \A d \in Edits : Shaped(d)'
  BY <1>2, ShapedSet DEF NoEdit
<1>3. ASSUME NEW under \in [Edits -> EditType], edits' = Unlocal(under),
             \A e \in Edits : under[e] = edits[e] \/ under[e] = NoEdit
      PROVE  \A e \in Edits : Shaped(e)'
  <2>1. \A e \in Edits : /\ edits'[e].step = under[e].step /\ edits'[e].kind = under[e].kind
                         /\ edits'[e].acted = under[e].acted
    BY <1>3 DEF Unlocal, EditType
  <2>2. SUFFICES ASSUME NEW e \in Edits PROVE Shaped(e)'
    OBVIOUS
  <2>3. CASE under[e] = edits[e]
    BY <2>1, <2>3 DEF Shaped
  <2>4. CASE under[e] = NoEdit
    BY <2>1, <2>4 DEF Shaped, NoEdit
  <2> QED BY <1>3, <2>3, <2>4
<1>4. ASSUME NEW id \in {0} \cup PageIds, NEW kind \in {"create", "delete"}, BeginEdit(id, kind)
      PROVE  \A e \in Edits : Shaped(e)'
  <2> DEFINE to == Begun(id, kind)
  <2>1. to.step = "asked" /\ to.kind = kind /\ to.acted = FALSE
    BY DEF Begun
  <2>2. PICK x \in Edits : edits' = [edits EXCEPT ![x] = to]
    BY <1>1, <1>4, IdleIs DEF BeginEdit
  <2> HIDE DEF to
  <2> QED BY <2>1, <2>2, ShapedSet
<1>5. ASSUME NEW e \in Edits, EndCreate(e) \/ EndDelete(e) \/ FailEdit(e) \/ Forget(e)
      PROVE  \A d \in Edits : Shaped(d)'
  <2>1. CASE edits' = [edits EXCEPT ![e] = NoEdit]
    BY <1>2, <2>1
  <2>2. CASE GoToList([edits EXCEPT ![e] = NoEdit])
    <3>1. /\ [edits EXCEPT ![e] = NoEdit] \in [Edits -> EditType]
          /\ \A d \in Edits : [edits EXCEPT ![e] = NoEdit][d] = edits[d] \/ [edits EXCEPT ![e] = NoEdit][d] = NoEdit
      BY <1>1, Blank
    <3> QED BY <1>3, <2>2, <3>1 DEF GoToList
  <2> QED BY <1>5, <2>1, <2>2 DEF EndCreate, EndDelete, FailEdit, Forget
<1>6. CASE OpenList
  BY <1>1, <1>3, <1>6 DEF OpenList, GoToList
<1>7. ASSUME NEW id \in PageIds, OpenProject(id) PROVE \A e \in Edits : Shaped(e)'
  <2>1. edits' = [e \in Edits |-> [edits[e] EXCEPT !.heard = FALSE, !.local = FALSE]]
    BY <1>7 DEF OpenProject
  <2>2. \A e \in Edits : /\ edits'[e].step = edits[e].step /\ edits'[e].kind = edits[e].kind
                         /\ edits'[e].acted = edits[e].acted
    BY <1>1, <2>1 DEF EditType
  <2> QED BY <2>2, ShapedSame
<1>8. CASE HandleDelete
  BY <1>4, <1>8 DEF HandleDelete, CallsTyped
<1>9. CASE HandleNameContinue
  BY <1>4, <1>9 DEF HandleNameContinue
<1>10. CASE UNCHANGED edits
  BY <1>10, ShapedSame
<1> QED BY <1>5, <1>6, <1>7, <1>8, <1>9, <1>10
        DEF ConsoleStep, OpenWizard, HandleCloudDeploy, HandleBuildComplete, StepBack, ShowProjects, FailFetch,
            EndTrigger, callVars

LEMMA FetchedIs ==
    ASSUME NEW f \in Fetches, NEW step, NEW list \in Seq(PageIds), NEW crossed \in BOOLEAN,
           fetches'[f] = [step |-> step, list |-> list, crossed |-> crossed],
           step # "answered", step # "idle" /\ ~crossed => Quiet'
    PROVE  Brings(f)'
<1>1. fetches'[f].step = step /\ fetches'[f].list = list /\ fetches'[f].crossed = crossed
  OBVIOUS
<1> QED BY <1>1 DEF Brings

LEMMA NoPages == <<>> \in Seq(PageIds)
OBVIOUS

LEMMA FetchedOn ==
    ASSUME \A f \in Fetches : Brings(f), UNCHANGED <<fetches, pageRows>>,
           \A e \in Edits : edits'[e].step = edits[e].step
    PROVE  \A f \in Fetches : Brings(f)'
BY DEF Brings, Quiet

(* While a call is under way, a fetch is crossed: it may go on.            *)
LEMMA FetchedOver ==
    ASSUME \A f \in Fetches : Brings(f), fetches' = fetches, NEW e \in Edits, Live(e)
    PROVE  \A f \in Fetches : Brings(f)'
BY DEF Brings, Quiet, Live

(* One is asked.                                                           *)
LEMMA FetchedAsk ==
    ASSUME \A f \in Fetches : Brings(f), Spinning, NEW under \in [Edits -> EditType], FetchProjects(under),
           pageRows' = pageRows,
           \A e \in Edits : edits'[e].step = under[e].step,
           \A e \in Edits : under[e] = edits[e] \/ under[e] = NoEdit
    PROVE  \A f \in Fetches : Brings(f)'
<1> DEFINE crossed == Idle(under) # Edits
           to == [step |-> "asked", list |-> <<>>, crossed |-> crossed]
<1>1. DOMAIN fetches = Fetches
  BY DEF Spinning
<1>2. AnyOf(Idle(fetches)) \in Fetches
  BY <1>1 DEF FetchProjects, Idle, AnyOf
<1>3. PICK x \in Fetches : fetches' = [fetches EXCEPT ![x] = to]
  BY <1>2 DEF FetchProjects, PagesAsked
<1>4. crossed \in BOOLEAN
  BY Zenon
<1>5. ~crossed => \A e \in Edits : under[e].step = "idle"
  BY DEF Idle
<1> HIDE DEF crossed
<1>6. fetches'[x] = to /\ \A f \in Fetches \ {x} : fetches'[f] = fetches[f]
  BY <1>1, <1>3
<1>7. Brings(x)'
  <2>1. ~crossed => Quiet'
    BY <1>5 DEF Quiet
  <2> QED BY <1>4, <1>6, <2>1, FetchedIs, NoPages
<1>8. ASSUME NEW f \in Fetches, f # x PROVE Brings(f)'
  <2>1. fetches'[f] = fetches[f] /\ Brings(f)
    BY <1>6, <1>8
  <2>2. Quiet => Quiet'
    <3>1. NoEdit.step = "idle"
      BY DEF NoEdit
    <3> QED BY <3>1 DEF Quiet
  <2> QED BY <2>1, <2>2 DEF Brings
<1> QED BY <1>7, <1>8

LEMMA FetchedBegin ==
    ASSUME \A f \in Fetches : Brings(f), fetches' = Crossed
    PROVE  \A f \in Fetches : Brings(f)'
<1> SUFFICES ASSUME NEW f \in Fetches PROVE Brings(f)'
  OBVIOUS
<1> DEFINE crossed == fetches[f].step # "idle"
<1>1. fetches'[f] = [step |-> fetches[f].step, list |-> fetches[f].list, crossed |-> crossed]
  BY DEF Crossed
<1>2. crossed \in BOOLEAN
  BY Zenon
<1>3. crossed <=> fetches[f].step # "idle"
  OBVIOUS
<1> HIDE DEF crossed
<1>4. fetches'[f].step = fetches[f].step /\ fetches'[f].list = fetches[f].list /\ fetches'[f].crossed = crossed
  BY <1>1
<1>5. fetches'[f].step = "answered" => crossed
  BY <1>3, <1>4
<1> QED BY <1>2, <1>3, <1>4, <1>5 DEF Brings

LEMMA FetchedEnd ==
    ASSUME \A f \in Fetches : Brings(f), Spinning, NEW f \in Fetches, fetches' = [fetches EXCEPT ![f] = NoCall],
           UNCHANGED <<edits, pageRows>>
    PROVE  \A g \in Fetches : Brings(g)'
<1>1. DOMAIN fetches = Fetches
  BY DEF Spinning
<1>2. fetches'[f] = NoCall /\ \A g \in Fetches \ {f} : fetches'[g] = fetches[g]
  BY <1>1
<1>3. Brings(f)'
  BY <1>2, FetchedIs, NoPages DEF NoCall
<1>4. ASSUME NEW g \in Fetches, g # f PROVE Brings(g)'
  <2>1. fetches'[g] = fetches[g] /\ Brings(g)
    BY <1>2, <1>4
  <2> QED BY <2>1 DEF Brings, Quiet
<1> QED BY <1>3, <1>4

LEMMA FetchedApi ==
    ASSUME CallsTyped, Sited, Spinning, \A f \in Fetches : Brings(f), ApiStep
    PROVE  \A f \in Fetches : Brings(f)'
<1>1. ASSUME NEW e \in Edits,
             InsertSite(e) \/ InsertPage(e) \/ DeletePage(e) \/ DeactivateSite(e) \/ RefuseEdit(e)
      PROVE  \A f \in Fetches : Brings(f)'
  BY <1>1, FetchedOver DEF InsertSite, InsertPage, DeletePage, DeactivateSite, RefuseEdit, EditTo, Live
<1>2. ASSUME NEW f \in Fetches, ReadPages(f) PROVE \A g \in Fetches : Brings(g)'
  <2> DEFINE list == SetToSeq(pageRows)
             to == [step |-> "answered", list |-> list, crossed |-> fetches[f].crossed]
  <2>1. list \in Seq(PageIds)
    BY PagesListed DEF Sited
  <2>2. /\ fetches' = [fetches EXCEPT ![f] = to] /\ pageRows' = pageRows /\ edits' = edits
        /\ fetches[f].step = "asked"
    BY <1>2 DEF ReadPages, apiVars
  <2>3. SetToSeq(pageRows') = list
    BY <2>2
  <2> HIDE DEF list
  <2>4. DOMAIN fetches = Fetches
    BY DEF Spinning
  <2>5. fetches'[f] = to /\ \A g \in Fetches \ {f} : fetches'[g] = fetches[g]
    BY <2>2, <2>4
  <2>6. Brings(f)'
    BY <2>1, <2>2, <2>3, <2>5 DEF Brings, Quiet
  <2>7. ASSUME NEW g \in Fetches, g # f PROVE Brings(g)'
    <3>1. fetches'[g] = fetches[g] /\ Brings(g)
      BY <2>5, <2>7
    <3> QED BY <2>2, <3>1 DEF Brings, Quiet
  <2> QED BY <2>6, <2>7
<1>3. ASSUME NEW t \in Triggers, AnswerTrigger(t) PROVE \A f \in Fetches : Brings(f)'
  BY <1>3, FetchedOn DEF AnswerTrigger, apiVars
<1> QED BY <1>1, <1>2, <1>3 DEF ApiStep

LEMMA FetchedConsole ==
    ASSUME CallsTyped, Spinning, \A f \in Fetches : Brings(f), ConsoleStep
    PROVE  \A f \in Fetches : Brings(f)'
<1>1. edits \in [Edits -> EditType]
  BY DEF CallsTyped
<1>2. ASSUME NEW under \in [Edits -> EditType], GoToList(under), pageRows' = pageRows,
             \A e \in Edits : under[e] = edits[e] \/ under[e] = NoEdit
      PROVE  \A f \in Fetches : Brings(f)'
  <2>1. \A e \in Edits : edits'[e].step = under[e].step
    BY <1>2 DEF GoToList, Unlocal, EditType
  <2> QED BY <1>2, <2>1, FetchedAsk DEF GoToList
<1>3. ASSUME NEW f \in Fetches, ShowProjects(f) \/ FailFetch(f) PROVE \A g \in Fetches : Brings(g)'
  BY <1>3, FetchedEnd DEF ShowProjects, FailFetch, apiVars
<1>4. ASSUME NEW e \in Edits, EndCreate(e) \/ FailEdit(e) \/ Forget(e) PROVE \A f \in Fetches : Brings(f)'
  BY <1>4, FetchedOver DEF EndCreate, FailEdit, Forget, Live
<1>5. ASSUME NEW e \in Edits, EndDelete(e) PROVE \A f \in Fetches : Brings(f)'
  <2>1. CASE fetches' = fetches
    BY <1>5, <2>1, FetchedOver DEF EndDelete, Live
  <2>2. CASE GoToList([edits EXCEPT ![e] = NoEdit])
    <3>1. /\ [edits EXCEPT ![e] = NoEdit] \in [Edits -> EditType]
          /\ \A d \in Edits : [edits EXCEPT ![e] = NoEdit][d] = edits[d] \/ [edits EXCEPT ![e] = NoEdit][d] = NoEdit
      BY <1>1, Blank
    <3> QED BY <1>2, <1>5, <2>2, <3>1 DEF EndDelete, apiVars
  <2> QED BY <1>5, <2>1, <2>2 DEF EndDelete
<1>6. CASE OpenList
  BY <1>1, <1>2, <1>6 DEF OpenList, apiVars
<1>7. ASSUME NEW id \in PageIds, OpenProject(id) PROVE \A f \in Fetches : Brings(f)'
  <2> DEFINE first == AnyOf(Fetches)
             crossed == Idle(edits) # Edits
             asked == PagesAsked(crossed)
  <2>1. /\ fetches' = [f \in Fetches |-> IF f = first THEN asked ELSE NoCall]
        /\ edits' = [e \in Edits |-> [edits[e] EXCEPT !.heard = FALSE, !.local = FALSE]]
    BY <1>7 DEF OpenProject
  <2>2. crossed \in BOOLEAN
    BY Zenon
  <2>3. ~crossed => \A e \in Edits : edits[e].step = "idle"
    BY DEF Idle
  <2>4. \A e \in Edits : edits'[e].step = edits[e].step
    BY <1>1, <2>1 DEF EditType
  <2> HIDE DEF first, crossed
  <2>5. /\ asked = [step |-> "asked", list |-> <<>>, crossed |-> crossed]
        /\ NoCall = [step |-> "idle", list |-> <<>>, crossed |-> FALSE]
    BY DEF NoCall, PagesAsked
  <2> HIDE DEF asked
  <2>6. ~crossed => Quiet'
    BY <2>3, <2>4 DEF Quiet
  <2> SUFFICES ASSUME NEW f \in Fetches PROVE Brings(f)'
    OBVIOUS
  <2>7. CASE fetches'[f] = asked
    BY <2>2, <2>5, <2>6, <2>7, FetchedIs, NoPages
  <2>8. CASE fetches'[f] = NoCall
    BY <2>5, <2>8, FetchedIs, NoPages
  <2> QED BY <2>1, <2>7, <2>8
<1>8. CASE HandleDelete \/ HandleNameContinue
  BY <1>8, FetchedBegin DEF HandleDelete, HandleNameContinue, BeginEdit
<1>9. CASE UNCHANGED <<fetches, edits, pageRows>>
  BY <1>9, FetchedOn
<1> QED BY <1>3, <1>4, <1>5, <1>6, <1>7, <1>8, <1>9
        DEF ConsoleStep, OpenWizard, HandleCloudDeploy, HandleBuildComplete, StepBack, EndTrigger, callVars, apiVars

(* Nothing is made or removed, and no removal begins.                      *)
LEMMA FaithfulOn ==
    ASSUME Faithful, Accounted, UNCHANGED <<projects, pageRows>>,
           \A p : siteState[p] # "none" => siteState'[p] # "none",
           \A e \in Edits :
               /\ Live(e)' => edits'[e].heard
               /\ Adding(e)' <=> Adding(e)
               /\ Removing(e)' <=> Removing(e)
               /\ Adding(e) \/ Removing(e) => edits'[e].id = edits[e].id
               /\ edits'[e].kind = "delete" => edits[e].kind = "delete" /\ edits'[e].id = edits[e].id,
           \A d, e \in Edits : HalfMade(d)' /\ edits'[e].kind = "delete" => edits'[d].id # edits'[e].id
    PROVE  Faithful' /\ Accounted'
<1>1. \A p : StillListed(p)' <=> StillListed(p)
  BY DEF StillListed, Unheard, Gone
<1>2. Faithful'
  BY <1>1 DEF Faithful, Distinct
<1>3. Accounted'
  BY DEF Accounted
<1> QED BY <1>2, <1>3

(* A call goes on, without having made or removed a row.                   *)
LEMMA FaithfulStep ==
    ASSUME Faithful, Accounted, UNCHANGED <<projects, pageRows>>,
           \A p : siteState[p] # "none" => siteState'[p] # "none",
           \A e \in Edits :
               /\ Live(e)' => Live(e) /\ edits'[e].heard = edits[e].heard
               /\ edits'[e].kind = edits[e].kind /\ edits'[e].acted = edits[e].acted
               /\ edits'[e].id = edits[e].id
               /\ edits'[e].step = "half" => edits[e].step = "half"
    PROVE  Faithful' /\ Accounted'
<1>1. \A e \in Edits : Live(e)' => edits'[e].heard
  BY DEF Accounted
<1>2. \A d, e \in Edits : HalfMade(d)' /\ edits'[e].kind = "delete" => edits'[d].id # edits'[e].id
  BY DEF Accounted, HalfMade
<1> QED BY <1>1, <1>2, FaithfulOn DEF Adding, Removing

LEMMA FaithfulInsertSite ==
    ASSUME CallsTyped, Sited, \A e \in Edits : Shaped(e), Faithful, Accounted, NEW e \in Edits, InsertSite(e)
    PROVE  Faithful' /\ Accounted'
<1>0. edits \in [Edits -> EditType]
  BY DEF CallsTyped
<1>1. PICK new \in PageIds : /\ siteState[new] = "none" /\ siteState' = [siteState EXCEPT ![new] = "active"]
                             /\ edits' = [edits EXCEPT ![e].step = "half", ![e].id = new]
  BY LeastPage DEF InsertSite
<1>2. edits[e].kind = "create" /\ edits[e].step = "asked" /\ pageRows' = pageRows /\ projects' = projects
  BY DEF InsertSite, storeVars
<1>3. /\ edits'[e].kind = "create" /\ edits'[e].acted = edits[e].acted /\ edits'[e].id = new
      /\ edits'[e].heard = edits[e].heard
      /\ \A d \in Edits \ {e} : edits'[d] = edits[d]
  BY <1>0, <1>1, <1>2 DEF EditType
<1>4. ~edits[e].acted /\ Live(e)
  BY <1>2 DEF Shaped, Live
<1>5. \A p : siteState[p] # "none" => siteState'[p] # "none"
  BY <1>1 DEF Sited
<1>6. \A d \in Edits : Live(d)' => edits'[d].heard
  BY <1>3, <1>4 DEF Accounted, Live
<1>7. \A c, d \in Edits : HalfMade(c)' /\ edits'[d].kind = "delete" => edits'[c].id # edits'[d].id
  <2> SUFFICES ASSUME NEW c \in Edits, NEW d \in Edits, HalfMade(c)', edits'[d].kind = "delete"
               PROVE  edits'[c].id # edits'[d].id
    OBVIOUS
  <2>1. edits'[d] = edits[d] /\ siteState[edits[d].id] # "none"
    BY <1>3 DEF Accounted
  <2>2. CASE c = e
    BY <1>1, <1>3, <2>1, <2>2
  <2>3. CASE c # e
    BY <1>3, <2>1, <2>3 DEF Accounted, HalfMade
  <2> QED BY <2>2, <2>3
<1>8. \A d \in Edits : /\ Adding(d)' <=> Adding(d)
                       /\ Removing(d)' <=> Removing(d)
                       /\ Adding(d) \/ Removing(d) => edits'[d].id = edits[d].id
                       /\ edits'[d].kind = "delete" => edits[d].kind = "delete" /\ edits'[d].id = edits[d].id
  BY <1>2, <1>3, <1>4 DEF Adding, Removing
<1> QED BY <1>2, <1>5, <1>6, <1>7, <1>8, FaithfulOn

LEMMA FaithfulInsertPage ==
    ASSUME CallsTyped, Sited, \A e \in Edits : Shaped(e), Faithful, Accounted, NEW e \in Edits, InsertPage(e)
    PROVE  Faithful' /\ Accounted'
<1>0. edits \in [Edits -> EditType]
  BY DEF CallsTyped
<1>1. /\ HalfMade(e) /\ edits[e].kind = "create" /\ edits[e].step = "half"
      /\ projects' = projects /\ siteState' = siteState
      /\ pageRows' = pageRows \cup {edits[e].id} /\ edits' = [edits EXCEPT ![e].step = "done", ![e].acted = TRUE]
  BY DEF InsertPage, storeVars, HalfMade
<1>2. /\ edits'[e].kind = "create" /\ edits'[e].acted /\ edits'[e].id = edits[e].id
      /\ edits'[e].heard = edits[e].heard /\ edits'[e].step = "done"
      /\ \A d \in Edits \ {e} : edits'[d] = edits[d]
  BY <1>0, <1>1 DEF EditType
<1>3. edits[e].id \in PageIds /\ edits[e].id \notin pageRows
  BY <1>1 DEF Sited, Made
<1>4. \A d \in Edits : edits[d].kind = "delete" => edits[d].id # edits[e].id
  BY <1>1 DEF Accounted
<1>5. Adding(e)' /\ ~Removing(e)' /\ ~Removing(e)
      /\ \A d \in Edits \ {e} : (Adding(d)' <=> Adding(d)) /\ (Removing(d)' <=> Removing(d))
  BY <1>1, <1>2 DEF Adding, Removing
<1>6. \A p \in PageIds : StillListed(p)' <=> StillListed(p)
  <2> SUFFICES ASSUME NEW p \in PageIds PROVE StillListed(p)' <=> StillListed(p)
    OBVIOUS
  <2>1. Gone(p)' <=> Gone(p)
    BY <1>2, <1>5 DEF Gone
  <2>2. CASE p = edits[e].id
    <3>1. ~Gone(p)
      BY <1>4, <2>2 DEF Gone, Removing
    <3>2. Unheard(p)'
      BY <1>2, <1>5, <2>2 DEF Unheard
    <3> QED BY <1>3, <2>1, <2>2, <3>1, <3>2 DEF StillListed
  <2>3. CASE p # edits[e].id
    <3>1. Unheard(p)' <=> Unheard(p)
      <4>1. Unheard(p) => Unheard(p)'
        BY <1>2, <1>5, <2>3 DEF Unheard
      <4>2. Unheard(p)' => Unheard(p)
        BY <1>2, <1>5, <2>3 DEF Unheard
      <4> QED BY <4>1, <4>2
    <3> QED BY <1>1, <2>1, <2>3, <3>1 DEF StillListed
  <2> QED BY <2>2, <2>3
<1>7. Faithful'
  BY <1>1, <1>6 DEF Faithful, Distinct
<1>8. Accounted'
  <2>0. /\ \A d \in Edits : Adding(d) => edits[d].id \in pageRows
        /\ \A d \in Edits : Removing(d) => edits[d].id \notin pageRows
        /\ \A d \in Edits : edits[d].kind = "delete" =>
              /\ edits[d].id \in ToSet(projects) /\ siteState[edits[d].id] # "none"
              /\ \A c \in Edits : edits[c].kind = "delete" => c = d
              /\ \A c \in Edits : HalfMade(c) => edits[c].id # edits[d].id
    BY DEF Accounted
  <2>1. \A d \in Edits : Live(d)' => edits'[d].heard
    BY <1>1, <1>2 DEF Accounted, Live
  <2>2. \A d \in Edits : Adding(d)' => edits'[d].id \in pageRows'
    <3> SUFFICES ASSUME NEW d \in Edits, Adding(d)' PROVE edits'[d].id \in pageRows'
      OBVIOUS
    <3>1. CASE d = e
      BY <1>1, <1>2, <3>1
    <3>2. CASE d # e
      <4>1. Adding(d) /\ edits'[d] = edits[d]
        BY <1>2, <1>5, <3>2
      <4>2. edits[d].id \in pageRows
        BY <2>0, <4>1
      <4> QED BY <1>1, <4>1, <4>2
    <3> QED BY <3>1, <3>2
  <2>3. \A c, d \in Edits : Adding(c)' /\ Adding(d)' /\ edits'[c].id = edits'[d].id => c = d
    BY <1>2, <1>3, <1>5 DEF Accounted
  <2>4. \A d \in Edits : Removing(d)' => edits'[d].id \notin pageRows'
    <3> SUFFICES ASSUME NEW d \in Edits, Removing(d)' PROVE edits'[d].id \notin pageRows'
      OBVIOUS
    <3>1. d # e /\ Removing(d)
      BY <1>5
    <3>2. edits'[d].id = edits[d].id /\ edits[d].id \notin pageRows /\ edits[d].kind = "delete"
      BY <1>2, <2>0, <3>1 DEF Removing
    <3> QED BY <1>1, <1>4, <3>2
  <2>5. \A d \in Edits : edits'[d].kind = "delete" =>
             /\ edits'[d].id \in ToSet(projects') /\ siteState'[edits'[d].id] # "none"
             /\ \A c \in Edits : edits'[c].kind = "delete" => c = d
             /\ \A c \in Edits : HalfMade(c)' => edits'[c].id # edits'[d].id
    <3>1. \A d \in Edits : edits'[d].kind = edits[d].kind /\ edits'[d].id = edits[d].id
      BY <1>1, <1>2
    <3>2. \A d \in Edits : HalfMade(d)' => HalfMade(d)
      BY <1>1, <1>2 DEF HalfMade
    <3> SUFFICES ASSUME NEW d \in Edits, edits'[d].kind = "delete"
                 PROVE  /\ edits'[d].id \in ToSet(projects') /\ siteState'[edits'[d].id] # "none"
                        /\ \A c \in Edits : edits'[c].kind = "delete" => c = d
                        /\ \A c \in Edits : HalfMade(c)' => edits'[c].id # edits'[d].id
      OBVIOUS
    <3>3. edits[d].kind = "delete" /\ edits'[d].id = edits[d].id
      BY <3>1
    <3>4. /\ edits[d].id \in ToSet(projects) /\ siteState[edits[d].id] # "none"
          /\ \A c \in Edits : edits[c].kind = "delete" => c = d
          /\ \A c \in Edits : HalfMade(c) => edits[c].id # edits[d].id
      BY <2>0, <3>3
    <3>5. edits'[d].id \in ToSet(projects') /\ siteState'[edits'[d].id] # "none"
      BY <1>1, <3>3, <3>4
    <3>6. \A c \in Edits : edits'[c].kind = "delete" => c = d
      BY <3>1, <3>4
    <3>7. \A c \in Edits : HalfMade(c)' => edits'[c].id # edits'[d].id
      BY <3>1, <3>2, <3>3, <3>4
    <3> QED BY <3>5, <3>6, <3>7
  <2> QED BY <2>1, <2>2, <2>3, <2>4, <2>5 DEF Accounted
<1> QED BY <1>7, <1>8

LEMMA FaithfulDeletePage ==
    ASSUME CallsTyped, Sited, \A e \in Edits : Shaped(e), Faithful, Accounted, NEW e \in Edits, DeletePage(e)
    PROVE  Faithful' /\ Accounted'
<1>0. edits \in [Edits -> EditType]
  BY DEF CallsTyped
<1>1. /\ edits[e].kind = "delete" /\ edits[e].step = "asked" /\ edits[e].id \in pageRows
      /\ projects' = projects /\ siteState' = siteState
      /\ pageRows' = pageRows \ {edits[e].id} /\ edits' = [edits EXCEPT ![e].step = "half", ![e].acted = TRUE]
  BY DEF DeletePage, storeVars
<1>2. /\ edits'[e].kind = "delete" /\ edits'[e].acted /\ edits'[e].id = edits[e].id
      /\ edits'[e].heard = edits[e].heard /\ edits'[e].step = "half"
      /\ \A d \in Edits \ {e} : edits'[d] = edits[d]
  BY <1>0, <1>1 DEF EditType
<1>3. edits[e].id \in PageIds /\ edits[e].id \in ToSet(projects) /\ Live(e)
      /\ \A d \in Edits : edits[d].kind = "delete" => d = e
  BY <1>1 DEF Sited, Accounted, Live
<1>4. Removing(e)' /\ ~Adding(e)' /\ ~Adding(e)
      /\ \A d \in Edits \ {e} : (Adding(d)' <=> Adding(d)) /\ ~Removing(d)' /\ ~Removing(d)
  BY <1>1, <1>2, <1>3 DEF Adding, Removing
<1>5. ~Removing(e)
  BY <1>1 DEF Shaped, Removing
<1>6. \A d \in Edits : Adding(d) => edits[d].id # edits[e].id
  <2>1. ~Unheard(edits[e].id)
    <3>1. ~Gone(edits[e].id)
      BY <1>4, <1>5 DEF Gone
    <3> QED BY <1>3, <3>1 DEF Faithful, StillListed
  <2> QED BY <2>1 DEF Unheard
<1>7. \A p \in PageIds : StillListed(p)' <=> StillListed(p)
  <2> SUFFICES ASSUME NEW p \in PageIds PROVE StillListed(p)' <=> StillListed(p)
    OBVIOUS
  <2>1. Unheard(p)' <=> Unheard(p)
    BY <1>2, <1>4 DEF Unheard
  <2>2. CASE p = edits[e].id
    <3>1. Gone(p)'
      BY <1>2, <1>4, <2>2 DEF Gone
    <3>2. StillListed(p)
      BY <1>3, <2>2 DEF Faithful
    <3> QED BY <3>1, <3>2 DEF StillListed
  <2>3. CASE p # edits[e].id
    <3>1. ~Gone(p)' /\ ~Gone(p)
      BY <1>2, <1>4, <1>5, <2>3 DEF Gone
    <3> QED BY <1>1, <2>1, <2>3, <3>1 DEF StillListed
  <2> QED BY <2>2, <2>3
<1>8. Faithful'
  BY <1>1, <1>7 DEF Faithful, Distinct
<1>9. Accounted'
  <2>0. /\ \A d \in Edits : Adding(d) => edits[d].id \in pageRows
        /\ \A d \in Edits : Removing(d) => edits[d].id \notin pageRows
        /\ \A d \in Edits : edits[d].kind = "delete" =>
              /\ edits[d].id \in ToSet(projects) /\ siteState[edits[d].id] # "none"
              /\ \A c \in Edits : edits[c].kind = "delete" => c = d
              /\ \A c \in Edits : HalfMade(c) => edits[c].id # edits[d].id
    BY DEF Accounted
  <2>1. \A d \in Edits : Live(d)' => edits'[d].heard
    BY <1>2, <1>3 DEF Accounted, Live
  <2>2. \A d \in Edits : Adding(d)' => edits'[d].id \in pageRows'
    <3> SUFFICES ASSUME NEW d \in Edits, Adding(d)' PROVE edits'[d].id \in pageRows'
      OBVIOUS
    <3>1. d # e
      BY <1>4
    <3>2. Adding(d) /\ edits'[d] = edits[d]
      BY <1>2, <1>4, <3>1
    <3>3. edits[d].id \in pageRows /\ edits[d].id # edits[e].id
      BY <1>6, <2>0, <3>2
    <3> QED BY <1>1, <3>2, <3>3
  <2>3. \A c, d \in Edits : Adding(c)' /\ Adding(d)' /\ edits'[c].id = edits'[d].id => c = d
    BY <1>2, <1>4 DEF Accounted
  <2>4. \A d \in Edits : Removing(d)' => edits'[d].id \notin pageRows'
    <3> SUFFICES ASSUME NEW d \in Edits, Removing(d)' PROVE edits'[d].id \notin pageRows'
      OBVIOUS
    <3>1. d = e
      BY <1>4
    <3> QED BY <1>1, <1>2, <3>1
  <2>5. \A d \in Edits : edits'[d].kind = "delete" =>
             /\ edits'[d].id \in ToSet(projects') /\ siteState'[edits'[d].id] # "none"
             /\ \A c \in Edits : edits'[c].kind = "delete" => c = d
             /\ \A c \in Edits : HalfMade(c)' => edits'[c].id # edits'[d].id
    <3>1. \A d \in Edits : edits'[d].kind = edits[d].kind /\ edits'[d].id = edits[d].id
      BY <1>1, <1>2
    <3>2. \A d \in Edits : HalfMade(d)' => HalfMade(d)
      BY <1>1, <1>2 DEF HalfMade
    <3> SUFFICES ASSUME NEW d \in Edits, edits'[d].kind = "delete"
                 PROVE  /\ edits'[d].id \in ToSet(projects') /\ siteState'[edits'[d].id] # "none"
                        /\ \A c \in Edits : edits'[c].kind = "delete" => c = d
                        /\ \A c \in Edits : HalfMade(c)' => edits'[c].id # edits'[d].id
      OBVIOUS
    <3>3. edits[d].kind = "delete" /\ edits'[d].id = edits[d].id
      BY <3>1
    <3>4. /\ edits[d].id \in ToSet(projects) /\ siteState[edits[d].id] # "none"
          /\ \A c \in Edits : edits[c].kind = "delete" => c = d
          /\ \A c \in Edits : HalfMade(c) => edits[c].id # edits[d].id
      BY <2>0, <3>3
    <3>5. edits'[d].id \in ToSet(projects') /\ siteState'[edits'[d].id] # "none"
      BY <1>1, <3>3, <3>4
    <3>6. \A c \in Edits : edits'[c].kind = "delete" => c = d
      BY <3>1, <3>4
    <3>7. \A c \in Edits : HalfMade(c)' => edits'[c].id # edits'[d].id
      BY <3>1, <3>2, <3>3, <3>4
    <3> QED BY <3>5, <3>6, <3>7
  <2> QED BY <2>1, <2>2, <2>3, <2>4, <2>5 DEF Accounted
<1> QED BY <1>8, <1>9

LEMMA Prepended ==
    ASSUME NEW S, NEW s \in Seq(S), NEW x \in S
    PROVE  /\ <<x>> \o s \in Seq(S)
           /\ ToSet(<<x>> \o s) = {x} \cup ToSet(s)
           /\ x \notin ToSet(s) /\ Distinct(s) => Distinct(<<x>> \o s)
<1> DEFINE t == <<x>> \o s
<1>1. t \in Seq(S) /\ Len(t) = 1 + Len(s)
  OBVIOUS
<1>2. t[1] = x /\ \A i \in 1..Len(s) : t[i + 1] = s[i]
  OBVIOUS
<1> HIDE DEF t
<1>3. DOMAIN s = 1..Len(s) /\ DOMAIN t = 1..(1 + Len(s)) /\ Len(s) \in Nat
  BY <1>1
<1>4. \A i \in 1..(1 + Len(s)) : i = 1 \/ (i - 1 \in 1..Len(s) /\ t[i] = s[i - 1])
  <2> SUFFICES ASSUME NEW i \in 1..(1 + Len(s)), i # 1 PROVE i - 1 \in 1..Len(s) /\ t[i] = s[i - 1]
    OBVIOUS
  <2>1. i - 1 \in 1..Len(s) /\ i - 1 + 1 = i
    BY <1>3
  <2> QED BY <1>2, <2>1
<1>5. \A y : y \in ToSet(t) <=> y = x \/ y \in ToSet(s)
  <2>1. \A y : y \in ToSet(t) => y = x \/ y \in ToSet(s)
    BY <1>2, <1>3, <1>4 DEF ToSet
  <2>2. x \in ToSet(t)
    <3>1. 1 \in 1..(1 + Len(s))
      BY <1>3
    <3> QED BY <1>2, <1>3, <3>1 DEF ToSet
  <2>3. \A y : y \in ToSet(s) => y \in ToSet(t)
    <3> SUFFICES ASSUME NEW i \in 1..Len(s) PROVE s[i] \in ToSet(t)
      BY <1>3 DEF ToSet
    <3>1. i + 1 \in 1..(1 + Len(s))
      BY <1>3
    <3> QED BY <1>2, <1>3, <3>1 DEF ToSet
  <2> QED BY <2>1, <2>2, <2>3
<1>6. ASSUME x \notin ToSet(s), Distinct(s) PROVE Distinct(t)
  <2> SUFFICES ASSUME NEW i \in 1..(1 + Len(s)), NEW j \in 1..(1 + Len(s)), t[i] = t[j] PROVE i = j
    BY <1>1 DEF Distinct
  <2>0. \A k \in 1..Len(s) : s[k] # x
    BY <1>3, <1>6 DEF ToSet
  <2>1. CASE i = 1
    BY <1>2, <1>4, <2>0, <2>1
  <2>2. CASE j = 1
    BY <1>2, <1>4, <2>0, <2>2
  <2>3. CASE i # 1 /\ j # 1
    <3>1. i - 1 \in 1..Len(s) /\ j - 1 \in 1..Len(s) /\ s[i - 1] = s[j - 1]
      BY <1>4, <2>3
    <3>2. i - 1 = j - 1
      BY <1>6, <3>1 DEF Distinct
    <3> QED BY <1>3, <3>2
  <2> QED BY <2>1, <2>2, <2>3
<1> QED BY <1>1, <1>5, <1>6 DEF t

LEMMA FaithfulEndCreate ==
    ASSUME CallsTyped, Sited, \A e \in Edits : Shaped(e), projects \in Seq(PageIds), Faithful, Accounted,
           NEW e \in Edits, EndCreate(e)
    PROVE  Faithful' /\ Accounted'
<1>0. edits \in [Edits -> EditType]
  BY DEF CallsTyped
<1>1. /\ edits[e].kind = "create" /\ edits[e].step = "done" /\ projects' = <<edits[e].id>> \o projects
      /\ edits' = [edits EXCEPT ![e] = NoEdit] /\ pageRows' = pageRows /\ siteState' = siteState
  BY DEF EndCreate, apiVars
<1>2. /\ edits'[e].kind = "none" /\ edits'[e].step = "idle" /\ ~edits'[e].acted
      /\ \A d \in Edits \ {e} : edits'[d] = edits[d]
  BY <1>0, <1>1 DEF NoEdit
<1>3. Adding(e) /\ ~Removing(e)
  BY <1>1 DEF Shaped, Adding, Removing
<1>4. edits[e].id \in pageRows /\ edits[e].id \in PageIds
  BY <1>3 DEF Accounted, Sited
<1>5. ~Adding(e)' /\ ~Removing(e)'
      /\ \A d \in Edits \ {e} : (Adding(d)' <=> Adding(d)) /\ (Removing(d)' <=> Removing(d))
  BY <1>2 DEF Adding, Removing
<1>6. \A d \in Edits : Removing(d) => edits[d].id # edits[e].id
  BY <1>4 DEF Accounted
<1>7. edits[e].id \notin ToSet(projects)
  <2>1. Unheard(edits[e].id) /\ ~Gone(edits[e].id)
    BY <1>3, <1>6 DEF Unheard, Gone
  <2> QED BY <1>4, <2>1 DEF Faithful, StillListed
<1>8. ToSet(projects') = {edits[e].id} \cup ToSet(projects) /\ Distinct(projects')
  BY <1>1, <1>4, <1>7, Prepended DEF Faithful
<1>9. \A p \in PageIds : p \in ToSet(projects') <=> StillListed(p)'
  <2> SUFFICES ASSUME NEW p \in PageIds PROVE p \in ToSet(projects') <=> StillListed(p)'
    OBVIOUS
  <2>1. CASE p = edits[e].id
    <3>1. ~Unheard(p)'
      <4> SUFFICES ASSUME NEW d \in Edits, Adding(d)', edits'[d].id = p PROVE FALSE
        BY DEF Unheard
      <4>1. d # e /\ Adding(d) /\ edits[d].id = p
        BY <1>2, <1>5
      <4> QED BY <1>3, <2>1, <4>1 DEF Accounted
    <3> QED BY <1>1, <1>4, <1>8, <2>1, <3>1 DEF StillListed
  <2>2. CASE p # edits[e].id
    <3>1. Unheard(p)' <=> Unheard(p)
      <4>1. Unheard(p) => Unheard(p)'
        BY <1>2, <1>5, <2>2 DEF Unheard
      <4>2. Unheard(p)' => Unheard(p)
        BY <1>2, <1>5 DEF Unheard
      <4> QED BY <4>1, <4>2
    <3>2. Gone(p)' <=> Gone(p)
      <4>1. Gone(p) => Gone(p)'
        BY <1>2, <1>3, <1>5 DEF Gone
      <4>2. Gone(p)' => Gone(p)
        BY <1>2, <1>5 DEF Gone
      <4> QED BY <4>1, <4>2
    <3>3. p \in ToSet(projects') <=> p \in ToSet(projects)
      BY <1>8, <2>2
    <3> QED BY <1>1, <3>1, <3>2, <3>3 DEF Faithful, StillListed
  <2> QED BY <2>1, <2>2
<1>10. Faithful'
  BY <1>8, <1>9 DEF Faithful
<1>11. Accounted'
  <2>0. /\ \A d \in Edits : Adding(d) => edits[d].id \in pageRows
        /\ \A d \in Edits : Removing(d) => edits[d].id \notin pageRows
        /\ \A d \in Edits : edits[d].kind = "delete" =>
              /\ edits[d].id \in ToSet(projects) /\ siteState[edits[d].id] # "none"
              /\ \A c \in Edits : edits[c].kind = "delete" => c = d
              /\ \A c \in Edits : HalfMade(c) => edits[c].id # edits[d].id
    BY DEF Accounted
  <2>1. \A d \in Edits : Live(d)' => edits'[d].heard
    BY <1>2 DEF Accounted, Live
  <2>2. \A d \in Edits : Adding(d)' => edits'[d].id \in pageRows'
    BY <1>1, <1>2, <1>5, <2>0
  <2>3. \A c, d \in Edits : Adding(c)' /\ Adding(d)' /\ edits'[c].id = edits'[d].id => c = d
    BY <1>2, <1>5 DEF Accounted
  <2>4. \A d \in Edits : Removing(d)' => edits'[d].id \notin pageRows'
    BY <1>1, <1>2, <1>5, <2>0
  <2>5. \A d \in Edits : edits'[d].kind = "delete" =>
             /\ edits'[d].id \in ToSet(projects') /\ siteState'[edits'[d].id] # "none"
             /\ \A c \in Edits : edits'[c].kind = "delete" => c = d
             /\ \A c \in Edits : HalfMade(c)' => edits'[c].id # edits'[d].id
    <3> SUFFICES ASSUME NEW d \in Edits, edits'[d].kind = "delete"
                 PROVE  /\ edits'[d].id \in ToSet(projects') /\ siteState'[edits'[d].id] # "none"
                        /\ \A c \in Edits : edits'[c].kind = "delete" => c = d
                        /\ \A c \in Edits : HalfMade(c)' => edits'[c].id # edits'[d].id
      OBVIOUS
    <3>1. edits'[d] = edits[d] /\ edits[d].kind = "delete"
      BY <1>2
    <3>2. /\ edits[d].id \in ToSet(projects) /\ siteState[edits[d].id] # "none"
          /\ \A c \in Edits : edits[c].kind = "delete" => c = d
          /\ \A c \in Edits : HalfMade(c) => edits[c].id # edits[d].id
      BY <2>0, <3>1
    <3>3. edits'[d].id \in ToSet(projects') /\ siteState'[edits'[d].id] # "none"
      BY <1>1, <1>8, <3>1, <3>2
    <3>4. \A c \in Edits : edits'[c].kind = "delete" => c = d
      BY <1>2, <3>2
    <3>5. \A c \in Edits : HalfMade(c)' => edits'[c].id # edits'[d].id
      BY <1>2, <3>1, <3>2 DEF HalfMade
    <3> QED BY <3>3, <3>4, <3>5
  <2> QED BY <2>1, <2>2, <2>3, <2>4, <2>5 DEF Accounted
<1> QED BY <1>10, <1>11

LEMMA FaithfulEndDelete ==
    ASSUME CallsTyped, Sited, \A e \in Edits : Shaped(e), projects \in Seq(PageIds), Faithful, Accounted,
           NEW e \in Edits, EndDelete(e)
    PROVE  Faithful' /\ Accounted'
<1>0. edits \in [Edits -> EditType]
  BY DEF CallsTyped
<1>1. /\ edits[e].kind = "delete" /\ edits[e].step = "done"
      /\ projects' = Filter(projects, PageIds \ {edits[e].id})
      /\ pageRows' = pageRows /\ siteState' = siteState
      /\ edits' = [edits EXCEPT ![e] = NoEdit] \/ edits' = Unlocal([edits EXCEPT ![e] = NoEdit])
  BY DEF EndDelete, GoToList, apiVars
<1> DEFINE under == [edits EXCEPT ![e] = NoEdit]
<1>2. /\ edits'[e].kind = "none" /\ edits'[e].step = "idle" /\ ~edits'[e].acted
      /\ \A d \in Edits \ {e} : /\ edits'[d].kind = edits[d].kind /\ edits'[d].step = edits[d].step
                                /\ edits'[d].acted = edits[d].acted /\ edits'[d].id = edits[d].id
                                /\ edits'[d].heard = edits[d].heard
  <2>1. under[e] = NoEdit /\ (\A d \in Edits \ {e} : under[d] = edits[d]) /\ under \in [Edits -> EditType]
    BY <1>0, Blank
  <2>2. \A d \in Edits : /\ edits'[d].kind = under[d].kind /\ edits'[d].step = under[d].step
                         /\ edits'[d].acted = under[d].acted /\ edits'[d].id = under[d].id
                         /\ edits'[d].heard = under[d].heard
    <3> HIDE DEF under
    <3>1. CASE edits' = under
      BY <3>1
    <3>2. CASE edits' = Unlocal(under)
      BY <2>1, <3>2 DEF Unlocal, EditType
    <3> QED BY <1>1, <3>1, <3>2 DEF under
  <2> HIDE DEF under
  <2> QED BY <2>1, <2>2 DEF NoEdit
<1> HIDE DEF under
<1>3. Removing(e) /\ ~Adding(e)
  BY <1>1 DEF Shaped, Adding, Removing
<1>4. edits[e].id \notin pageRows /\ \A d \in Edits : edits[d].kind = "delete" => d = e
  BY <1>1, <1>3 DEF Accounted
<1>5. ~Adding(e)' /\ (\A d \in Edits : ~Removing(d)')
      /\ \A d \in Edits \ {e} : (Adding(d)' <=> Adding(d)) /\ ~Removing(d)
  BY <1>2, <1>4 DEF Adding, Removing
<1>6. ToSet(projects') = ToSet(projects) \cap (PageIds \ {edits[e].id}) /\ Distinct(projects')
  BY <1>1, FilterSet DEF Faithful
<1>7. \A p \in PageIds : p \in ToSet(projects') <=> StillListed(p)'
  <2> SUFFICES ASSUME NEW p \in PageIds PROVE p \in ToSet(projects') <=> StillListed(p)'
    OBVIOUS
  <2>1. ~Gone(p)'
    BY <1>5 DEF Gone
  <2>2. CASE p = edits[e].id
    BY <1>1, <1>4, <1>6, <2>1, <2>2 DEF StillListed
  <2>3. CASE p # edits[e].id
    <3>1. ~Gone(p)
      BY <1>5, <2>3 DEF Gone
    <3>2. Unheard(p)' <=> Unheard(p)
      <4>1. Unheard(p) => Unheard(p)'
        BY <1>2, <1>3, <1>5 DEF Unheard
      <4>2. Unheard(p)' => Unheard(p)
        BY <1>2, <1>5 DEF Unheard
      <4> QED BY <4>1, <4>2
    <3>3. p \in ToSet(projects') <=> p \in ToSet(projects)
      BY <1>6, <2>3
    <3> QED BY <1>1, <2>1, <3>1, <3>2, <3>3 DEF Faithful, StillListed
  <2> QED BY <2>2, <2>3
<1>8. Faithful'
  BY <1>6, <1>7 DEF Faithful
<1>9. Accounted'
  <2>1. \A d \in Edits : Live(d)' => edits'[d].heard
    BY <1>2 DEF Accounted, Live
  <2>2. \A d \in Edits : Adding(d)' => edits'[d].id \in pageRows'
    <3>1. \A d \in Edits : Adding(d) => edits[d].id \in pageRows
      BY DEF Accounted
    <3> QED BY <1>1, <1>2, <1>5, <3>1
  <2>3. \A c, d \in Edits : Adding(c)' /\ Adding(d)' /\ edits'[c].id = edits'[d].id => c = d
    <3>1. \A c, d \in Edits : Adding(c) /\ Adding(d) /\ edits[c].id = edits[d].id => c = d
      BY DEF Accounted
    <3> QED BY <1>2, <1>5, <3>1
  <2>4. \A d \in Edits : Removing(d)' => edits'[d].id \notin pageRows'
    BY <1>5
  <2>5. \A d \in Edits : edits'[d].kind # "delete"
    BY <1>2, <1>4
  <2> QED BY <2>1, <2>2, <2>3, <2>4, <2>5 DEF Accounted
<1> QED BY <1>8, <1>9

(* What a fetch brings that nothing has overlapped.                        *)
LEMMA FaithfulShow ==
    ASSUME CallsTyped, Sited, \A e \in Edits : Shaped(e), \A f \in Fetches : Brings(f),
           NEW f \in Fetches, ShowProjects(f), ~stale'
    PROVE  Faithful' /\ Accounted'
<1>1. /\ projects' = SetToSeq(pageRows) /\ Quiet /\ edits' = edits /\ pageRows' = pageRows
  BY DEF ShowProjects, Brings, apiVars
<1>2. \A e \in Edits : ~Live(e)' /\ ~Adding(e)' /\ ~Removing(e)' /\ edits'[e].kind = "none"
  BY <1>1 DEF Quiet, Shaped, Live, Adding, Removing
<1>3. ToSet(projects') = pageRows /\ Distinct(projects')
  BY <1>1, PagesListed DEF Sited
<1>4. \A p \in PageIds : p \in ToSet(projects') <=> StillListed(p)'
  BY <1>1, <1>2, <1>3 DEF StillListed, Unheard, Gone
<1>5. Faithful'
  BY <1>3, <1>4 DEF Faithful
<1>6. Accounted'
  BY <1>2 DEF Accounted
<1> QED BY <1>5, <1>6

LEMMA FaithfulFail ==
    ASSUME CallsTyped, Faithful, Accounted, NEW e \in Edits, FailEdit(e), ~stale'
    PROVE  Faithful' /\ Accounted'
<1>1. /\ edits' = [edits EXCEPT ![e] = NoEdit] /\ ~edits[e].acted
      /\ UNCHANGED <<projects, pageRows, siteState>>
  BY DEF FailEdit, apiVars
<1>2. edits'[e] = NoEdit /\ \A d \in Edits \ {e} : edits'[d] = edits[d]
  BY <1>1 DEF CallsTyped
<1>3. NoEdit.kind = "none" /\ NoEdit.step = "idle" /\ ~NoEdit.acted
  BY DEF NoEdit
<1>4. \A d \in Edits : /\ Live(d)' => edits'[d].heard
                       /\ Adding(d)' <=> Adding(d)
                       /\ Removing(d)' <=> Removing(d)
                       /\ Adding(d) \/ Removing(d) => edits'[d].id = edits[d].id
                       /\ edits'[d].kind = "delete" => edits[d].kind = "delete" /\ edits'[d].id = edits[d].id
  BY <1>1, <1>2, <1>3 DEF Accounted, Live, Adding, Removing
<1>5. \A c, d \in Edits : HalfMade(c)' /\ edits'[d].kind = "delete" => edits'[c].id # edits'[d].id
  BY <1>2, <1>3 DEF Accounted, HalfMade
<1> QED BY <1>1, <1>4, <1>5, FaithfulOn

LEMMA FaithfulNameContinue ==
    ASSUME CallsTyped, \A e \in Edits : Shaped(e), Faithful, Accounted, HandleNameContinue
    PROVE  Faithful' /\ Accounted'
<1> DEFINE to == Begun(0, "create")
<1>1. edits \in [Edits -> EditType]
  BY DEF CallsTyped
<1>2. PICK x \in Edits : edits' = [edits EXCEPT ![x] = to] /\ edits[x].step = "idle"
  BY <1>1, IdleIs DEF HandleNameContinue, BeginEdit
<1>3. UNCHANGED <<projects, pageRows, siteState>>
  BY DEF HandleNameContinue, BeginEdit, apiVars
<1>4. to.kind = "create" /\ to.step = "asked" /\ ~to.acted /\ to.heard
  BY DEF Begun
<1> HIDE DEF to
<1>5. edits'[x] = to /\ \A d \in Edits \ {x} : edits'[d] = edits[d]
  BY <1>1, <1>2
<1>6. edits[x].kind = "none"
  BY <1>2 DEF Shaped
<1>7. \A d \in Edits : /\ Live(d)' => edits'[d].heard
                       /\ Adding(d)' <=> Adding(d)
                       /\ Removing(d)' <=> Removing(d)
                       /\ Adding(d) \/ Removing(d) => edits'[d].id = edits[d].id
                       /\ edits'[d].kind = "delete" => edits[d].kind = "delete" /\ edits'[d].id = edits[d].id
  BY <1>4, <1>5, <1>6 DEF Accounted, Live, Adding, Removing
<1>8. \A c, d \in Edits : HalfMade(c)' /\ edits'[d].kind = "delete" => edits'[c].id # edits'[d].id
  BY <1>4, <1>5 DEF Accounted, HalfMade
<1> QED BY <1>3, <1>7, <1>8, FaithfulOn

LEMMA FaithfulHandleDelete ==
    ASSUME CallsTyped, Sited, \A e \in Edits : Shaped(e), projects \in Seq(PageIds), Faithful, Accounted,
           HandleDelete
    PROVE  Faithful' /\ Accounted'
<1> DEFINE to == Begun(detail, "delete")
<1>1. edits \in [Edits -> EditType]
  BY DEF CallsTyped
<1>2. PICK x \in Edits : edits' = [edits EXCEPT ![x] = to] /\ edits[x].step = "idle"
  BY <1>1, IdleIs DEF HandleDelete, BeginEdit
<1>3. UNCHANGED <<projects, pageRows, siteState>> /\ detail \in ToSet(projects)
      /\ \A e \in Edits : ~(Live(e) /\ edits[e].heard /\ edits[e].kind = "delete")
  BY DEF HandleDelete, BeginEdit, apiVars
<1>4. to.kind = "delete" /\ to.step = "asked" /\ ~to.acted /\ to.heard /\ to.id = detail
  BY DEF Begun
<1> HIDE DEF to
<1>5. edits'[x] = to /\ \A d \in Edits \ {x} : edits'[d] = edits[d]
  BY <1>1, <1>2
<1>6. edits[x].kind = "none" /\ \A d \in Edits : edits[d].kind # "delete"
  BY <1>2, <1>3 DEF Shaped, Accounted, Live
<1>7. \A d \in Edits : ~Removing(d) /\ ~Removing(d)' /\ (Adding(d)' <=> Adding(d))
                       /\ (Adding(d) => edits'[d].id = edits[d].id)
  BY <1>4, <1>5, <1>6 DEF Adding, Removing
<1>8. \A p : StillListed(p)' <=> StillListed(p)
  BY <1>3, <1>7 DEF StillListed, Unheard, Gone
<1>9. Faithful'
  BY <1>3, <1>8 DEF Faithful, Distinct
<1>10. detail \in pageRows
  <2>1. detail \in PageIds
    BY <1>3 DEF ToSet
  <2> QED BY <1>3, <1>7, <2>1 DEF Faithful, StillListed, Gone
<1>11. Accounted'
  <2>1. \A d \in Edits : Live(d)' => edits'[d].heard
    BY <1>4, <1>5 DEF Accounted, Live
  <2>2. \A d \in Edits : Adding(d)' => edits'[d].id \in pageRows'
    BY <1>3, <1>7 DEF Accounted
  <2>3. \A c, d \in Edits : Adding(c)' /\ Adding(d)' /\ edits'[c].id = edits'[d].id => c = d
    BY <1>7 DEF Accounted
  <2>4. \A d \in Edits : edits'[d].kind = "delete" => d = x
    BY <1>5, <1>6
  <2>5. detail \in ToSet(projects') /\ siteState'[detail] # "none"
    BY <1>3, <1>10 DEF Sited
  <2>6. \A c \in Edits : HalfMade(c)' => edits'[c].id # detail
    <3> SUFFICES ASSUME NEW c \in Edits, HalfMade(c)' PROVE edits'[c].id # detail
      OBVIOUS
    <3>1. c # x
      BY <1>4, <1>5 DEF HalfMade
    <3>2. edits'[c] = edits[c] /\ HalfMade(c)
      BY <1>5, <3>1 DEF HalfMade
    <3> QED BY <1>10, <3>2 DEF Sited, Made
  <2> QED BY <1>4, <1>5, <1>7, <2>1, <2>2, <2>3, <2>4, <2>5, <2>6 DEF Accounted
<1> QED BY <1>9, <1>11

LEMMA ListingInit == ProjectInit => Listing
<1> SUFFICES ASSUME ProjectInit PROVE Listing
  OBVIOUS
<1> DEFINE first == AnyOf(Fetches)
           asked == PagesAsked(FALSE)
<1>1. projects \in Seq(PageIds) /\ stale = TRUE
  BY NoPages DEF ProjectInit
<1>2. \A e \in Edits : Shaped(e)
  BY DEF ProjectInit, Shaped, NoEdit
<1>3. \A f \in Fetches : Brings(f)
  <2>1. fetches = [f \in Fetches |-> IF f = first THEN asked ELSE NoCall]
    BY DEF ProjectInit
  <2>2. /\ asked = [step |-> "asked", list |-> <<>>, crossed |-> FALSE]
        /\ NoCall = [step |-> "idle", list |-> <<>>, crossed |-> FALSE]
    BY DEF NoCall, PagesAsked
  <2>3. Quiet
    BY DEF Quiet, ProjectInit, NoEdit
  <2> HIDE DEF first, asked
  <2> SUFFICES ASSUME NEW f \in Fetches PROVE Brings(f)
    OBVIOUS
  <2>4. fetches[f] = asked \/ fetches[f] = NoCall
    BY <2>1
  <2>5. fetches[f].list = <<>> /\ fetches[f].crossed = FALSE /\ fetches[f].step \in {"asked", "idle"}
    BY <2>2, <2>4
  <2> QED BY <2>3, <2>5, NoPages DEF Brings
<1> QED BY <1>1, <1>2, <1>3 DEF Listing

LEMMA ListingTyped ==
    ASSUME Steered, Listing, ProjectNext PROVE projects' \in Seq(PageIds) /\ stale' \in BOOLEAN
<1>1. projects \in Seq(PageIds) /\ stale \in BOOLEAN
  BY DEF Listing
<1>2. CASE UNCHANGED <<projects, stale>>
  BY <1>1, <1>2
<1>3. ASSUME NEW f \in Fetches, ShowProjects(f) PROVE projects' \in Seq(PageIds) /\ stale' \in BOOLEAN
  BY <1>3 DEF ShowProjects, Listing, Brings
<1>4. ASSUME NEW e \in Edits, EndCreate(e) PROVE projects' \in Seq(PageIds) /\ stale' \in BOOLEAN
  <2>1. edits[e].id \in PageIds
    BY <1>4 DEF EndCreate, Steered, Addressed
  <2>2. <<edits[e].id>> \o projects \in Seq(PageIds)
    BY <1>1, <2>1, Prepended
  <2> QED BY <1>1, <1>4, <2>2 DEF EndCreate
<1>5. ASSUME NEW e \in Edits, EndDelete(e) PROVE projects' \in Seq(PageIds) /\ stale' \in BOOLEAN
  BY <1>1, <1>5, FilterSet DEF EndDelete
<1>6. ASSUME NEW e \in Edits, FailEdit(e) PROVE projects' \in Seq(PageIds) /\ stale' \in BOOLEAN
  <2>1. edits[e].acted \in BOOLEAN
    BY DEF Steered, CallsTyped, EditType
  <2>2. projects' = projects /\ stale' = (stale \/ edits[e].acted)
    BY <1>6 DEF FailEdit
  <2> QED BY <1>1, <2>1, <2>2
<1>7. ASSUME NEW id \in PageIds, OpenProject(id) PROVE projects' \in Seq(PageIds) /\ stale' \in BOOLEAN
  BY <1>7, NoPages DEF OpenProject
<1>8. ASSUME ApiStep PROVE UNCHANGED <<projects, stale>>
  BY <1>8 DEF ApiStep, InsertSite, InsertPage, DeletePage, DeactivateSite, RefuseEdit, ReadPages, AnswerTrigger,
              storeVars
<1>9. ASSUME ConsoleStep
      PROVE  \/ UNCHANGED <<projects, stale>>
             \/ \E f \in Fetches : ShowProjects(f)
             \/ \E e \in Edits : EndCreate(e) \/ EndDelete(e) \/ FailEdit(e)
             \/ \E id \in PageIds : OpenProject(id)
  BY <1>9 DEF ConsoleStep, FailFetch, Forget, EndTrigger, OpenList, OpenWizard, HandleDelete, HandleNameContinue,
              BeginEdit, HandleCloudDeploy, HandleBuildComplete, StepBack, storeVars
<1> QED BY <1>2, <1>3, <1>4, <1>5, <1>6, <1>7, <1>8, <1>9 DEF ProjectNext

LEMMA FaithfulApi ==
    ASSUME CallsTyped, Sited, \A e \in Edits : Shaped(e), Faithful, Accounted, ApiStep
    PROVE  Faithful' /\ Accounted'
<1>1. edits \in [Edits -> EditType]
  BY DEF CallsTyped
<1>2. ASSUME NEW e \in Edits, InsertSite(e) PROVE Faithful' /\ Accounted'
  BY <1>2, FaithfulInsertSite
<1>3. ASSUME NEW e \in Edits, InsertPage(e) PROVE Faithful' /\ Accounted'
  BY <1>3, FaithfulInsertPage
<1>4. ASSUME NEW e \in Edits, DeletePage(e) PROVE Faithful' /\ Accounted'
  BY <1>4, FaithfulDeletePage
<1>5. ASSUME NEW e \in Edits, NEW to \in {"done", "refused"}, Live(e), edits' = [edits EXCEPT ![e].step = to],
             UNCHANGED <<projects, pageRows>>, \A p : siteState[p] # "none" => siteState'[p] # "none"
      PROVE  Faithful' /\ Accounted'
  <2>1. /\ edits'[e].kind = edits[e].kind /\ edits'[e].acted = edits[e].acted /\ edits'[e].id = edits[e].id
        /\ edits'[e].heard = edits[e].heard /\ edits'[e].step = to
        /\ \A d \in Edits \ {e} : edits'[d] = edits[d]
    BY <1>1, <1>5 DEF EditType
  <2>2. \A d \in Edits :
            /\ Live(d)' => Live(d) /\ edits'[d].heard = edits[d].heard
            /\ edits'[d].kind = edits[d].kind /\ edits'[d].acted = edits[d].acted
            /\ edits'[d].id = edits[d].id
            /\ edits'[d].step = "half" => edits[d].step = "half"
    BY <1>5, <2>1 DEF Live
  <2> QED BY <1>5, <2>2, FaithfulStep
<1>6. ASSUME NEW e \in Edits, DeactivateSite(e) PROVE Faithful' /\ Accounted'
  <2>1. \A p : siteState[p] # "none" => siteState'[p] # "none"
    <3>1. siteState' = [siteState EXCEPT ![edits[e].id] = "inactive"] /\ DOMAIN siteState = PageIds
          /\ edits[e].id \in PageIds
      BY <1>6 DEF DeactivateSite, EditTo, Sited, HalfRemoved, Removed
    <3> QED BY <3>1
  <2> QED BY <1>5, <1>6, <2>1 DEF DeactivateSite, EditTo, Live, storeVars
<1>7. ASSUME NEW e \in Edits, RefuseEdit(e) PROVE Faithful' /\ Accounted'
  BY <1>5, <1>7 DEF RefuseEdit, Live, storeVars, apiVars
<1>8. CASE (\E f \in Fetches : ReadPages(f)) \/ \E t \in Triggers : AnswerTrigger(t)
  <2>1. UNCHANGED <<projects, pageRows, siteState, edits>>
    BY <1>8 DEF ReadPages, AnswerTrigger, storeVars, apiVars
  <2> QED BY <2>1, FaithfulStep DEF Live
<1> QED BY <1>2, <1>3, <1>4, <1>6, <1>7, <1>8 DEF ApiStep

LEMMA FaithfulConsole ==
    ASSUME CallsTyped, Sited, Listing, ConsoleStep, ~stale'
    PROVE  Faithful' /\ Accounted'
<1>1. edits \in [Edits -> EditType] /\ projects \in Seq(PageIds)
      /\ (\A e \in Edits : Shaped(e)) /\ \A f \in Fetches : Brings(f)
  BY DEF CallsTyped, Listing
<1>2. ASSUME NEW f \in Fetches, ShowProjects(f) PROVE Faithful' /\ Accounted'
  BY <1>1, <1>2, FaithfulShow
<1>3. ASSUME ~stale PROVE Faithful /\ Accounted
  BY <1>3 DEF Listing
<1>4. ASSUME NEW e \in Edits, EndCreate(e) PROVE Faithful' /\ Accounted'
  BY <1>1, <1>3, <1>4, FaithfulEndCreate DEF EndCreate
<1>5. ASSUME NEW e \in Edits, EndDelete(e) PROVE Faithful' /\ Accounted'
  BY <1>1, <1>3, <1>5, FaithfulEndDelete DEF EndDelete
<1>6. ASSUME NEW e \in Edits, FailEdit(e) PROVE Faithful' /\ Accounted'
  <2>1. stale' = (stale \/ edits[e].acted) /\ stale \in BOOLEAN
    BY <1>6 DEF FailEdit, Listing
  <2> QED BY <1>3, <1>6, <2>1, FaithfulFail
<1>7. ASSUME NEW e \in Edits, Forget(e) PROVE Faithful' /\ Accounted'
  BY <1>3, <1>7 DEF Forget, Accounted, Live, storeVars
<1>8. CASE OpenList
  <2>1. UNCHANGED <<projects, pageRows, siteState, stale>> /\ edits' = Unlocal(edits)
    BY <1>8 DEF OpenList, GoToList, apiVars
  <2>2. \A d \in Edits :
            /\ edits'[d].step = edits[d].step /\ edits'[d].heard = edits[d].heard
            /\ edits'[d].kind = edits[d].kind /\ edits'[d].acted = edits[d].acted
            /\ edits'[d].id = edits[d].id
    BY <1>1, <2>1 DEF Unlocal, EditType
  <2> QED BY <1>3, <2>1, <2>2, FaithfulStep DEF Live
<1>9. CASE HandleDelete
  BY <1>1, <1>3, <1>9, FaithfulHandleDelete DEF HandleDelete, BeginEdit
<1>10. CASE HandleNameContinue
  BY <1>1, <1>3, <1>10, FaithfulNameContinue DEF HandleNameContinue, BeginEdit
<1>11. CASE UNCHANGED <<projects, stale, edits, apiVars>>
  BY <1>3, <1>11, FaithfulStep DEF Live, apiVars
<1>12. ASSUME NEW id \in PageIds, OpenProject(id) PROVE FALSE
  BY <1>12 DEF OpenProject
<1> QED BY <1>2, <1>4, <1>5, <1>6, <1>7, <1>8, <1>9, <1>10, <1>11, <1>12
        DEF ConsoleStep, OpenWizard, HandleCloudDeploy, HandleBuildComplete, StepBack, EndTrigger, FailFetch,
            callVars, storeVars

LEMMA ListingNext ==
    ASSUME Steered, Sited, Spinning, Listing, [ProjectNext]_projectVars PROVE Listing'
<1>1. CallsTyped /\ (\A e \in Edits : Shaped(e)) /\ \A f \in Fetches : Brings(f)
  BY DEF Steered, Listing
<1>2. CASE ApiStep
  <2>1. projects' \in Seq(PageIds) /\ stale' \in BOOLEAN
    BY <1>2, ListingTyped DEF ProjectNext
  <2>2. stale' = stale
    BY <1>2 DEF ApiStep, InsertSite, InsertPage, DeletePage, DeactivateSite, RefuseEdit, ReadPages, AnswerTrigger,
                storeVars
  <2>3. ~stale' => Faithful' /\ Accounted'
    BY <1>1, <1>2, <2>2, FaithfulApi DEF Listing
  <2> QED BY <1>1, <1>2, <2>1, <2>3, ShapedApi, FetchedApi DEF Listing
<1>3. CASE ConsoleStep
  <2>1. projects' \in Seq(PageIds) /\ stale' \in BOOLEAN
    BY <1>3, ListingTyped DEF ProjectNext
  <2>2. ~stale' => Faithful' /\ Accounted'
    BY <1>1, <1>3, FaithfulConsole
  <2> QED BY <1>1, <1>3, <2>1, <2>2, ShapedConsole, FetchedConsole DEF Listing
<1>4. CASE UNCHANGED projectVars
  <2>1. UNCHANGED <<edits, fetches, pageRows, siteState, projects, stale>>
    BY <1>4 DEF projectVars, apiVars, callVars, storeVars
  <2>2. ~stale => Faithful' /\ Accounted'
    BY <2>1, FaithfulStep DEF Live, Listing
  <2> QED BY <1>1, <2>1, <2>2, ShapedSame, FetchedOn DEF Listing
<1> QED BY <1>2, <1>3, <1>4 DEF ProjectNext

LEMMA ListingTrue == Sited /\ Listing => ListIsTrue
<1> SUFFICES ASSUME Sited, Listing, ~stale, Idle(edits) = Edits
             PROVE  ToSet(projects) = pageRows /\ Len(projects) = Cardinality(pageRows)
  BY DEF ListIsTrue
<1>1. projects \in Seq(PageIds) /\ Faithful /\ pageRows \subseteq PageIds
  BY DEF Listing, Sited
<1>2. \A e \in Edits : ~Adding(e) /\ ~Removing(e)
  BY DEF Listing, Shaped, Idle, Adding, Removing
<1>3. \A p \in PageIds : p \in ToSet(projects) <=> p \in pageRows
  BY <1>1, <1>2 DEF Faithful, StillListed, Unheard, Gone
<1>4. ToSet(projects) \subseteq PageIds
  BY <1>1 DEF ToSet
<1>5. ToSet(projects) = pageRows
  BY <1>1, <1>3, <1>4
<1>6. Len(projects) = Cardinality(ToSet(projects))
  BY <1>1, DistinctLength DEF Faithful
<1> QED BY <1>5, <1>6

(* Unless the fetch it comes from overlapped a call that makes or deletes  *)
(* a page, or the answer of such a call was lost, the list has each page   *)
(* once and nothing else, the spinner ends with the calls, and every page  *)
(* has a site that serves it.                                              *)
THEOREM ProjectsStayTrue == ProjectSpec => []ProjectsAreTrue
<1>1. Steered /\ Sited /\ Spinning /\ Listing /\ [ProjectNext]_projectVars => Listing'
  BY ListingNext
<1>2. Sited /\ Listing => ListIsTrue
  BY ListingTrue
<1>3. ListIsTrue /\ SpinnerEnds /\ PagesAreServed <=> ProjectsAreTrue
  BY DEF ProjectsAreTrue
<1> QED BY <1>1, <1>2, <1>3, ListingInit, SteeredAlways, SitedAlways, SpinningAlways, PagesStayServed,
           SpinnerStops, PTL DEF ProjectSpec
================================================================================
