---------------------------- MODULE DeploymentViews ----------------------------
(***************************************************************************)
(* What the console shows of a page's deployments: the tab of files        *)
(* (FilesTab.tsx) draws the tree of the deployment that is live, which     *)
(* listPageDeploymentFiles reads in two or three queries, and the tab of   *)
(* the history (DeployTab.tsx) lists the deployments and rolls back to     *)
(* one.  Meanwhile deploys, rollbacks from elsewhere and the collector     *)
(* change the rows; that they do so one page and one transaction at a time *)
(* is Activation's business.                                               *)
(*                                                                         *)
(* A path is the sequence of what its slashes separate, empty parts        *)
(* included; the order of siblings and the wording are left out.           *)
(***************************************************************************)
EXTENDS Integers, SequencesExt, Lists

CONSTANTS
    MaxDeployments, \* bound: versions of the page
    MaxChanges,     \* bound: changes of its rows
    Listings,       \* lists of paths that a deployment may hold
    Compressed,     \* names that end in .br or .gz
    RowsKept,       \* DEPLOYMENT_RETENTION
    Reloads,        \* calls of loadDeployments that may be under way at once
    Patient         \* the user starts nothing while the list is loading

DepVersions == 1..MaxDeployments

ASSUME ViewConstants ==
    /\ MaxDeployments \in Nat \ {0} /\ MaxChanges \in Nat
    /\ RowsKept \in Nat /\ Patient \in BOOLEAN

VARIABLES
    tab,            \* the tab that is open: "files" or "history"
    depRows,        \* each version: "none", "inactive", "active" or "gone"
    paths,          \* the paths of each version's tree
    changes,        \* changes of the rows so far
    fetch,          \* FilesTab: the call under way, and the version it found
    browser,        \* FilesTab: the version, the elements and the count shown
    opened,         \* the tree's folders that are expanded
    reload,         \* DeployTab: each call of loadDeployments
    history,        \* DeployTab: the rows it lists, and how old they are
    rolling,        \* the version a rollback is under way to, or 0
    rollback,       \* where that call is
    mine            \* the change that the last rollback from here has made

serverRows == <<depRows, paths, changes>>
filesVars == <<fetch, browser, opened>>
historyVars == <<reload, history, rolling, rollback, mine>>
viewVars == <<tab, serverRows, filesVars, historyVars>>

NoFetch == [step |-> "idle", found |-> 0, files |-> <<>>]
NoFiles == [version |-> 0, elements |-> <<>>, count |-> 0]
NoReload == [step |-> "idle", rows |-> {}, stamp |-> 0]
FetchSteps == {"idle", "asked", "none live", "found", "answered"}

ViewTypeOK ==
    /\ tab \in {"files", "history"}
    /\ depRows \in [DepVersions -> {"none", "inactive", "active", "gone"}]
    /\ \A v \in DepVersions : paths[v] \in Listings
    /\ changes \in 0..MaxChanges
    /\ fetch.step \in FetchSteps /\ fetch.found \in {0} \cup DepVersions
    /\ browser.version \in {0} \cup DepVersions /\ browser.count \in Nat
    /\ \A r \in Reloads : reload[r].step \in {"idle", "asked", "answered"}
    /\ rolling \in {0} \cup DepVersions
    /\ rollback \in {"idle", "asked", "done", "refused"}
    /\ mine \in 0..changes

ViewInit ==
    /\ tab \in {"files", "history"}
    /\ depRows = [v \in DepVersions |-> "none"]
    /\ \E list \in Listings :
          paths = [v \in DepVersions |-> IF v = 1 /\ tab = "files" THEN list ELSE <<>>]
    /\ changes = 0
    /\ fetch = NoFetch /\ browser = NoFiles /\ opened = {}
    /\ reload = [r \in Reloads |-> NoReload] /\ history = [rows |-> {}, stamp |-> -1]
    /\ rolling = 0 /\ rollback = "idle" /\ mine = 0

-----------------------------------------------------------------------------
(* The rows, as others change them.                                        *)

Change(rows) ==
    /\ changes < MaxChanges
    /\ changes' = changes + 1
    /\ depRows' = rows
    /\ UNCHANGED <<tab, paths>>

Stored(v) == depRows[v] \in {"inactive", "active"}
Activated(v) == [w \in DepVersions |-> IF w = v THEN "active"
                                       ELSE IF depRows[w] = "active" THEN "inactive"
                                       ELSE depRows[w]]

(* A deploy, which goes live in a step of its own.                         *)
InsertDeployment(v) ==
    /\ depRows[v] = "none" /\ \A w \in 1..v - 1 : depRows[w] # "none"
    /\ Change([depRows EXCEPT ![v] = "inactive"])
    /\ UNCHANGED <<filesVars, historyVars>>

ActivateDeployment(v) ==
    /\ depRows[v] = "inactive"
    /\ Change(Activated(v))
    /\ UNCHANGED <<filesVars, historyVars>>

Newer(v) == {w \in DepVersions : w > v /\ depRows[w] = "inactive"}

CollectDeployment(v) ==
    /\ depRows[v] = "inactive" /\ Cardinality(Newer(v)) >= RowsKept
    /\ Change([depRows EXCEPT ![v] = "gone"])
    /\ UNCHANGED <<filesVars, historyVars>>

RowsChange ==
    \E v \in DepVersions :
        InsertDeployment(v) \/ ActivateDeployment(v) \/ CollectDeployment(v)

-----------------------------------------------------------------------------
(* listPageDeploymentFiles and FilesTab                                    *)

(* When the tab is opened, and by the button that is off while loading.    *)
LoadFiles ==
    /\ fetch.step = "idle"
    /\ fetch' = [NoFetch EXCEPT !.step = "asked"]
    /\ UNCHANGED <<tab, serverRows, browser, opened, historyVars>>

Fetched(step, found, files) ==
    /\ fetch' = [step |-> step, found |-> found, files |-> files]
    /\ UNCHANGED <<tab, serverRows, browser, opened, historyVars>>

ReadActive ==
    /\ fetch.step = "asked"
    /\ \/ \E v \in DepVersions : depRows[v] = "active" /\ Fetched("found", v, <<>>)
       \/ (\A v \in DepVersions : depRows[v] # "active") /\ Fetched("none live", 0, <<>>)

(* The newest, when none is live.                                          *)
ReadNewestRow ==
    /\ fetch.step = "none live"
    /\ IF \E v \in DepVersions : Stored(v)
       THEN Fetched("found", Max({v \in DepVersions : Stored(v)}), <<>>)
       ELSE Fetched("answered", 0, <<>>)

ReadFiles ==
    /\ fetch.step = "found"
    /\ Fetched("answered", fetch.found, IF Stored(fetch.found) THEN paths[fetch.found] ELSE <<>>)

Visible(list) == Picked(list, {i \in DOMAIN list : Last(list[i]) \notin Compressed})

(* pathsToTreeElements: an element has the path that is its id, and the    *)
(* folder whose children it was pushed to; a folder is found by its path.  *)
BugFolderKey(path) == <<Last(path)>>
FolderKey(path) == path

Root == <<>>
PartsOf(path) == Picked(path, {i \in DOMAIN path : path[i] # ""})

(* The files of a directory: no two have one name, nor a file and a        *)
(* folder; a manifest is refused where two paths have one normal form.     *)
Directory(list) ==
    /\ list \in Seq(Seq(STRING))
    /\ \A i \in DOMAIN list : PartsOf(list[i]) # <<>>
    /\ \A i, j \in DOMAIN list : IsPrefix(PartsOf(list[i]), PartsOf(list[j])) => i = j

ASSUME DirectoriesOnly == \A list \in Listings : Directory(list)

Element(path, type, parent) == [id |-> path, type |-> type, under |-> parent]
FoldersOf(elements, path) ==
    {e \in ToSet(elements) : e.type = "folder" /\ FolderKey(e.id) = FolderKey(path)}

PushFolder(at, path) ==
    IF FoldersOf(at.elements, path) # {}
    THEN [at EXCEPT !.siblings = (CHOOSE e \in FoldersOf(at.elements, path) : TRUE).id]
    ELSE [elements |-> Append(at.elements, Element(path, "folder", at.siblings)),
          siblings |-> path]

(* The folders on the way to a file.                                       *)
PushFolders(elements, parts) ==
    LET upTo[n \in 0..(Len(parts) - 1)] ==
            IF n = 0 THEN [elements |-> elements, siblings |-> Root]
            ELSE PushFolder(upTo[n - 1], SubSeq(parts, 1, n))
    IN  upTo[Len(parts) - 1]

PushFile(elements, path) ==
    LET parts == PartsOf(path)
        at == PushFolders(elements, parts)
    IN  IF parts = <<>> THEN elements
        ELSE Append(at.elements, Element(parts, "file", at.siblings))

PathsToTreeElements(list) ==
    LET upTo[n \in 0..Len(list)] ==
            IF n = 0 THEN <<>> ELSE PushFile(upTo[n - 1], list[n])
    IN  upTo[Len(list)]

TopLevelFolders(elements) ==
    {e.id : e \in {f \in ToSet(elements) : f.type = "folder" /\ f.under = Root}}

(* The tree is drawn anew, its top folders open.                           *)
Draw(shown) ==
    /\ browser' = shown
    /\ opened' = TopLevelFolders(shown.elements)
    /\ fetch' = NoFetch
    /\ UNCHANGED <<tab, serverRows, historyVars>>

ShowFiles ==
    /\ fetch.step = "answered"
    /\ Draw([version |-> fetch.found, elements |-> PathsToTreeElements(Visible(fetch.files)),
             count |-> Len(Visible(fetch.files))])

FailFiles == fetch.step # "idle" /\ Draw(NoFiles)

-----------------------------------------------------------------------------
(* The tree (file-tree.tsx): a folder's click opens or closes it; what a   *)
(* click selects is left out.                                              *)

OnScreen(e) == \A n \in 1..Len(e.id) - 1 : SubSeq(e.id, 1, n) \in opened

Toggled(ids, id) == IF id \in ids THEN ids \ {id} ELSE ids \cup {id}

ClickFolder(e) ==
    /\ fetch.step = "idle" /\ e.type = "folder" /\ OnScreen(e)
    /\ opened' = Toggled(opened, e.id)
    /\ UNCHANGED <<tab, serverRows, fetch, browser, historyVars>>

FilesStep ==
    \/ LoadFiles \/ ReadActive \/ ReadNewestRow \/ ReadFiles \/ ShowFiles \/ FailFiles
    \/ \E e \in ToSet(browser.elements) : ClickFolder(e)

-----------------------------------------------------------------------------
(* DeployTab: loadDeployments and handleRollback                           *)

Reloading == \E r \in Reloads : reload[r].step # "idle"
Asked(r) == [reload EXCEPT ![r] = [NoReload EXCEPT !.step = "asked"]]

(* When the tab is opened, and by its button.                              *)
LoadDeployments(r) ==
    /\ reload[r].step = "idle"
    /\ Patient => ~Reloading /\ rolling = 0
    /\ reload' = Asked(r)
    /\ UNCHANGED <<tab, serverRows, filesVars, history, rolling, rollback, mine>>

Listed == {[version |-> v, live |-> depRows[v] = "active"] : v \in {w \in DepVersions : Stored(w)}}

ListDeployments(r) ==
    /\ reload[r].step = "asked"
    /\ reload' = [reload EXCEPT ![r] = [step |-> "answered", rows |-> Listed, stamp |-> changes]]
    /\ UNCHANGED <<tab, serverRows, filesVars, history, rolling, rollback, mine>>

ShowHistory(r) ==
    /\ reload[r].step = "answered"
    /\ history' = [rows |-> reload[r].rows, stamp |-> reload[r].stamp]
    /\ reload' = [reload EXCEPT ![r] = NoReload]
    /\ UNCHANGED <<tab, serverRows, filesVars, rolling, rollback, mine>>

(* The list stays as it was.                                               *)
FailHistory(r) ==
    /\ reload[r].step # "idle"
    /\ reload' = [reload EXCEPT ![r] = NoReload]
    /\ history' = [history EXCEPT !.stamp = -1]
    /\ UNCHANGED <<tab, serverRows, filesVars, rolling, rollback, mine>>

HandleRollback(item) ==
    /\ rolling = 0 /\ ~item.live
    /\ Patient => ~Reloading
    /\ rolling' = item.version /\ rollback' = "asked"
    /\ UNCHANGED <<tab, serverRows, filesVars, reload, history, mine>>

(* rollbackToDeployment: not of a row that is gone, nor without the lock.  *)
RollBack ==
    /\ rollback = "asked" /\ Stored(rolling)
    /\ Change(Activated(rolling))
    /\ rollback' \in {"done", "refused"}
    /\ mine' = IF rollback' = "done" THEN changes' ELSE mine
    /\ UNCHANGED <<filesVars, reload, history, rolling>>

RefuseRollback ==
    /\ rollback = "asked"
    /\ rollback' = "refused"
    /\ UNCHANGED <<tab, serverRows, filesVars, reload, history, rolling, mine>>

BugReloads(r) == UNCHANGED reload
ReloadsAfter(r) == reload[r].step = "idle" /\ reload' = Asked(r)

EndRollback ==
    /\ \/ rollback = "done" /\ \E r \in Reloads : ReloadsAfter(r)
       \/ rollback = "refused" /\ UNCHANGED reload
    /\ rolling' = 0 /\ rollback' = "idle"
    /\ UNCHANGED <<tab, serverRows, filesVars, history, mine>>

HistoryStep ==
    \/ \E r \in Reloads : LoadDeployments(r) \/ ListDeployments(r) \/ ShowHistory(r) \/ FailHistory(r)
    \/ \E item \in history.rows : HandleRollback(item)
    \/ RollBack \/ RefuseRollback \/ EndRollback

ViewNext ==
    \/ RowsChange
    \/ tab = "files" /\ FilesStep
    \/ tab = "history" /\ HistoryStep

ViewSpec == ViewInit /\ [][ViewNext]_viewVars

-----------------------------------------------------------------------------
(* The leaves are the deployment's files but the compressed ones, each     *)
(* once and in the folders of its path; none at all only if the collector  *)
(* has taken the deployment between the queries.  No two children of a     *)
(* folder share an id, which React and the tree's state tell them by, and  *)
(* nothing is open that the tree no longer has.                            *)
Leaves(elements) == Picked(elements, {i \in DOMAIN elements : elements[i].type = "file"})
InPlace(elements, e) ==
    /\ e.under = Front(e.id)
    /\ e.under # Root => \E f \in ToSet(elements) : f.type = "folder" /\ f.id = e.under

TreeShowsFiles ==
    LET elements == browser.elements
        files == Visible(paths[browser.version])
    IN  browser.version # 0 =>
            /\ \/ [i \in DOMAIN Leaves(elements) |-> Leaves(elements)[i].id]
                       = [i \in DOMAIN files |-> PartsOf(files[i])]
               \/ elements = <<>> /\ depRows[browser.version] = "gone"
            /\ browser.count = Len(Leaves(elements))
            /\ \A e \in ToSet(elements) : InPlace(elements, e)
            /\ \A i, j \in DOMAIN elements :
                   elements[i].id = elements[j].id => i = j
            /\ opened \subseteq {e.id : e \in ToSet(elements)}

(* "Rolled back to v..." and "Live": once nothing is under way, and unless *)
(* the last call for it failed, the list is not older than what the user's *)
(* own rollback did; and it has never more than one live row.              *)
HistoryFollows ==
    /\ ~Reloading /\ rolling = 0 /\ history.stamp >= 0 => history.stamp >= mine
    /\ \A p, q \in history.rows : p.live /\ q.live => p = q
================================================================================
