------------------------------- MODULE Projects -------------------------------
(***************************************************************************)
(* A tenant's pages and the console that lists, makes and deletes them.    *)
(* In the API: createPage and deletePage, two statements each              *)
(* (page.service.ts).  In the console: the store that the screens share    *)
(* (useAppStore.ts), the list, a project's screen with its removal, and    *)
(* the wizard that makes a project and has it built.  A call of the        *)
(* console goes on when its screen has been left; only a full load, which  *)
(* opening a project is, forgets it.                                       *)
(*                                                                         *)
(* Names, messages and the checks of what the user types are left out.     *)
(***************************************************************************)
EXTENDS Integers, SequencesExt, Lists

CONSTANTS
    MaxPages,   \* bound: pages ever made
    Fetches,    \* calls of getPages that may be under way at once
    Edits,      \* calls of createPage and deletePage
    Triggers    \* calls of triggerBuild

PageIds == 1..MaxPages

ASSUME ProjectConstants == MaxPages \in Nat \ {0} /\ Fetches # {}

VARIABLES
    pageRows,   \* pages
    siteState,  \* sites: of each page, "none", "active" or "inactive"
    fetches,    \* each call of getPages
    edits,      \* each call that makes or deletes a page
    triggers,   \* each call that starts a build, and the page it is for
    projects,   \* useAppStore: the list
    isLoading,  \* useAppStore: one flag for all calls
    screen,     \* "list", "new" or "detail"
    detail,     \* the project that "detail" is about
    wizard,     \* CreateProjectView's state
    stale,      \* ghost: the list may differ from the rows
    strayed     \* ghost: the wizard was left behind by its own call

apiVars == <<pageRows, siteState>>
callVars == <<fetches, edits, triggers>>
storeVars == <<projects, isLoading, stale>>
screenVars == <<screen, detail, wizard, strayed>>
projectVars == <<apiVars, callVars, storeVars, screenVars>>

NoCall == [step |-> "idle", list |-> <<>>, crossed |-> FALSE]
PagesAsked(crossed) == [step |-> "asked", list |-> <<>>, crossed |-> crossed]
NoEdit == [kind |-> "none", step |-> "idle", id |-> 0, acted |-> FALSE, heard |-> FALSE,
           local |-> FALSE]
NoTrigger == [step |-> "idle", page |-> 0]
NoTriggers == [t \in Triggers |-> NoTrigger]

(* Of the build that the wizard follows: its page, and whether its log has *)
(* come to an end.                                                         *)
NewWizard == [step |-> "name", creating |-> FALSE, created |-> 0, shown |-> FALSE,
              deploying |-> FALSE, active |-> 0, over |-> FALSE]

AnyOf(set) == CHOOSE x \in set : TRUE
Idle(calls) == {c \in DOMAIN calls : calls[c].step = "idle"}

ProjectTypeOK ==
    /\ pageRows \subseteq PageIds
    /\ siteState \in [PageIds -> {"none", "active", "inactive"}]
    /\ \A f \in Fetches : fetches[f].step \in {"idle", "asked", "answered"}
    /\ \A e \in Edits : edits[e].step \in {"idle", "asked", "half", "done", "refused"}
    /\ \A t \in Triggers : triggers[t].step \in {"idle", "asked", "done", "refused"}
    /\ projects \in Seq(PageIds) /\ isLoading \in BOOLEAN
    /\ screen \in {"list", "new", "detail"} /\ detail \in {0} \cup PageIds
    /\ wizard.created \in {0} \cup PageIds /\ wizard.active \in {0} \cup PageIds
    /\ stale \in BOOLEAN /\ strayed \in BOOLEAN

(* A tenant without a page has opened the list.                            *)
ProjectInit ==
    /\ pageRows = {}
    /\ siteState = [p \in PageIds |-> "none"]
    /\ fetches = [f \in Fetches |-> IF f = AnyOf(Fetches) THEN PagesAsked(FALSE) ELSE NoCall]
    /\ edits = [e \in Edits |-> NoEdit] /\ triggers = NoTriggers
    /\ projects = <<>> /\ isLoading = TRUE
    /\ screen = "list" /\ detail = 0 /\ wizard = NewWizard
    /\ stale = TRUE /\ strayed = FALSE

-----------------------------------------------------------------------------
(* The API.                                                                *)

EditTo(e, from, to) == edits[e].step = from /\ edits' = [edits EXCEPT ![e].step = to]

(* createPage: the row of the site, under a subdomain that is free, ...    *)
InsertSite(e) ==
    LET free == {p \in PageIds : siteState[p] = "none"}
    IN  /\ edits[e].kind = "create" /\ edits[e].step = "asked" /\ free # {}
        /\ siteState' = [siteState EXCEPT ![Min(free)] = "active"]
        /\ edits' = [edits EXCEPT ![e].step = "half", ![e].id = Min(free)]
        /\ UNCHANGED <<pageRows, fetches, triggers, storeVars, screenVars>>

(* ... then that of the page.                                              *)
InsertPage(e) ==
    /\ edits[e].kind = "create" /\ edits[e].step = "half"
    /\ pageRows' = pageRows \cup {edits[e].id}
    /\ edits' = [edits EXCEPT ![e].step = "done", ![e].acted = TRUE]
    /\ UNCHANGED <<siteState, fetches, triggers, storeVars, screenVars>>

(* deletePage: the row of the page, then that of the site and the keys.    *)
BugDeletePage(e) ==
    /\ edits[e].kind = "delete" /\ edits[e].step = "asked" /\ edits[e].id \in pageRows
    /\ siteState' = [siteState EXCEPT ![edits[e].id] = "inactive"]
    /\ edits' = [edits EXCEPT ![e].step = "half"]
    /\ UNCHANGED <<pageRows, fetches, triggers, storeVars, screenVars>>

DeletePage(e) ==
    /\ edits[e].kind = "delete" /\ edits[e].step = "asked" /\ edits[e].id \in pageRows
    /\ pageRows' = pageRows \ {edits[e].id}
    /\ edits' = [edits EXCEPT ![e].step = "half", ![e].acted = TRUE]
    /\ UNCHANGED <<siteState, fetches, triggers, storeVars, screenVars>>

DeactivateSite(e) ==
    /\ edits[e].kind = "delete" /\ EditTo(e, "half", "done")
    /\ siteState' = [siteState EXCEPT ![edits[e].id] = "inactive"]
    /\ UNCHANGED <<pageRows, fetches, triggers, storeVars, screenVars>>

(* "Page not found", a failed statement, or the API dies: nothing is       *)
(* undone.                                                                 *)
RefuseEdit(e) ==
    /\ edits[e].step \in {"asked", "half"}
    /\ edits' = [edits EXCEPT ![e].step = "refused"]
    /\ UNCHANGED <<apiVars, fetches, triggers, storeVars, screenVars>>

(* getListPages: in no particular order.                                   *)
ReadPages(f) ==
    /\ fetches[f].step = "asked"
    /\ fetches' = [fetches EXCEPT ![f] =
           [step |-> "answered", list |-> SetToSeq(pageRows), crossed |-> fetches[f].crossed]]
    /\ UNCHANGED <<apiVars, edits, triggers, storeVars, screenVars>>

(* POST /api/builds, of which BuildQueue has the rest.                     *)
AnswerTrigger(t) ==
    /\ triggers[t].step = "asked"
    /\ \E outcome \in {"done", "refused"} :
          /\ outcome = "done" => triggers[t].page \in pageRows
          /\ triggers' = [triggers EXCEPT ![t].step = outcome]
    /\ UNCHANGED <<apiVars, fetches, edits, storeVars, screenVars>>

ApiStep ==
    \/ \E e \in Edits : InsertSite(e) \/ InsertPage(e) \/ DeletePage(e) \/ DeactivateSite(e) \/ RefuseEdit(e)
    \/ \E f \in Fetches : ReadPages(f)
    \/ \E t \in Triggers : AnswerTrigger(t)

-----------------------------------------------------------------------------
(* The store.                                                              *)

Live(e) == edits[e].step # "idle"
Begun(id, kind) == [kind |-> kind, step |-> "asked", id |-> id, acted |-> FALSE, heard |-> TRUE,
                    local |-> kind = "create"]

(* Ghost: what a fetch finds may be from before or after such a call.      *)
Crossed == [f \in Fetches |-> [step |-> fetches[f].step, list |-> fetches[f].list,
                               crossed |-> fetches[f].step # "idle"]]

BeginEdit(id, kind) ==
    /\ Idle(edits) # {}
    /\ edits' = [edits EXCEPT ![AnyOf(Idle(edits))] = Begun(id, kind)]
    /\ fetches' = Crossed
    /\ isLoading' = TRUE
    /\ UNCHANGED <<apiVars, triggers, projects, stale>>

FetchProjects(under) ==
    /\ Idle(fetches) # {}
    /\ fetches' = [fetches EXCEPT ![AnyOf(Idle(fetches))] = PagesAsked(Idle(under) # Edits)]
    /\ isLoading' = TRUE

ShowProjects(f) ==
    /\ fetches[f].step = "answered"
    /\ projects' = fetches[f].list /\ isLoading' = FALSE
    /\ stale' = fetches[f].crossed
    /\ fetches' = [fetches EXCEPT ![f] = NoCall]
    /\ UNCHANGED <<apiVars, edits, triggers, screenVars>>

FailFetch(f) ==
    /\ fetches[f].step # "idle"
    /\ isLoading' = FALSE
    /\ fetches' = [fetches EXCEPT ![f] = NoCall]
    /\ UNCHANGED <<apiVars, edits, triggers, projects, stale, screenVars>>

(* router.push: the wizard is gone, and what it waits for reaches only the *)
(* store, or nobody; the list fetches as it appears.                       *)
Unlocal(calls) == [e \in Edits |-> [calls[e] EXCEPT !.local = FALSE]]

GoToList(under) ==
    /\ screen' = "list" /\ detail' = 0 /\ wizard' = NewWizard /\ strayed' = FALSE
    /\ edits' = Unlocal(under) /\ triggers' = NoTriggers
    /\ FetchProjects(under)

(* createProject has its answer, and so has handleNameContinue, if the     *)
(* wizard that called it is still there.                                   *)
EndCreate(e) ==
    /\ edits[e].kind = "create" /\ edits[e].step = "done" /\ edits[e].heard
    /\ projects' = <<edits[e].id>> \o projects /\ isLoading' = FALSE
    /\ wizard' = IF edits[e].local
                 THEN [wizard EXCEPT !.created = edits[e].id, !.step = "deploy", !.creating = FALSE]
                 ELSE wizard
    /\ edits' = [edits EXCEPT ![e] = NoEdit]
    /\ UNCHANGED <<apiVars, fetches, triggers, stale, screen, detail, strayed>>

(* deleteProject, and handleDelete, which goes to the list from wherever   *)
(* the user is by now.                                                     *)
EndDelete(e) ==
    /\ edits[e].kind = "delete" /\ edits[e].step = "done" /\ edits[e].heard
    /\ projects' = Filter(projects, PageIds \ {edits[e].id})
    /\ \/ /\ screen # "list" /\ GoToList([edits EXCEPT ![e] = NoEdit])
       \/ /\ screen = "list"
          /\ edits' = [edits EXCEPT ![e] = NoEdit] /\ isLoading' = FALSE
          /\ UNCHANGED <<fetches, triggers, screenVars>>
    /\ UNCHANGED <<apiVars, stale>>

(* Refused, or done and the answer lost.                                   *)
FailEdit(e) ==
    /\ edits[e].step \in {"refused", "done"} /\ edits[e].heard
    /\ isLoading' = FALSE /\ stale' = (stale \/ edits[e].acted)
    /\ wizard' = IF edits[e].local THEN [wizard EXCEPT !.creating = FALSE] ELSE wizard
    /\ edits' = [edits EXCEPT ![e] = NoEdit]
    /\ UNCHANGED <<apiVars, fetches, triggers, projects, screen, detail, strayed>>

(* The API is through with a call that a full load has forgotten.          *)
Forget(e) ==
    /\ edits[e].step \in {"refused", "done"} /\ ~edits[e].heard
    /\ edits' = [edits EXCEPT ![e] = NoEdit]
    /\ UNCHANGED <<apiVars, fetches, triggers, storeVars, screenVars>>

-----------------------------------------------------------------------------
(* The screens.                                                            *)

OpenList == screen # "list" /\ GoToList(edits) /\ UNCHANGED <<apiVars, projects, stale>>

OpenWizard ==
    /\ screen = "list" /\ screen' = "new"
    /\ UNCHANGED <<apiVars, callVars, storeVars, detail, wizard, strayed>>

(* navigateToProjectOverview loads the page anew, from the list or when    *)
(* the wizard is through; the project, not in the store, is fetched.       *)
Openable(id) ==
    \/ screen = "list" /\ id \in ToSet(projects)
    \/ screen = "new" /\ wizard.step = "deploy" /\ id = wizard.created
    \/ screen = "detail" /\ id = detail

OpenProject(id) ==
    /\ Openable(id)
    /\ screen' = "detail" /\ detail' = id /\ wizard' = NewWizard /\ strayed' = FALSE
    /\ edits' = [e \in Edits |-> [edits[e] EXCEPT !.heard = FALSE, !.local = FALSE]]
    /\ triggers' = NoTriggers
    /\ fetches' = [f \in Fetches |->
           IF f = AnyOf(Fetches) THEN PagesAsked(Idle(edits) # Edits) ELSE NoCall]
    /\ projects' = <<>> /\ isLoading' = TRUE /\ stale' = TRUE
    /\ UNCHANGED apiVars

(* SettingsTab: one at a time, and only of a project that is shown.        *)
HandleDelete ==
    /\ screen = "detail" /\ detail \in ToSet(projects)
    /\ \A e \in Edits : ~(Live(e) /\ edits[e].heard /\ edits[e].kind = "delete")
    /\ BeginEdit(detail, "delete")
    /\ UNCHANGED screenVars

(* The key Enter is not held back while a project is being created.        *)
HandleNameContinue ==
    /\ screen = "new" /\ wizard.step = "name"
    /\ wizard' = [wizard EXCEPT !.creating = TRUE]
    /\ strayed' = (strayed \/ wizard.creating)
    /\ BeginEdit(0, "create")
    /\ UNCHANGED <<screen, detail>>

Triggering == Idle(triggers) # Triggers

HandleCloudDeploy ==
    /\ screen = "new" /\ wizard.step = "deploy" /\ ~wizard.shown /\ ~wizard.deploying
    /\ wizard' = [wizard EXCEPT !.deploying = TRUE, !.shown = TRUE]
    /\ Idle(triggers) # {}
    /\ triggers' = [triggers EXCEPT ![AnyOf(Idle(triggers))] =
                        [step |-> "asked", page |-> wizard.created]]
    /\ UNCHANGED <<apiVars, fetches, edits, storeVars, screen, detail, strayed>>

BugDeployingAfter == FALSE
DeployingAfter == wizard.deploying

EndTrigger(t) ==
    /\ triggers[t].step \in {"done", "refused"}
    /\ wizard' = IF triggers[t].step = "refused" THEN [wizard EXCEPT !.deploying = FALSE]
                 ELSE [wizard EXCEPT !.active = triggers[t].page, !.over = FALSE,
                                     !.deploying = DeployingAfter]
    /\ triggers' = [triggers EXCEPT ![t] = NoTrigger]
    /\ UNCHANGED <<apiVars, fetches, edits, storeVars, screen, detail, strayed>>

(* The terminal's stream ends, with the build or before (BuildStream).     *)
HandleBuildComplete ==
    /\ screen = "new" /\ wizard.shown /\ wizard.active # 0 /\ wizard.deploying
    /\ wizard' = [wizard EXCEPT !.deploying = FALSE, !.over = TRUE]
    /\ UNCHANGED <<apiVars, callVars, storeVars, screen, detail, strayed>>

(* The arrow, where it does not lead to the list: from the form to the     *)
(* name, and from a build that has not begun to the form.                  *)
StepBack ==
    /\ screen = "new" /\ wizard.step = "deploy"
    /\ \/ ~wizard.shown /\ wizard' = [wizard EXCEPT !.step = "name"]
       \/ /\ wizard.shown /\ wizard.active = 0
          /\ wizard' = [wizard EXCEPT !.shown = FALSE, !.deploying = FALSE]
    /\ strayed' = (strayed \/ Triggering)
    /\ UNCHANGED <<apiVars, callVars, storeVars, screen, detail>>

ConsoleStep ==
    \/ \E f \in Fetches : ShowProjects(f) \/ FailFetch(f)
    \/ \E e \in Edits : EndCreate(e) \/ EndDelete(e) \/ FailEdit(e) \/ Forget(e)
    \/ \E t \in Triggers : EndTrigger(t)
    \/ OpenList \/ OpenWizard \/ \E id \in PageIds : OpenProject(id)
    \/ HandleDelete \/ HandleNameContinue \/ HandleCloudDeploy
    \/ HandleBuildComplete \/ StepBack

ProjectNext == ApiStep \/ ConsoleStep

ProjectSpec == ProjectInit /\ [][ProjectNext]_projectVars

-----------------------------------------------------------------------------
(* The list has each page once and nothing else, unless the fetch that it  *)
(* comes from overlapped a call that makes or deletes one, or the answer   *)
(* of such a call was lost.                                                *)
ListIsTrue ==
    ~stale /\ Idle(edits) = Edits =>
        /\ ToSet(projects) = pageRows
        /\ Len(projects) = Cardinality(pageRows)

(* The spinner does not outlast the calls, though they share one flag.     *)
SpinnerEnds ==
    (\A e \in Edits : ~(Live(e) /\ edits[e].heard)) /\ Idle(fetches) = Fetches => ~isLoading

(* No page is without a site that serves it, whatever is left over of its  *)
(* making or its removal.                                                  *)
PagesAreServed == \A p \in pageRows : siteState[p] = "active"

ProjectsAreTrue == ListIsTrue /\ SpinnerEnds /\ PagesAreServed

(* "Deployment complete": unless its user went back while a build was      *)
(* being started, or asked twice for a project, the wizard follows a build *)
(* of the project it has made, says that it is over only when its log has  *)
(* ended, and waits only for a call that is under way.                     *)
WizardIsTrue ==
    ~strayed =>
        /\ wizard.active # 0 => wizard.active = wizard.created
        /\ wizard.active # 0 /\ ~wizard.deploying => wizard.over
        /\ wizard.step = "deploy" => wizard.created # 0 /\ ~wizard.creating
        /\ wizard.creating => \E e \in Edits : Live(e) /\ edits[e].local
        /\ wizard.deploying /\ wizard.active = 0 => Triggering
===============================================================================
