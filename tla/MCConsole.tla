------------------------------- MODULE MCConsole -------------------------------
(***************************************************************************)
(* What a user sets going, side by side: a deploy that is repeated under   *)
(* its key (Idempotency), and in the console the projects and the wizard   *)
(* (Projects), the tabs of files and deployments (DeploymentViews) and the *)
(* views of the usage (Usage); with them the dumps of the database         *)
(* (Backups).  They share no state: a behaviour is one of one part, and    *)
(* leaves the others as they began.                                        *)
(***************************************************************************)
EXTENDS MCIdempotency, Usage, DeploymentViews, Backups, Projects

(* Of a listing: a compressed sibling, files beside folders, folders in    *)
(* folders before and after their files, and parts that are empty.         *)
MCListings ==
    {<<>>,
     <<<<"x.br">>, <<"x">>, <<"a", "b", "x">>, <<"b", "x">>, <<"", "a", "y">>>>,
     <<<<"a", "b", "x">>, <<"a", "x">>, <<"b", "b", "x">>>>,
     <<<<"a", "", "b", "x">>, <<"a", "b", "y">>>>}

(* A bound: while a call that starts a build is under way, no two fetches  *)
(* of the list are.                                                        *)
FetchesApart == triggers # NoTriggers => Idle(fetches) # {}

VARIABLE part

dashboardVars == <<analyticsVars, usageVars>>
Play(name) == part = name /\ UNCHANGED part

ConsoleInit ==
    /\ part \in {"key", "usage", "views", "dumps", "projects"}
    /\ Init
    /\ AnalyticsInit /\ UsageInit /\ (part # "usage" => view = "tab")
    /\ ViewInit /\ (part # "views" => tab = "history")
    /\ BackupInit
    /\ ProjectInit

ConsoleNext ==
    \/ /\ Play("key") /\ Next
       /\ UNCHANGED <<dashboardVars, viewVars, backupVars, projectVars>>
    \/ /\ Play("usage") /\ UsageNext
       /\ UNCHANGED <<vars, viewVars, backupVars, projectVars>>
    \/ /\ Play("views") /\ ViewNext
       /\ UNCHANGED <<vars, dashboardVars, backupVars, projectVars>>
    \/ /\ Play("dumps") /\ BackupNext
       /\ UNCHANGED <<vars, dashboardVars, viewVars, projectVars>>
    \/ /\ Play("projects") /\ ProjectNext /\ FetchesApart'
       /\ UNCHANGED <<vars, dashboardVars, viewVars, backupVars>>

allVars == <<part, vars, dashboardVars, viewVars, backupVars, projectVars>>

ConsoleSpec == ConsoleInit /\ [][ConsoleNext]_allVars
================================================================================
