-------------------------------- MODULE Usage --------------------------------
(***************************************************************************)
(* How much a site has been used, as the console shows it.  getPageUsage   *)
(* adds what the row in PostgreSQL holds to what is still in the hash in   *)
(* Redis, in two reads; the flusher of Analytics moves counts from the one *)
(* to the other meanwhile.  A view of the console (the summary, the usage  *)
(* and the analytics tab share the code) loads it when it is opened, every *)
(* few seconds, and when asked to, and shows the answer that comes last.   *)
(***************************************************************************)
EXTENDS Analytics

CONSTANTS
    Loads,      \* calls of loadUsage that may be under way at once
    Views       \* views that may be open: "summary", "tab"

ASSUME UsageConstants == Loads # {} /\ Views \subseteq {"summary", "tab"}

VARIABLES
    view,       \* the view that is open
    call,       \* each call: where it is and what it has read
    usage,      \* what the view shows: one reading, or none yet
    loadingUsage, \* the spinner of a first load
    refreshing, \* the spinner of a refresh
    complaint   \* an error is shown

usageVars == <<view, call, usage, loadingUsage, refreshing, complaint>>

(* Of a reading: the sum, and between what it should lie.                  *)
Reading == [used : Nat, low : Int, high : Nat]
CallSteps == {"idle", "sent", "flushed", "answered"}
IdleLoad == [step |-> "idle", quiet |-> FALSE, first |-> 0, twice |-> 0, moved |-> 0,
             answer |-> {}]

UsageTypeOK ==
    /\ view \in Views
    /\ \A l \in Loads :
          /\ call[l].step \in CallSteps /\ call[l].quiet \in BOOLEAN
          /\ call[l].first \in Nat /\ call[l].twice \in Nat /\ call[l].moved \in Int
          /\ call[l].answer \subseteq Reading
    /\ usage \subseteq Reading
    /\ loadingUsage \in BOOLEAN /\ refreshing \in BOOLEAN /\ complaint \in BOOLEAN

First(set) == CHOOSE l \in set : TRUE

UsageInit ==
    /\ view \in Views
    /\ call = [l \in Loads |-> IF l = First(Loads) THEN [IdleLoad EXCEPT !.step = "sent"] ELSE IdleLoad]
    /\ usage = {}
    /\ loadingUsage = TRUE /\ refreshing = FALSE /\ complaint = FALSE

-----------------------------------------------------------------------------
(* Requests counted in the hash so far, and of these what resets have      *)
(* taken out of it again.                                                  *)
Counted == accepted - channel - taken - missed["requests"]
Moved == Counted - statsHash["requests"]

Under(l) == call[l].step # "idle"

(* loadUsage: when the view is opened; quietly when the interval has       *)
(* passed, or by a tab's button; by the summary's button, or the one that  *)
(* a tab shows with an error.                                              *)
StartLoad(l, quiet) ==
    /\ ~Under(l) /\ l = First({k \in Loads : ~Under(k)})
    /\ ~quiet => IF view = "summary" THEN ~loadingUsage ELSE ~loadingUsage /\ (complaint \/ usage = {})
    /\ call' = [call EXCEPT ![l] = [IdleLoad EXCEPT !.step = "sent", !.quiet = quiet]]
    /\ loadingUsage' = (loadingUsage \/ ~quiet)
    /\ refreshing' = (refreshing \/ (quiet /\ view # "summary"))
    /\ complaint' = FALSE
    /\ UNCHANGED <<view, usage>>

(* The sum over the flushed days is read first, the hash of the day after. *)
BugReads == <<statsHash["requests"], db["requests"]>>
Reads == <<db["requests"], statsHash["requests"]>>

ReadFlushed(l) ==
    /\ call[l].step = "sent"
    /\ call' = [call EXCEPT ![l].step = "flushed", ![l].first = Reads[1],
                            ![l].twice = Twice("requests"),
                            ![l].moved = Moved - lost["requests"]]
    /\ UNCHANGED <<view, usage, loadingUsage, refreshing, complaint>>

(* used: requests.flushed plus requests.live.                              *)
Total(l) == call[l].first + Reads[2]

ReadLive(l) ==
    /\ call[l].step = "flushed"
    /\ call' = [call EXCEPT ![l] =
                   [IdleLoad EXCEPT !.step = "answered", !.quiet = call[l].quiet,
                             !.answer = {[used |-> Total(l),
                                          low |-> Counted - (Moved - call[l].moved),
                                          high |-> Counted + call[l].twice]}]]
    /\ UNCHANGED <<view, usage, loadingUsage, refreshing, complaint>>

(* Both spinners stop with any call of a tab; the summary's with its own.  *)
Stopped(l) ==
    /\ loadingUsage' = IF view = "summary" /\ call[l].quiet THEN loadingUsage ELSE FALSE
    /\ refreshing' = FALSE
    /\ call' = [call EXCEPT ![l] = IdleLoad]

Show(l) ==
    /\ call[l].step = "answered"
    /\ usage' = call[l].answer
    /\ Stopped(l)
    /\ UNCHANGED <<view, complaint>>

(* The network, a database, or a page that is gone.                        *)
FailLoad(l) ==
    /\ Under(l)
    /\ complaint' = (complaint \/ (view = "tab" /\ ~call[l].quiet))
    /\ Stopped(l)
    /\ UNCHANGED <<view, usage>>

LoadStep(l) ==
    \/ \E quiet \in BOOLEAN : StartLoad(l, quiet)
    \/ ReadFlushed(l) \/ ReadLive(l) \/ Show(l) \/ FailLoad(l)

(* The blob server meanwhile: it runs on, and its calls succeed.           *)
Serve == Record \/ TakeEvent \/ CountRequest \/ CountClass \/ \E u \in Flushers : Flush(u)

UsageNext ==
    \/ Serve /\ UNCHANGED usageVars
    \/ (\E l \in Loads : LoadStep(l)) /\ UNCHANGED analyticsVars

UsageSpec == AnalyticsInit /\ UsageInit /\ [][UsageNext]_<<analyticsVars, usageVars>>

-----------------------------------------------------------------------------
(* "Live: pending flush; Flushed: site_daily_stats": the sum misses at     *)
(* most what was moved to the row between the two reads (and what resets   *)
(* have lost before), and has at most twice what a flush half done at the  *)
(* first read was moving.                                                  *)
NearlyAll == \A u \in usage : u.low <= u.used /\ u.used <= u.high

(* No spinner turns without a call under way.                              *)
SpinnersStop == (\A l \in Loads : ~Under(l)) => ~loadingUsage /\ ~refreshing

UsageIsNear == NearlyAll /\ SpinnersStop
==============================================================================
