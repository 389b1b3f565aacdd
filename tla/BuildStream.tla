----------------------------- MODULE BuildStream -----------------------------
(***************************************************************************)
(* The log of one build on its way to the console: the worker writes log   *)
(* lines and the build's row, the API polls both and sends events, the     *)
(* network cuts the bytes where it likes, the console puts them together.  *)
(*                                                                         *)
(* Progress and status events change nothing here and are left out.        *)
(***************************************************************************)
EXTENDS Integers, FiniteSetsExt, Lists

CONSTANTS
    MaxLines,   \* bound: lines of the log
    Polls       \* polls that may be under way at once; one if each takes
                \* less than the second between them

ASSUME StreamAssumption == MaxLines \in Nat

(* What travels: line feeds, the "data:" of an event, and its payload.     *)
LF == 0
DATA == -1
Lines == 1..MaxLines
DoneOk == MaxLines + 1        \* done: completed
DoneOkError == MaxLines + 2   \* done: completed, with an error left in the row
DoneFailed == MaxLines + 3    \* done: failed, with its error
Broken == MaxLines + 4        \* error: the poll has thrown

Nothing == [status |-> "queued", error |-> FALSE]

VARIABLES
    written,    \* lines in the log of the job
    build,      \* the row: status, and whether error is set
    hasJob,     \* the row has the id of the job
    stream,     \* the response: not asked for, open, or how it has ended
    sent,       \* lastLogIndex
    poll,       \* [Polls -> step, the row it has read, the lines it has got]
    wire,       \* bytes on their way
    buffer,     \* bytes the console has and has not used
    shown,      \* the lines the console shows
    over        \* what it says at the end: "", "Complete" or "Failed"

streamVars == <<written, build, hasJob, stream, sent, poll, wire, buffer, shown, over>>

StreamTypeOK ==
    /\ written \in 0..MaxLines
    /\ build \in [status : {"queued", "completed", "failed"}, error : BOOLEAN]
    /\ hasJob \in BOOLEAN
    /\ stream \in {"closed", "open", "answered", "ended", "cut"}
    /\ sent \in Nat
    /\ \A p \in Polls : poll[p].step \in {"idle", "logs", "send", "finish"}
    /\ wire \in Seq(-1..Broken) /\ buffer \in Seq(-1..Broken)
    /\ shown \in Seq(Lines)
    /\ over \in {"", "Complete", "Failed"}

Resting == [step |-> "idle", row |-> Nothing, got |-> <<>>]

StreamInit ==
    /\ written = 0
    /\ build = Nothing
    /\ hasJob \in BOOLEAN
    /\ stream = "closed"
    /\ sent = 0
    /\ poll = [p \in Polls |-> Resting]
    /\ wire = <<>> /\ buffer = <<>>
    /\ shown = <<>> /\ over = ""

-----------------------------------------------------------------------------
(* The worker.  A failed attempt is followed by another, or it is not; the *)
(* last lines of a container may be written after the row says failed.     *)

WriteLine ==
    /\ build.status # "completed" /\ written < MaxLines
    /\ written' = written + 1
    /\ UNCHANGED <<build, hasJob, stream, sent, poll, wire, buffer, shown, over>>

EndAttempt(status) ==
    /\ build.status # "completed"
    /\ build' = [status |-> status, error |-> build.error \/ status = "failed"]
    /\ UNCHANGED <<written, hasJob, stream, sent, poll, wire, buffer, shown, over>>

-----------------------------------------------------------------------------
(* getBuildLogsSSEHandler                                                  *)

BugTerminal(entry) == entry.status = "completed"
Terminal(entry) == entry.status \in {"completed", "failed"}

Event(payload) == <<DATA, payload, LF, LF>>
Events(payloads) ==
    [i \in 1..4 * Len(payloads) |-> Event(payloads[(i + 3) \div 4])[((i + 3) % 4) + 1]]

Done(entry) ==
    Event(IF entry.status = "failed" THEN DoneFailed
          ELSE IF entry.error THEN DoneOkError ELSE DoneOk)

(* A build that has ended is answered at once, without its log.            *)
Open ==
    /\ stream = "closed"
    /\ IF Terminal(build)
       THEN stream' = "answered" /\ wire' = Done(build)
       ELSE stream' = "open" /\ UNCHANGED wire
    /\ UNCHANGED <<written, build, hasJob, sent, poll, buffer, shown, over>>

(* The row is read before the log: a row that says completed vouches for   *)
(* the lines read after it.                                                *)
ReadRow(p) ==
    /\ stream = "open" /\ poll[p].step = "idle"
    /\ poll' = [poll EXCEPT ![p] = [Resting EXCEPT !.step = "logs", !.row = build]]
    /\ UNCHANGED <<written, build, hasJob, stream, sent, wire, buffer, shown, over>>

ReadLogs(p) ==
    /\ poll[p].step = "logs"
    /\ poll' = [poll EXCEPT ![p].step = "send",
                            ![p].got = IF hasJob THEN [i \in 1..(written - sent) |-> sent + i]
                                       ELSE <<>>]
    /\ UNCHANGED <<written, build, hasJob, stream, sent, wire, buffer, shown, over>>

Write(bytes) == wire' = IF stream = "open" THEN wire \o bytes ELSE wire

SendLogs(p) ==
    /\ poll[p].step = "send"
    /\ Write(Events(poll[p].got))
    /\ sent' = sent + Len(poll[p].got)
    /\ poll' = [poll EXCEPT ![p].step = "finish"]
    /\ UNCHANGED <<written, build, hasJob, stream, buffer, shown, over>>

EndStream(bytes) ==
    /\ Write(bytes)
    /\ stream' = IF stream = "open" THEN "ended" ELSE stream

FinishPoll(p) ==
    /\ poll[p].step = "finish"
    /\ poll' = [poll EXCEPT ![p] = Resting]
    /\ IF Terminal(poll[p].row) THEN EndStream(Done(poll[p].row))
                                ELSE UNCHANGED <<wire, stream>>
    /\ UNCHANGED <<written, build, hasJob, sent, buffer, shown, over>>

(* A query or a call to the queue throws.                                  *)
FailPoll(p) ==
    /\ poll[p].step # "idle"
    /\ poll' = [poll EXCEPT ![p] = Resting]
    /\ EndStream(Event(Broken))
    /\ UNCHANGED <<written, build, hasJob, sent, buffer, shown, over>>

(* A proxy or the API's end cuts the response.                             *)
Cut ==
    /\ stream = "open"
    /\ stream' = "cut"
    /\ UNCHANGED <<written, build, hasJob, sent, poll, wire, buffer, shown, over>>

-----------------------------------------------------------------------------
(* parseSseStream and the terminal of the console                          *)

Boundaries(s) == {i \in 1..(Len(s) - 1) : s[i] = LF /\ s[i + 1] = LF}

(* lastIndexOf("\n\n"), or 0                                               *)
BugBoundary(s) == Len(s)
Boundary(s) == Max(Boundaries(s) \cup {0})

(* The payloads of the events of a text; a payload without its "data:" in  *)
(* the same text is not found.                                             *)
Payloads(s) == Picked(s, {i \in 2..Len(s) : s[i] > 0 /\ s[i - 1] = DATA})

Ends == {DoneOk, DoneOkError, DoneFailed}
Verdict(payload) == IF payload = DoneOk THEN "Complete" ELSE "Failed"

(* The first done ends it: what follows is dropped.                        *)
ShowEvents(payloads) ==
    LET stops == {i \in DOMAIN payloads : payloads[i] \in Ends}
        used == IF stops = {} THEN payloads ELSE SubSeq(payloads, 1, Min(stops))
        ends == {i \in DOMAIN used : used[i] > MaxLines}
    IN  /\ shown' = shown \o Filter(used, Lines)
        /\ over' = IF ends = {} THEN over ELSE Verdict(used[Max(ends)])

(* A chunk of any length arrives.                                          *)
Receive(n) ==
    LET text == buffer \o SubSeq(wire, 1, n)
    IN  /\ n \in 1..Len(wire) /\ over = ""
        /\ wire' = SubSeq(wire, n + 1, Len(wire))
        /\ IF Boundary(text) = 0
           THEN buffer' = text /\ UNCHANGED <<shown, over>>
           ELSE /\ buffer' = SubSeq(text, Boundary(text), Len(text))
                /\ ShowEvents(Payloads(SubSeq(text, 1, Boundary(text) - 1)))
        /\ UNCHANGED <<written, build, hasJob, stream, sent, poll>>

(* The response has ended and every byte has come: what is left is used.   *)
ReadEnd ==
    /\ stream \in {"answered", "ended", "cut"} /\ wire = <<>> /\ buffer # <<>>
    /\ buffer' = <<>>
    /\ ShowEvents(Payloads(buffer))
    /\ UNCHANGED <<written, build, hasJob, stream, sent, poll, wire>>

-----------------------------------------------------------------------------
WorkerStep == WriteLine \/ \E status \in {"completed", "failed"} : EndAttempt(status)

PollStep(p) == ReadRow(p) \/ ReadLogs(p) \/ SendLogs(p) \/ FinishPoll(p) \/ FailPoll(p)

Arrive == (\E n \in 1..Len(wire) : Receive(n)) \/ ReadEnd

StreamNext == WorkerStep \/ Open \/ Cut \/ (\E p \in Polls : PollStep(p)) \/ Arrive

(* The timer fires and its poll runs on; what is sent arrives.             *)
StreamSpec ==
    /\ StreamInit /\ [][StreamNext]_streamVars
    /\ \A p \in Polls : WF_streamVars(PollStep(p))
    /\ WF_streamVars(Arrive)

-----------------------------------------------------------------------------
(* However polls and chunks fall, the console shows the log from its first *)
(* line on, each line once and in order (build.controller's "new log lines *)
(* since last poll", parseSseStream's buffer).                             *)
LinesInOrder == \A i \in DOMAIN shown : shown[i] = i

(* A terminal that followed a build and says Complete shows its whole log. *)
CompleteIsWhole ==
    over = "Complete" /\ hasJob /\ stream = "ended" => Len(shown) = written

(* It says Complete of completed builds only.                              *)
CompleteIsTrue == over = "Complete" => build.status = "completed"

(* What the terminal shows is the log, and how it ended.                   *)
ShowsTheLog == LinesInOrder /\ CompleteIsWhole /\ CompleteIsTrue

(* Once the build has ended, a terminal that is following it says how,     *)
(* unless its stream is cut.                                               *)
EndIsShown ==
    (stream = "open" /\ build.status \in {"completed", "failed"}) ~> (over # "" \/ stream = "cut")
==============================================================================
