----------------------------- MODULE XrayWorker -----------------------------
(***************************************************************************)
(* One carrier of adapter/outbound/xraymux/client.go and the sessions that *)
(* are multiplexed on it: the New/Keep/End frames they write, the first    *)
(* payload timer, the read loop that delivers the peer's frames, and the   *)
(* two sync.Once bodies (session.finishWithCause and worker.close) that    *)
(* end sessions and the carrier.  How callers get a carrier is XrayPool.   *)
(*                                                                         *)
(* A once body is a stage variable: its step is taken by whichever         *)
(* goroutine entered it, and every other call of the same once waits for   *)
(* the stage "done".                                                       *)
(***************************************************************************)
EXTENDS Integers, Sequences, FiniteSets

CONSTANTS
    Sessions,   \* session ids the worker may hand out
    Packets,    \* the sessions of DialUDPContext/ListenPacketContext
    None,
    MaxUses,    \* w.maxUses
    EagerModes, \* whether firstPayloadTimeout <= 0: TRUE, FALSE or both to choose from
    Reliable,   \* the physical connection never fails and the peer is correct
    PipeLimit,  \* chunks that fit a session's pipe (or packets channel)
    MaxWrites,  \* bound: application writes on the carrier
    MaxFrames   \* bound: frames the peer sends on the carrier

VARIABLES
    budget,   \* the writes and frames still to come within the bounds
    carrier,  \* the worker struct
    session,  \* the session structs and their application
    reader    \* the readLoop goroutine
vars == <<budget, carrier, session, reader>>

\* why: ghost, which kind of caller got into closeOnce first.
Reasons == {"pool", "idle", "retire", "carrier", "session"}
CarrierState == [
    sessions : SUBSET Sessions,          \* the map
    total : Nat,
    eager : BOOLEAN,                     \* the pool has no firstPayloadTimeout
    up : BOOLEAN,                        \* writes on the connection succeed
    idle : BOOLEAN,                      \* idleTimer is armed
    fired : BOOLEAN,                     \* the goroutine of an idleTimer
    doomed : BOOLEAN,                    \* the goroutine openSession starts on failure
    close : {"no", "finishing", "done"}, \* the closeOnce body; closed from its start on
    snap : SUBSET Sessions,              \* sessions close has still to finish
    current : Sessions \cup {None},      \* the one it is waiting for
    why : Reasons \cup {"open"}]

Stages == {"no", "stop", "end", "mark", "remove", "retire", "done"}
SessionState == [
    st : {"none", "reserved", "open", "abandon", "failed"},
    newSent : BOOLEAN,
    newClosed : BOOLEAN,
    timer : {"off", "armed", "fired", "closed", "failed"},  \* firstPayloadTimer, its goroutine
    fin : Stages,                                  \* the body of s.once
    ender : {"nobody", "app", "remote", "carrier", "abandon"},  \* who entered it
    done : BOOLEAN,                                \* s.done is closed, the pipe too
    app : {"idle", "new", "keep", "closed", "failed"},      \* the goroutine in Write or WriteTo
    up : Seq({"New", "Keep", "End"}),              \* frames the carrier took for this id
    recv : 0..MaxFrames,                           \* data frames readLoop took for it
    pipe : 0..PipeLimit,                           \* chunks buffered for Read
    read : 0..MaxFrames,                           \* chunks Read returned
    eof : BOOLEAN]                                 \* Read returned EOF or the cause

ReaderState == [
    pc : {"read", "deliver", "finish", "kill", "exit"},
    s : Sessions \cup {None},
    data : BOOLEAN,                                \* the frame carries a payload
    end : BOOLEAN]                                 \* its status is End, or it has optionError

TypeOK ==
    /\ budget \in [writes : 0..MaxWrites, frames : 0..MaxFrames]
    /\ carrier \in CarrierState
    /\ session \in [Sessions -> SessionState]
    /\ reader \in ReaderState

NewSession == [st |-> "none", newSent |-> FALSE, newClosed |-> FALSE, timer |-> "off",
               fin |-> "no", ender |-> "nobody", done |-> FALSE, app |-> "idle",
               up |-> <<>>, recv |-> 0, pipe |-> 0, read |-> 0, eof |-> FALSE]
Reading == [pc |-> "read", s |-> None, data |-> FALSE, end |-> FALSE]

\* newWorker
Init ==
    /\ budget = [writes |-> MaxWrites, frames |-> MaxFrames]
    /\ \E eager \in EagerModes :
          carrier = [sessions |-> {}, total |-> 0, eager |-> eager, up |-> TRUE,
                     idle |-> FALSE, fired |-> FALSE, doomed |-> FALSE,
                     close |-> "no", snap |-> {}, current |-> None, why |-> "open"]
    /\ session = [s \in Sessions |-> NewSession]
    /\ reader = Reading

-----------------------------------------------------------------------------
(* Opening a session and writing *)

Closed == carrier.close # "no"

\* The physical connection breaks: every later write on it fails.
Break ==
    /\ ~Reliable /\ carrier.up
    /\ carrier' = [carrier EXCEPT !.up = FALSE]
    /\ UNCHANGED <<budget, session, reader>>

\* worker.reserve
Reserve(s) ==
    /\ session[s].st = "none"
    /\ ~Closed /\ carrier.total < MaxUses
    /\ carrier' = [carrier EXCEPT !.sessions = @ \cup {s}, !.total = @ + 1,
                                  !.idle = FALSE]
    /\ session' = [session EXCEPT ![s].st = "reserved"]
    /\ UNCHANGED <<budget, reader>>

Stopped(timer) == IF timer = "armed" THEN "off" ELSE timer

\* writeNewTo, one newMu section: its outcomes, and the session record it leaves.
NewClosed(s) == session[s].newClosed \/ (~session[s].newSent /\ session[s].done)
NewAlready(s) == ~session[s].newClosed /\ session[s].newSent
NewDue(s) == ~NewClosed(s) /\ ~session[s].newSent
SentNew(s) == [session[s] EXCEPT !.newSent = TRUE, !.timer = Stopped(@), !.up = Append(@, "New")]
LostNew(s) == [session[s] EXCEPT !.newSent = TRUE, !.timer = Stopped(@)]

\* openSession and start: an XUDP session waits for its first datagram, a TCP
\* session arms the timer or, without one, writes New at once.
Open(s) ==
    /\ session[s].st = "reserved"
    /\ \/ /\ s \in Packets
          /\ session' = [session EXCEPT ![s].st = "open"]
       \/ /\ s \notin Packets /\ ~carrier.eager
          /\ session' = [session EXCEPT ![s].st = "open", ![s].timer = "armed"]
       \/ /\ s \notin Packets /\ carrier.eager /\ NewDue(s) /\ carrier.up
          /\ session' = [session EXCEPT ![s] = [SentNew(s) EXCEPT !.st = "open"]]
    /\ UNCHANGED <<budget, carrier, reader>>

\* start failed: abandonSession deletes the session from the map ...
OpenFails(s) ==
    /\ session[s].st = "reserved" /\ s \notin Packets /\ carrier.eager
    /\ \/ NewClosed(s) /\ session' = [session EXCEPT ![s].st = "abandon"]
       \/ /\ NewDue(s) /\ ~carrier.up
          /\ session' = [session EXCEPT ![s] = [LostNew(s) EXCEPT !.st = "abandon"]]
    /\ carrier' = [carrier EXCEPT !.sessions = @ \ {s}]
    /\ UNCHANGED <<budget, reader>>

\* Mutant: nobody closes the worker of a failed open.
AbandonOnly(s) ==
    /\ session[s].st = "abandon" /\ session[s].fin \in {"no", "done"}
    /\ session' = [session EXCEPT ![s].st = "failed", ![s].fin = "done", ![s].done = TRUE]
    /\ UNCHANGED <<budget, carrier, reader>>

\* ... runs or waits for s.once, and starts a goroutine that closes w.
Abandon(s) ==
    /\ session[s].st = "abandon" /\ session[s].fin \in {"no", "done"}
    /\ session' = [session EXCEPT ![s].st = "failed", ![s].fin = "done", ![s].done = TRUE,
           ![s].newClosed = TRUE, ![s].timer = Stopped(@),
           ![s].ender = IF @ = "nobody" THEN "abandon" ELSE @]
    /\ carrier' = [carrier EXCEPT !.doomed = TRUE]
    /\ UNCHANGED <<budget, reader>>

\* Write or WriteTo is called and finds s.done open.
WriteCall(s) ==
    /\ session[s].st = "open" /\ session[s].app = "idle"
    /\ ~session[s].done
    /\ budget.writes > 0
    /\ budget' = [budget EXCEPT !.writes = @ - 1]
    /\ session' = [session EXCEPT ![s].app = "new"]
    /\ UNCHANGED <<carrier, reader>>

\* A frame of the Write went out: it returns, or goes on with the next chunk of
\* a long buffer without another look at s.done.
Written(s, r) ==
    \/ session' = [session EXCEPT ![s] = [r EXCEPT !.app = "idle"]] /\ UNCHANGED budget
    \/ /\ budget.writes > 0
       /\ budget' = [budget EXCEPT !.writes = @ - 1]
       /\ session' = [session EXCEPT ![s] = [r EXCEPT !.app = "new"]]

\* Its writeNew: the payload goes into New, or needs a Keep frame, or there is
\* an error, and any error makes it call w.close.
WriteNew(s) ==
    /\ session[s].app = "new"
    /\ \/ /\ NewAlready(s)
          /\ session' = [session EXCEPT ![s].app = "keep"] /\ UNCHANGED budget
       \/ /\ NewClosed(s)
          /\ session' = [session EXCEPT ![s].app = "closed"] /\ UNCHANGED budget
       \/ NewDue(s) /\ carrier.up /\ Written(s, SentNew(s))
       \/ /\ NewDue(s) /\ ~carrier.up
          /\ session' = [session EXCEPT ![s] = [LostNew(s) EXCEPT !.app = "failed"]]
          /\ UNCHANGED budget
    /\ UNCHANGED <<carrier, reader>>

WriteKeep(s) ==
    /\ session[s].app = "keep"
    /\ \/ carrier.up /\ Written(s, [session[s] EXCEPT !.up = Append(@, "Keep")])
       \/ /\ ~carrier.up
          /\ session' = [session EXCEPT ![s].app = "failed"] /\ UNCHANGED budget
    /\ UNCHANGED <<carrier, reader>>

\* w.close returned to the failed Write.
WriteFailed(s) ==
    /\ session[s].app \in {"closed", "failed"} /\ carrier.close = "done"
    /\ session' = [session EXCEPT ![s].app = "idle"]
    /\ UNCHANGED <<budget, carrier, reader>>

\* The first payload timer fires; Stop no longer reaches its goroutine ...
TimerFires(s) ==
    /\ session[s].timer = "armed"
    /\ session' = [session EXCEPT ![s].timer = "fired"]
    /\ UNCHANGED <<budget, carrier, reader>>

\* ... which runs writeNew(nil).
TimerNew(s) ==
    /\ session[s].timer = "fired"
    /\ \/ NewAlready(s) /\ session' = [session EXCEPT ![s].timer = "off"]
       \/ /\ NewClosed(s)
          /\ session' = [session EXCEPT ![s].timer = "closed"]
       \/ /\ NewDue(s) /\ carrier.up
          /\ session' = [session EXCEPT ![s] = [SentNew(s) EXCEPT !.timer = "off"]]
       \/ /\ NewDue(s) /\ ~carrier.up
          /\ session' = [session EXCEPT ![s] = [LostNew(s) EXCEPT !.timer = "failed"]]
    /\ UNCHANGED <<budget, carrier, reader>>

-----------------------------------------------------------------------------
(* finishWithCause: the body of s.once *)

Enter(s, who) == [session[s] EXCEPT !.fin = "stop", !.ender = who]

\* session.Close by the application.
AppClose(s) ==
    /\ session[s].st = "open" /\ session[s].fin = "no"
    /\ session' = [session EXCEPT ![s] = Enter(s, "app")]
    /\ UNCHANGED <<budget, carrier, reader>>

\* Mutant: the timer is stopped but later writes of New are not refused.
FinStopTimerOnly(s) ==
    /\ session[s].fin = "stop"
    /\ session' = [session EXCEPT ![s].fin = "end", ![s].timer = Stopped(@)]
    /\ UNCHANGED <<budget, carrier, reader>>

\* stopFirstPayloadTimer
FinStop(s) ==
    /\ session[s].fin = "stop"
    /\ session' = [session EXCEPT ![s].fin = "end", ![s].newClosed = TRUE,
                                  ![s].timer = Stopped(@)]
    /\ UNCHANGED <<budget, carrier, reader>>

\* Only Close sends End, and ignores a failure.
FinEnd(s) ==
    /\ session[s].fin = "end"
    /\ \/ /\ session[s].ender = "app" /\ carrier.up
          /\ session' = [session EXCEPT ![s].fin = "mark", ![s].up = Append(@, "End")]
       \/ /\ session[s].ender # "app" \/ ~carrier.up
          /\ session' = [session EXCEPT ![s].fin = "mark"]
    /\ UNCHANGED <<budget, carrier, reader>>

\* setTerminalCause, pipe.close (the chunks stay), close(s.done).
FinMark(s) ==
    /\ session[s].fin = "mark"
    /\ session' = [session EXCEPT ![s].fin = "remove", ![s].done = TRUE]
    /\ UNCHANGED <<budget, carrier, reader>>

\* removeSession up to its call of w.close.
FinRemove(s) ==
    LET left == carrier.sessions \ {s}
        shouldClose == carrier.total >= MaxUses /\ left = {}
    IN  /\ session[s].fin = "remove"
        /\ carrier' = [carrier EXCEPT !.sessions = left,
               !.idle = @ \/ (~shouldClose /\ left = {} /\ ~Closed)]
        /\ session' = [session EXCEPT ![s].fin = IF shouldClose THEN "retire" ELSE "done"]
        /\ UNCHANGED <<budget, reader>>

\* That call returned.
FinRetired(s) ==
    /\ session[s].fin = "retire" /\ carrier.close = "done"
    /\ session' = [session EXCEPT ![s].fin = "done"]
    /\ UNCHANGED <<budget, carrier, reader>>

-----------------------------------------------------------------------------
(* worker.close *)

IdleFires ==
    /\ carrier.idle
    /\ carrier' = [carrier EXCEPT !.idle = FALSE, !.fired = TRUE]
    /\ UNCHANGED <<budget, session, reader>>

\* Some goroutine is at a call of w.close.
Wants(why) ==
    \/ why = "pool"
    \/ why = "idle" /\ carrier.fired
    \/ why = "retire" /\ \E s \in Sessions : session[s].fin = "retire"
    \/ why = "carrier" /\ (carrier.doomed \/ reader.pc = "kill")
    \/ why = "carrier" /\ \E s \in Sessions : "failed" \in {session[s].app, session[s].timer}
    \/ why = "session" /\ \E s \in Sessions : "closed" \in {session[s].app, session[s].timer}

\* The closeOnce body: the map is copied and emptied, the connection closed ...
StartClose(why) ==
    /\ ~Closed /\ Wants(why)
    /\ carrier' = [carrier EXCEPT !.close = "finishing", !.snap = carrier.sessions,
                                  !.sessions = {}, !.idle = FALSE, !.up = FALSE, !.why = why]
    /\ UNCHANGED <<budget, session, reader>>

\* ... each session of the copy is finished in turn ...
CloseFinish(s) ==
    /\ carrier.close = "finishing" /\ carrier.current = None /\ s \in carrier.snap
    /\ carrier' = [carrier EXCEPT !.current = s]
    /\ session' = IF session[s].fin = "no" THEN [session EXCEPT ![s] = Enter(s, "carrier")]
                  ELSE session
    /\ UNCHANGED <<budget, reader>>

CloseFinished ==
    LET s == carrier.current
    IN  /\ s # None /\ session[s].fin = "done"
        /\ carrier' = [carrier EXCEPT !.current = None, !.snap = @ \ {s}]
        /\ UNCHANGED <<budget, session, reader>>

\* Mutant: close waits for the read loop to exit.
CloseReleaseJoins ==
    /\ carrier.close = "finishing" /\ carrier.current = None /\ carrier.snap = {}
    /\ reader.pc = "exit"
    /\ carrier' = [carrier EXCEPT !.close = "done"]
    /\ UNCHANGED <<budget, session, reader>>

\* ... and release runs.
CloseRelease ==
    /\ carrier.close = "finishing" /\ carrier.current = None /\ carrier.snap = {}
    /\ carrier' = [carrier EXCEPT !.close = "done"]
    /\ UNCHANGED <<budget, session, reader>>

-----------------------------------------------------------------------------
(* readLoop, and Read by the application *)

\* A frame of session s arrives and w.sessions is looked up.  A frame with
\* data of a session that is gone is answered with End; any other is dropped.
Receive(s, data, end) ==
    /\ reader.pc = "read" /\ session[s].st # "none"
    /\ budget.frames > 0
    /\ budget' = [budget EXCEPT !.frames = @ - 1]
    /\ \/ /\ s \in carrier.sessions
          /\ reader' = [pc |-> "deliver", s |-> s, data |-> data, end |-> end]
          /\ session' = [session EXCEPT ![s].recv = IF data THEN @ + 1 ELSE @]
       \/ /\ s \notin carrier.sessions
          /\ session' = IF ~end /\ carrier.up THEN [session EXCEPT ![s].up = Append(@, "End")]
                        ELSE session
          /\ UNCHANGED reader
    /\ UNCHANGED carrier

\* Mutant: push drops what does not fit.
DeliverDrops ==
    LET s == reader.s
    IN  /\ reader.pc = "deliver"
        /\ reader' = IF reader.end THEN [reader EXCEPT !.pc = "finish"] ELSE Reading
        /\ session' = IF reader.data /\ session[s].pipe < PipeLimit
                      THEN [session EXCEPT ![s].pipe = @ + 1] ELSE session
        /\ UNCHANGED <<budget, carrier>>
\* deliverFrame: push blocks while the pipe is full, and fails once the
\* session is done; the read loop goes on in that case.
Deliver ==
    LET s == reader.s
        next == IF reader.end THEN [reader EXCEPT !.pc = "finish"] ELSE Reading
    IN  /\ reader.pc = "deliver"
        /\ \/ /\ ~reader.data
              /\ reader' = next /\ UNCHANGED session
           \/ /\ reader.data /\ ~session[s].done /\ session[s].pipe < PipeLimit
              /\ reader' = next
              /\ session' = [session EXCEPT ![s].pipe = @ + 1]
           \/ /\ reader.data /\ session[s].done
              /\ reader' = Reading /\ UNCHANGED session
        /\ UNCHANGED <<budget, carrier>>

\* finishWithCause called by deliverFrame: enter s.once or wait for it.
ReaderFinish ==
    /\ reader.pc = "finish"
    /\ \/ /\ session[reader.s].fin = "no"
          /\ session' = [session EXCEPT ![reader.s] = Enter(reader.s, "remote")]
          /\ UNCHANGED <<budget, reader>>
       \/ /\ session[reader.s].fin = "done"
          /\ reader' = Reading
          /\ UNCHANGED session
    /\ UNCHANGED <<budget, carrier>>

\* A read error or a malformed frame.
ReadFails ==
    /\ reader.pc = "read" /\ (~carrier.up \/ ~Reliable)
    /\ reader' = [reader EXCEPT !.pc = "kill"]
    /\ UNCHANGED <<budget, carrier, session>>

ReaderExit ==
    /\ reader.pc = "kill" /\ carrier.close = "done"
    /\ reader' = [reader EXCEPT !.pc = "exit"]
    /\ UNCHANGED <<budget, carrier, session>>

Read(s) ==
    /\ session[s].st = "open" /\ session[s].ender # "app"
    /\ \/ session[s].pipe > 0 /\ session' = [session EXCEPT ![s].pipe = @ - 1, ![s].read = @ + 1]
       \/ /\ session[s].pipe = 0 /\ session[s].done /\ ~session[s].eof
          /\ session' = [session EXCEPT ![s].eof = TRUE]
    /\ UNCHANGED <<budget, carrier, reader>>

-----------------------------------------------------------------------------

FinishStep(s) == FinStop(s) \/ FinEnd(s) \/ FinMark(s) \/ FinRemove(s) \/ FinRetired(s)
WriteStep(s) == WriteNew(s) \/ WriteKeep(s) \/ WriteFailed(s)
CloseStep ==
    \/ \E why \in Reasons \ {"pool"} : StartClose(why)
    \/ \E s \in Sessions : CloseFinish(s)
    \/ CloseFinished \/ CloseRelease
ReadStep == Deliver \/ ReaderFinish \/ ReaderExit

Next ==
    \/ \E s \in Sessions :
          \/ Reserve(s) \/ Open(s) \/ OpenFails(s) \/ Abandon(s)
          \/ WriteCall(s) \/ WriteStep(s) \/ TimerFires(s) \/ TimerNew(s)
          \/ AppClose(s) \/ FinishStep(s) \/ Read(s)
          \/ \E data, end \in BOOLEAN : Receive(s, data, end)
    \/ Break \/ CloseStep \/ StartClose("pool") \/ IdleFires
    \/ ReadStep \/ ReadFails

Spec == Init /\ [][Next]_vars

\* A started goroutine runs, and an application reads its connection to the
\* end or closes it.
Fairness ==
    /\ \A s \in Sessions :
          /\ WF_vars(Open(s) \/ OpenFails(s)) /\ WF_vars(Abandon(s))
          /\ WF_vars(WriteStep(s)) /\ WF_vars(TimerNew(s)) /\ WF_vars(FinishStep(s))
          /\ WF_vars(Read(s) \/ AppClose(s))
    /\ WF_vars(CloseStep) /\ WF_vars(ReadStep)

FairSpec == Spec /\ Fairness

-----------------------------------------------------------------------------
(* Properties *)

Opened == {s \in Sessions : session[s].st # "none"}

\* New is the first frame of its session or is not sent at all: Write, the
\* first payload timer and Close never send it twice or after End; and data
\* follows New.
NewFirst ==
    \A s \in Sessions : \A i \in DOMAIN session[s].up :
        /\ session[s].up[i] = "New" => i = 1
        /\ session[s].up[i] = "Keep" => session[s].up[1] = "New"

\* When the peer ended the session, the application reads every payload the
\* peer sent before its End, then EOF, however slowly it reads.
NoTruncation ==
    \A s \in Sessions :
        session[s].eof /\ session[s].ender = "remote" => session[s].read = session[s].recv

\* Nothing of a carrier is forgotten.  When worker.close has returned every
\* session that got a slot is done, the one reserved while close began
\* included: no Read waits for ever.  When the sessions are all over the carrier
\* is closed, or a goroutine or the idle timer is going to close it, whatever
\* the order in which they ended, failed to open or retired the carrier.
CarrierAccounted ==
    /\ carrier.close = "done" =>
         \A s \in Opened : session[s].st = "abandon" \/ session[s].done
    /\ Opened # {} /\ (\A s \in Opened : session[s].fin = "done" /\ session[s].st # "abandon")
         => Closed \/ carrier.doomed \/ carrier.idle \/ carrier.fired

\* closeOnce and the once of a session wait for each other.
Wedged ==
    /\ carrier.close = "finishing" /\ carrier.current # None
    /\ session[carrier.current].fin = "retire"

\* Ending a session completes - its Close returns - unless the two onces wait
\* for each other; and the read loop is not held for ever by one session's full
\* pipe: reading or ending that session sets it free.
SessionEnds ==
    /\ \A s \in Sessions : []<>(session[s].fin \in {"no", "done"} \/ Wedged)
    /\ []<>(reader.pc # "deliver")

\* On a working connection only retirement, idleness or Pool.Close close a
\* carrier, never the end of one of its sessions.
SiblingsSurvive == carrier.why # "session"
=============================================================================
