----------------------------- MODULE Fetcher -----------------------------
(***************************************************************************)
(* A remote resource (a subscription or a rule set) kept in memory and in  *)
(* a file: component/resource/fetcher.go (Initial, Update, loadBuf,        *)
(* pullLoop) over the HTTP vehicle of vehicle.go, whose conditional        *)
(* requests use the ETag that component/profile/cachefile/etag.go keeps in *)
(* the database.                                                           *)
(*                                                                         *)
(* The pull loop and the API call Update at the same time; only loadBuf is *)
(* under a mutex, so a call may load an answer that another call has since *)
(* overtaken.  Requests and writes of the file fail, and the process dies  *)
(* between any two steps and starts again from the file.                   *)
(*                                                                         *)
(* A content stands for its hash and for the ETag the server gives it.     *)
(* The timer and its backoff only say when the loop calls Update again,    *)
(* which is any time here.  The file vehicle and Close are left out.       *)
(***************************************************************************)
EXTENDS Integers

CONSTANTS
    Published,   \* the contents the server publishes, one after the other
    Rejected,    \* those of them that the parser rejects
    Bundle,      \* the bundled file, or None
    Callers,     \* who calls Update; "pull" is the loop
    MaxCrash,    \* bound on the crashes
    Cut,         \* a truncated file that still parses
    Broken,      \* a truncated file that does not
    None

VARIABLES
    remote,      \* how many contents the server has published
    file,        \* the content of the file, None when there is none
    etag,        \* the content of the database's hash and ETag
    hash,        \* Fetcher.hash
    served,      \* what onUpdate was last given
    mux,         \* the holder of loadBufMutex
    call,        \* the call of each caller
    crashes      \* crashes so far

vars == <<remote, file, etag, hash, served, mux, call, crashes>>

\* The content at the URL now.
Remote == Published[remote]

Parses(x) == x \notin Rejected \cup {Broken, None}

\* A call: where it is, the body of the answer, a hash (first the one Update
\* was called with, then the one its conditional request stands for, then
\* the answer's), and where loadBuf returns on an error.
Idle == [pc |-> "idle", buf |-> None, hash |-> None, fail |-> "idle"]

\* Initial runs before the pull loop, in the same place: the local file
\* first.  The API may call Update meanwhile.
Starting == [c \in Callers |->
    IF c = "pull" THEN [Idle EXCEPT !.pc = "file"] ELSE Idle]

Init ==
    /\ remote = 1
    /\ file = None
    /\ etag = None
    /\ hash = None
    /\ served = None
    /\ mux = None
    /\ call = Starting
    /\ crashes = 0

\* The server publishes its next content.
Publish ==
    /\ remote + 1 \in DOMAIN Published
    /\ remote' = remote + 1
    /\ UNCHANGED <<file, etag, hash, served, mux, call, crashes>>

---------------------------------------------------------------------------
\* Initial.

\* The load of a content whose hash was computed here; on an error Initial
\* goes on with the next source.
Load(buf, fail) == [Idle EXCEPT !.pc = "load", !.buf = buf, !.hash = buf,
                                !.fail = fail]

\* The local file is loaded without being written again.
ReadFile ==
    /\ call["pull"].pc = "file"
    /\ call' = [call EXCEPT !["pull"] =
         IF file # None THEN [Load(file, "bundle") EXCEPT !.pc = "loadfile"]
         ELSE [Idle EXCEPT !.pc = "bundle"]]
    /\ UNCHANGED <<remote, file, etag, hash, served, mux, crashes>>

\* The bundled file next; then the remote, and the loop starts even when
\* that Update fails.
ReadBundle ==
    /\ call["pull"].pc = "bundle"
    /\ call' = [call EXCEPT !["pull"] =
         IF Bundle # None THEN Load(Bundle, "idle") ELSE Idle]
    /\ UNCHANGED <<remote, file, etag, hash, served, mux, crashes>>

---------------------------------------------------------------------------
\* Update: HTTPVehicle.Read.

\* Mutant: the hash kept beside the ETag is not compared.
ConditionAny(old) == etag

\* The conditional request names the ETag of the content held, only when
\* the database's hash is the one of that content.
Condition(old) == IF old # None /\ old = etag THEN etag ELSE None

\* Update begins: the pull loop's timer, or the API.  It reads f.hash
\* without the mutex ...
Update(c) ==
    /\ call[c].pc = "idle"
    /\ call' = [call EXCEPT ![c] = [Idle EXCEPT !.pc = "ask", !.hash = hash]]
    /\ UNCHANGED <<remote, file, etag, hash, served, mux, crashes>>

\* ... and then the ETag from the database.
Ask(c) ==
    /\ call[c].pc = "ask"
    /\ call' = [call EXCEPT ![c].pc = "asked", ![c].hash = Condition(call[c].hash)]
    /\ UNCHANGED <<remote, file, etag, hash, served, mux, crashes>>

\* The server answers 304, for the content held and with no body, or 200
\* with the content.
Answer(c) ==
    /\ call[c].pc = "asked"
    /\ call' = [call EXCEPT ![c] =
         IF call[c].hash = Remote THEN [call[c] EXCEPT !.pc = "load"]
         ELSE [Load(Remote, "idle") EXCEPT !.pc = "etag"]]
    /\ UNCHANGED <<remote, file, etag, hash, served, mux, crashes>>

\* The request fails: one more attempt for the backoff.
AnswerFails(c) ==
    /\ call[c].pc = "asked"
    /\ call' = [call EXCEPT ![c] = Idle]
    /\ UNCHANGED <<remote, file, etag, hash, served, mux, crashes>>

\* SetETagWithHash, before the content has been parsed or written.
SetETag(c) ==
    /\ call[c].pc = "etag"
    /\ etag' = call[c].hash
    /\ call' = [call EXCEPT ![c].pc = "load"]
    /\ UNCHANGED <<remote, file, hash, served, mux, crashes>>

---------------------------------------------------------------------------
\* loadBuf.

Ended(c, pc) == call' = [call EXCEPT ![c] = [Idle EXCEPT !.pc = pc]]

\* Under the mutex: nothing to do for the content held, nor for a 304 that
\* another call has overtaken; a content that does not parse is an error.
LoadBuf(c) ==
    LET k == call[c]
    IN  /\ k.pc \in {"load", "loadfile"}
        /\ mux = None
        /\ \/ /\ k.hash = hash \/ k.buf = None
              /\ Ended(c, "idle")
              /\ UNCHANGED <<hash, served, mux>>
           \/ /\ k.hash # hash /\ k.buf # None /\ ~Parses(k.buf)
              /\ Ended(c, k.fail)
              /\ UNCHANGED <<hash, served, mux>>
           \/ /\ k.hash # hash /\ Parses(k.buf) /\ k.pc = "loadfile"
              /\ hash' = k.hash /\ served' = k.buf
              /\ Ended(c, "idle")
              /\ UNCHANGED mux
           \/ /\ k.hash # hash /\ Parses(k.buf) /\ k.pc = "load"
              /\ mux' = c
              /\ call' = [call EXCEPT ![c].pc = "write"]
              /\ UNCHANGED <<hash, served>>
        /\ UNCHANGED <<remote, file, etag, crashes>>

\* os.WriteFile truncates the file first.
Truncate(c) ==
    /\ call[c].pc = "write"
    /\ file' \in {Cut, Broken}
    /\ call' = [call EXCEPT ![c].pc = "written"]
    /\ UNCHANGED <<remote, etag, hash, served, mux, crashes>>

\* The file is written; the hash is set and onUpdate called.
Written(c) ==
    /\ call[c].pc = "written"
    /\ file' = call[c].buf
    /\ hash' = call[c].hash
    /\ served' = call[c].buf
    /\ mux' = None
    /\ Ended(c, "idle")
    /\ UNCHANGED <<remote, etag, crashes>>

\* The write fails, before or after the truncation: the file stays as it is,
\* hash and content too.
WriteFails(c) ==
    /\ call[c].pc \in {"write", "written"}
    /\ mux' = None
    /\ Ended(c, call[c].fail)
    /\ UNCHANGED <<remote, file, etag, hash, served, crashes>>

---------------------------------------------------------------------------
\* The process dies; the file and the database stay.  It starts again.
Crash ==
    /\ crashes < MaxCrash
    /\ crashes' = crashes + 1
    /\ hash' = None /\ served' = None /\ mux' = None
    /\ call' = Starting
    /\ UNCHANGED <<remote, file, etag>>

Next ==
    \/ Publish \/ ReadFile \/ ReadBundle \/ Crash
    \/ \E c \in Callers :
         \/ Update(c) \/ Ask(c) \/ Answer(c) \/ AnswerFails(c) \/ SetETag(c)
         \/ LoadBuf(c) \/ Truncate(c) \/ Written(c) \/ WriteFails(c)

\* The loop's timer always fires again, its requests and writes do not fail
\* for ever, it gets the mutex, and a goroutine that can go on does.
Fairness ==
    /\ WF_vars(ReadFile) /\ WF_vars(ReadBundle) /\ WF_vars(Update("pull"))
    /\ SF_vars(Answer("pull")) /\ SF_vars(LoadBuf("pull"))
    /\ SF_vars(Truncate("pull")) /\ SF_vars(Written("pull"))
    /\ \A c \in Callers :
         /\ WF_vars(Ask(c)) /\ WF_vars(SetETag(c)) /\ WF_vars(LoadBuf(c)) /\ WF_vars(Truncate(c))
         /\ WF_vars(AnswerFails(c) \/ Answer(c))
         /\ WF_vars(WriteFails(c) \/ Written(c))

Spec == Init /\ [][Next]_vars /\ Fairness

---------------------------------------------------------------------------
\* The server publishes something new only so often.  Then the content in
\* memory becomes the published one, if that parses, and stays it: no order
\* of the answers of concurrent calls, no crash between the write of the
\* ETag and that of the file, no failed write and no truncated file leaves
\* Update with a 304 for a content the process does not hold.
Converges == <>[]Parses(Remote) => <>[](served = Remote /\ hash = Remote)
===========================================================================
