------------------------------ MODULE RateLimiter ------------------------------
(***************************************************************************)
(* The rate limiter (middleware/rate_limiter.go) for one client and one    *)
(* limit.  A request increments the client's counter in Redis, which       *)
(* creates it when it is missing, sets the counter to expire one window    *)
(* later and passes when the value it read is at most the maximum.         *)
(*                                                                         *)
(* The two commands travel in one pipeline, not in a transaction: time and *)
(* other requests may come between them.  When the pipeline reports an     *)
(* error the request passes uncounted.                                     *)
(***************************************************************************)
EXTENDS Limits, Integers, Sequences, FiniteSets

CONSTANT Reqs  \* requests that may be in progress

VARIABLES
    now,      \* the time
    count,    \* the counter, 0 when the key is missing
    expires,  \* when the key expires, None when it has no expiry
    req,      \* the requests: when each was counted, and as which
    log,      \* history: the requests that were answered
    split,    \* history: something came between the commands of a pipeline
    failed    \* history: Redis failed

vars == <<now, count, expires, req, log, split, failed>>

Idle == [at |-> None, value |-> 0]

Answers == {"passed", "refused", "uncounted"}

TypeOK ==
    /\ now \in 0 .. MaxTime
    /\ count \in 0 .. MaxRequests
    /\ expires \in Nat \cup {None}
    /\ count = 0 => expires = None
    /\ req \in [Reqs -> [at : 0 .. MaxTime \cup {None}, value : 0 .. MaxRequests]]
    /\ log \in Seq([at : 0 .. MaxTime, answer : Answers])
    /\ split \in BOOLEAN /\ failed \in BOOLEAN

Init ==
    /\ now = 0
    /\ count = 0 /\ expires = None
    /\ req = [r \in Reqs |-> Idle]
    /\ log = <<>>
    /\ split = FALSE /\ failed = FALSE

InProgress == {r \in Reqs : req[r] # Idle}

\* This step comes between the commands of the pipelines in progress.
Intervenes == split' = (split \/ InProgress # {})

-----------------------------------------------------------------------------

Incr(r) ==
    /\ req[r] = Idle
    /\ Len(log) + Cardinality(InProgress) < MaxRequests
    /\ Intervenes
    /\ count' = count + 1
    /\ req' = [req EXCEPT ![r] = [at |-> now, value |-> count + 1]]
    /\ UNCHANGED <<now, expires, log, failed>>

\* Mutant: every limit is off by one.
AnswerLate(r) == IF req[r].value > Limit + 1 THEN "refused" ELSE "passed"

\* Mutant: the limit itself is refused.
AnswerEarly(r) == IF req[r].value >= Limit THEN "refused" ELSE "passed"

Answer(r) == IF req[r].value > Limit THEN "refused" ELSE "passed"

Answered(r, answer) ==
    /\ log' = Append(log, [at |-> req[r].at, answer |-> answer])
    /\ req' = [req EXCEPT ![r] = Idle]

\* EXPIRE does nothing when the key is missing.
Renewed == IF count = 0 THEN None ELSE now + Window

Expire(r) ==
    /\ req[r] # Idle
    /\ expires' = Renewed
    /\ Answered(r, Answer(r))
    /\ UNCHANGED <<now, count, split, failed>>

\* The connection is lost after the first command or before the last answer.
PipelineFails(r) ==
    /\ req[r] # Idle
    /\ expires' \in {expires, Renewed}
    /\ Answered(r, "uncounted")
    /\ failed' = TRUE
    /\ UNCHANGED <<now, count, split>>

RedisDown(r) ==
    /\ req[r] = Idle
    /\ Len(log) + Cardinality(InProgress) < MaxRequests
    /\ log' = Append(log, [at |-> now, answer |-> "uncounted"])
    /\ failed' = TRUE
    /\ UNCHANGED <<now, count, expires, req, split>>

Tick ==
    /\ now < MaxTime
    /\ Intervenes
    /\ now' = now + 1
    /\ IF expires = now + 1 THEN count' = 0 /\ expires' = None
       ELSE UNCHANGED <<count, expires>>
    /\ UNCHANGED <<req, log, failed>>

Next ==
    \/ \E r \in Reqs : Incr(r) \/ Expire(r) \/ PipelineFails(r) \/ RedisDown(r)
    \/ Tick

Spec == Init /\ [][Next]_vars

-----------------------------------------------------------------------------
(* Properties *)

\* "Use Redis MULTI for atomic increment + TTL": as long as nothing comes
\* between the two commands, no window, wherever it begins, holds more counted
\* requests than the limit.
AtMostLimit ==
    ~split => \A t \in 0 .. MaxTime :
        Cardinality({i \in DOMAIN log :
            log[i].answer = "passed" /\ log[i].at \in t - Window + 1 .. t}) <= Limit

\* As long as Redis does not fail either, only a client that does not pause is
\* refused: as many requests as the limit came before, each less than a window
\* after the one before it.
RefusedWhenBusy ==
    ~split /\ ~failed => \A i \in DOMAIN log :
        log[i].answer = "refused" =>
            /\ i > Limit
            /\ \A j \in i - Limit + 1 .. i : log[j].at - log[j - 1].at < Window
=============================================================================
