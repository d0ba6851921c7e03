--------------------------------- MODULE SignIn ---------------------------------
(***************************************************************************)
(* The routes /auth/google, /auth/apple, /auth/register and /auth/login:   *)
(* every request of a client passes the strict limit of RateLimiter, which *)
(* the four share, before a handler looks for the account in Identity.     *)
(* A handler starts as soon as the middleware lets the request through;    *)
(* when Redis fails it starts uncounted.                                   *)
(***************************************************************************)
EXTENDS Identity, Limits

VARIABLES
    now, count, expires, log, split, failed,  \* those of RateLimiter
    counted                                   \* its requests

Limiter == INSTANCE RateLimiter WITH req <- counted

limiterVars == <<now, count, expires, counted, log, split, failed>>

signInVars == <<vars, limiterVars>>

SignInInit == Init /\ Limiter!Init

-----------------------------------------------------------------------------

Outside(r) == req[r] = Idle

Arrive(r) == Outside(r) /\ Limiter!Incr(r) /\ UNCHANGED vars

Admit(r) == Limiter!Answer(r) = "passed" /\ Limiter!Expire(r) /\ SignInRequest(r)

Refuse(r) == Limiter!Answer(r) = "refused" /\ Limiter!Expire(r) /\ UNCHANGED vars

AdmitUncounted(r) ==
    /\ Outside(r)
    /\ Limiter!PipelineFails(r) \/ Limiter!RedisDown(r)
    /\ SignInRequest(r)

\* The routes of the profile and of moderation have limits of their own.
Inside(r) ==
    /\ counted[r] = Limiter!Idle
    /\ Continue(r) \/ ReadUser(r)
    /\ UNCHANGED limiterVars

Elsewhere ==
    \/ Limiter!Tick /\ UNCHANGED vars
    \/ \E a \in Ids : DeleteAccount(a) /\ UNCHANGED limiterVars

SignInNext ==
    \/ \E r \in Reqs :
          Arrive(r) \/ Admit(r) \/ Refuse(r) \/ AdmitUncounted(r) \/ Inside(r)
    \/ Elsewhere

SignInSpec == SignInInit /\ [][SignInNext]_signInVars

-----------------------------------------------------------------------------
(* Properties *)

\* "Use Redis MULTI for atomic increment + TTL": as long as nothing comes
\* between the two commands, no window, wherever it begins, holds more counted
\* requests than the limit.
AtMostLimit == Limiter!AtMostLimit

\* As long as Redis does not fail either, only a client that does not pause is
\* refused.
RefusedWhenBusy == Limiter!RefusedWhenBusy
=============================================================================
