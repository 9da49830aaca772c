----------------------------- MODULE CatalogHttp -----------------------------
(***************************************************************************)
(* One catalog request on its way through CatalogHttp                      *)
(* (crates/lakehouse-catalog/src/catalog_http.rs): attempts, the read      *)
(* timeout, the waits between attempts and the window that bounds them.    *)
(*                                                                         *)
(* Time is counted in ticks from the first attempt.  A step that takes     *)
(* time moves `now` by its whole duration.  A sleep may end up to          *)
(* MaxOversleep ticks late: the runtime wakes a task at or after its       *)
(* deadline, never before.                                                 *)
(***************************************************************************)
EXTENDS Integers

CONSTANTS
    Attempts,      \* policy.attempts
    ReadTimeout,   \* policy.read_timeout
    RetryWindow,   \* policy.retry_window
    BackoffBase,   \* policy.backoff_base
    Durations,     \* how long an answer's headers or a body part may take
    RetryAfters,   \* waits a Retry-After header may ask for
    MaxOversleep,  \* how late a sleep may end
    MaxParts       \* bound on the parts of one answer body

ASSUME PolicyAssumption ==
    /\ Attempts \in Nat \ {0}
    /\ ReadTimeout \in Nat \ {0}
    /\ RetryWindow \in Nat /\ ReadTimeout <= RetryWindow
    /\ BackoffBase \in Nat
    /\ Durations \subseteq 0 .. ReadTimeout
    /\ RetryAfters \subseteq Nat
    /\ MaxOversleep \in Nat
    /\ MaxParts \in Nat

VARIABLES
    phase,          \* "sending", "reading", "deciding", "returned"
    now,            \* ticks since the first attempt started
    began,          \* when the current attempt was sent
    attempts_made,
    cloneable,      \* request.try_clone() succeeds
    outcome,        \* what the current attempt came to
    stated,         \* the wait its Retry-After header states, or NoWait
    parts           \* parts of the answer body read so far

httpVars == <<phase, now, began, attempts_made, cloneable, outcome, stated, parts>>

NoWait == -1
Statuses == {"settled", "transient"}   \* 408, 429, 502, 503, 504 are transient
Failures == {"transient_failure", "final_failure", "broken_body"}

HttpTypeOK ==
    /\ phase \in {"sending", "reading", "deciding", "returned"}
    /\ now \in Nat
    /\ began \in Nat
    /\ attempts_made \in 1 .. Attempts
    /\ cloneable \in BOOLEAN
    /\ outcome \in Statuses \cup Failures \cup {"none"}
    /\ stated \in RetryAfters \cup {NoWait}
    /\ parts \in 0 .. MaxParts

HttpInit ==
    /\ phase = "sending"
    /\ now = 0
    /\ began = 0
    /\ attempts_made = 1
    /\ cloneable \in BOOLEAN
    /\ outcome = "none"
    /\ stated = NoWait
    /\ parts = 0

-----------------------------------------------------------------------------
(* exchange: send, wait for the headers, read the body                     *)

HeadersArrive(d, status, after) ==
    /\ phase = "sending"
    /\ now' = now + d
    /\ outcome' = status
    /\ stated' = after
    /\ phase' = "reading"
    /\ UNCHANGED <<began, attempts_made, cloneable, parts>>

\* No headers within the read timeout: reqwest's is_timeout.
TimesOut ==
    /\ phase = "sending"
    /\ now' = now + ReadTimeout
    /\ outcome' = "transient_failure"
    /\ stated' = NoWait
    /\ phase' = "deciding"
    /\ UNCHANGED <<began, attempts_made, cloneable, parts>>

\* The connection is refused or cut (transient), or DNS or TLS fails (final).
ConnectionFails(d, failure) ==
    /\ phase = "sending"
    /\ now' = now + d
    /\ outcome' = failure
    /\ stated' = NoWait
    /\ phase' = "deciding"
    /\ UNCHANGED <<began, attempts_made, cloneable, parts>>

BodyPart(d) ==
    /\ phase = "reading"
    /\ parts < MaxParts
    /\ parts' = parts + 1
    /\ now' = now + d
    /\ UNCHANGED <<phase, began, attempts_made, cloneable, outcome, stated>>

\* The body ends, or the byte cap cuts it.
BodyEnds ==
    /\ phase = "reading"
    /\ phase' = "deciding"
    /\ UNCHANGED <<now, began, attempts_made, cloneable, outcome, stated, parts>>

\* The read breaks off: an error that keeps the status and is not transient.
BodyBreaks(d) ==
    /\ phase = "reading"
    /\ now' = now + d
    /\ outcome' = "broken_body"
    /\ stated' = NoWait
    /\ phase' = "deciding"
    /\ UNCHANGED <<began, attempts_made, cloneable, parts>>

-----------------------------------------------------------------------------
(* wait_before_retry                                                       *)

IsTransient(o) == o \in {"transient", "transient_failure"}

Doubling[n \in Nat] == IF n = 0 THEN 1 ELSE 2 * Doubling[n - 1]

\* backoff_wait: anywhere in the upper half of base * 2^(retry - 1).
BackoffWaits(retry) ==
    LET ceiling == BackoffBase * Doubling[retry - 1]
    IN  (ceiling \div 2) .. ceiling

\* The catalog's own wait when it stated one, else a backoff.
Waits(retry) == IF stated # NoWait THEN {stated} ELSE BackoffWaits(retry)

TimeLeft == IF now < RetryWindow THEN RetryWindow - now ELSE 0

\* Mutants: the next attempt's room is not kept free, or one tick too much is.
FitsWithoutRoom(wait) == wait <= TimeLeft
FitsStrictly(wait) == wait <= TimeLeft /\ TimeLeft - wait > ReadTimeout

\* chosen_wait: the wait must leave the next attempt its whole read timeout.
Fits(wait) == wait <= TimeLeft /\ TimeLeft - wait >= ReadTimeout

\* Mutant: the last attempt may be resent too.
OneTooMany == attempts_made <= Attempts /\ cloneable

MayResend == attempts_made < Attempts /\ cloneable

\* Mutant: the attempts are not counted.
RetryUncounted(wait, late) ==
    /\ phase = "deciding"
    /\ MayResend
    /\ IsTransient(outcome)
    /\ Fits(wait)
    /\ now' = now + wait + late
    /\ began' = now + wait + late
    /\ outcome' = "none"
    /\ stated' = NoWait
    /\ parts' = 0
    /\ phase' = "sending"
    /\ UNCHANGED <<attempts_made, cloneable>>

Retry(wait, late) ==
    /\ phase = "deciding"
    /\ MayResend
    /\ IsTransient(outcome)
    /\ Fits(wait)
    /\ now' = now + wait + late
    /\ began' = now + wait + late
    /\ attempts_made' = attempts_made + 1
    /\ outcome' = "none"
    /\ stated' = NoWait
    /\ parts' = 0
    /\ phase' = "sending"
    /\ UNCHANGED <<cloneable>>

\* The one wait drawn for this retry does not fit, or none is due.
GiveUp ==
    /\ phase = "deciding"
    /\ \/ ~MayResend
       \/ ~IsTransient(outcome)
       \/ \E wait \in Waits(attempts_made) : ~Fits(wait)
    /\ phase' = "returned"
    /\ UNCHANGED <<now, began, attempts_made, cloneable, outcome, stated, parts>>

Returned ==
    /\ phase = "returned"
    /\ UNCHANGED httpVars

HttpNext ==
    \/ \E d \in Durations, status \in Statuses, after \in RetryAfters \cup {NoWait} :
         HeadersArrive(d, status, after)
    \/ TimesOut
    \/ \E d \in Durations, failure \in {"transient_failure", "final_failure"} :
         ConnectionFails(d, failure)
    \/ \E d \in Durations : BodyPart(d) \/ BodyBreaks(d)
    \/ BodyEnds
    \/ \E wait \in Waits(attempts_made), late \in 0 .. MaxOversleep : Retry(wait, late)
    \/ GiveUp
    \/ Returned

HttpSpec == HttpInit /\ [][HttpNext]_httpVars

\* The client's timeouts end every wait for the network, and the runtime's
\* timer ends every sleep.
HttpFairSpec == HttpSpec /\ WF_httpVars(HttpNext)

-----------------------------------------------------------------------------
\* "No retry starts unless its answer's headers are due within this time after
\* the first attempt started" (RetryPolicy::retry_window), up to a late timer.
RetriesDueInWindow ==
    attempts_made > 1 => began + ReadTimeout <= RetryWindow + MaxOversleep

\* What the caller gets is the last attempt's outcome, and a transient one only
\* when the attempts, the clone or the window ran out.
ReturnedIsFinal ==
    phase = "returned" =>
        /\ outcome # "none"
        /\ IsTransient(outcome) /\ MayResend =>
             now + ReadTimeout + (IF stated # NoWait THEN stated
                                  ELSE BackoffBase * Doubling[attempts_made - 1])
               > RetryWindow

\* Every request returns.
EveryRequestReturns == <>(phase = "returned")
=============================================================================
