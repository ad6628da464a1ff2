--------------------------- MODULE EsploraThrottle ---------------------------
(***************************************************************************)
(* get_with_retry of EsploraSource: requests of one source share a         *)
(* dormancy deadline and a minimum gap between requests.  Each request is  *)
(* a task; tasks interleave at every await, and time passes between any    *)
(* two steps.  A sleep ends at its deadline or later.                      *)
(***************************************************************************)
EXTENDS Naturals, FiniteSets

CONSTANTS
    Task,          \* concurrent requests
    Free,          \* nobody holds the last_req mutex
    MinGap,        \* min_gap_ms
    FirstDelay,    \* first backoff
    DelayCap,      \* longest backoff
    RetryAfter,    \* Retry-After values a server may send
    Attempts,      \* attempts of a request
    MaxTime        \* bound on the clock

ASSUME ThrottleAssumption ==
    /\ MinGap \in Nat /\ FirstDelay \in Nat /\ DelayCap \in Nat
    /\ RetryAfter \subseteq Nat /\ Attempts \in Nat \ {0} /\ Free \notin Task

VARIABLES
    now,       \* the clock
    dormant,   \* dormant_until
    last,      \* last_req
    lock,      \* holder of the last_req mutex
    task       \* task -> [stage, wake, delay, attempt]

throttleVars == <<now, dormant, last, lock, task>>

Greater(m, n) == IF m >= n THEN m ELSE n
Lesser(m, n) == IF m <= n THEN m ELSE n

\* The clock is far past the initial timestamps.
ThrottleInit ==
    /\ now = MinGap
    /\ dormant = 0 /\ last = 0
    /\ lock = Free
    /\ task = [t \in Task |-> [stage |-> "idle", wake |-> 0, delay |-> 0, attempt |-> 0]]

Request(t) ==
    /\ task[t].stage = "idle"
    /\ task' = [task EXCEPT ![t] = [stage |-> "throttle", wake |-> 0,
                                    delay |-> FirstDelay, attempt |-> 1]]
    /\ UNCHANGED <<now, dormant, last, lock>>

\* throttle, its loop: sleep while the source is dormant ...
SleepDormant(t) ==
    /\ task[t].stage = "throttle"
    /\ now < dormant
    /\ task' = [task EXCEPT ![t].stage = "dormant", ![t].wake = dormant]
    /\ UNCHANGED <<now, dormant, last, lock>>

\* ... and look again when the sleep is over.
WakeUp(t) ==
    /\ task[t].stage = "dormant" /\ now >= task[t].wake
    /\ task' = [task EXCEPT ![t].stage = "throttle"]
    /\ UNCHANGED <<now, dormant, last, lock>>

\* Not dormant: done, unless a minimum gap is configured.
PassDormant(t) ==
    /\ task[t].stage = "throttle"
    /\ now >= dormant
    /\ task' = [task EXCEPT ![t].stage = IF MinGap = 0 THEN "send" ELSE "lock"]
    /\ UNCHANGED <<now, dormant, last, lock>>

\* Variant: the gap is measured without holding the mutex.
TakeLockShared(t) ==
    /\ task[t].stage = "lock"
    /\ task' = [task EXCEPT ![t].stage = "gap", ![t].wake = last + MinGap]
    /\ UNCHANGED <<now, dormant, last, lock>>

\* last_req.lock().await, then a sleep for what is left of the gap.
TakeLock(t) ==
    /\ task[t].stage = "lock" /\ lock = Free
    /\ lock' = t
    /\ task' = [task EXCEPT ![t].stage = "gap", ![t].wake = last + MinGap]
    /\ UNCHANGED <<now, dormant, last>>

\* The gap has passed: last_req is set and the mutex released.
PassGap(t) ==
    /\ task[t].stage = "gap" /\ now >= task[t].wake
    /\ last' = now
    /\ lock' = Free
    /\ task' = [task EXCEPT ![t].stage = "send"]
    /\ UNCHANGED <<now, dormant>>

Send(t) ==
    /\ task[t].stage = "send"
    /\ task' = [task EXCEPT ![t].stage = "flight"]
    /\ UNCHANGED <<now, dormant, last, lock>>

\* A success, or a status that is not retried.
Reply(t) ==
    /\ task[t].stage = "flight"
    /\ task' = [task EXCEPT ![t].stage = "idle"]
    /\ UNCHANGED <<now, dormant, last, lock>>

\* Variant: the deadline is overwritten.
DormantReset(t, wait) == now + wait

\* extend_dormancy: fetch_max.
DormantUntil(t, wait) == Greater(dormant, now + wait)

\* 429, 5xx or a connection error: the whole source goes dormant, and the
\* task sleeps for as long; the server's Retry-After replaces the backoff.
Refused(t) ==
    /\ task[t].stage = "flight"
    /\ \E wait \in RetryAfter \cup {task[t].delay} :
         /\ dormant' = DormantUntil(t, wait)
         /\ task' = [task EXCEPT ![t].stage = "backoff", ![t].wake = now + wait,
                                 ![t].delay = Lesser(2 * @, DelayCap)]
    /\ UNCHANGED <<now, last, lock>>

\* The sleep is over: try again, or give up.
BackedOff(t) ==
    /\ task[t].stage = "backoff" /\ now >= task[t].wake
    /\ task' = [task EXCEPT ![t].attempt = @ + 1,
                            ![t].stage = IF task[t].attempt < Attempts
                                         THEN "throttle" ELSE "idle"]
    /\ UNCHANGED <<now, dormant, last, lock>>

Tick ==
    /\ now < MaxTime
    /\ now' = now + 1
    /\ UNCHANGED <<dormant, last, lock, task>>

ThrottleNext ==
    \/ Tick
    \/ \E t \in Task :
         \/ Request(t) \/ SleepDormant(t) \/ WakeUp(t) \/ PassDormant(t) \/ TakeLock(t)
         \/ PassGap(t) \/ Send(t) \/ Reply(t) \/ Refused(t) \/ BackedOff(t)

ThrottleSpec == ThrottleInit /\ [][ThrottleNext]_throttleVars

----------------------------------------------------------------------------
\* Task t returns from throttle.
Leaves(t) == task[t].stage # "send" /\ task'[t].stage = "send"

(* Requests leave the throttle at least min_gap_ms apart, whichever tasks  *)
(* they belong to and however long each waited for the mutex, so never two *)
(* in one moment (with_rate_limit: "enforces at least that many ms between *)
(* requests").                                                             *)
GapKept ==
    [][MinGap > 0 => \A t \in Task : Leaves(t) => now >= last + MinGap /\ last' = now]_throttleVars

(* A task the server told to wait does not send again before that time,    *)
(* and the source stays dormant for it: a later refusal with a shorter     *)
(* wait never shortens the dormancy (extend_dormancy "never backward").    *)
BackoffCovered ==
    \A t \in Task : task[t].stage = "backoff" => dormant >= task[t].wake
=============================================================================
