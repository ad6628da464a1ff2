---------------------------- MODULE SourcesProofs ----------------------------
(***************************************************************************)
(* How blocks are obtained, for any number of tasks, sources, callers and  *)
(* heights:                                                                *)
(*   - requests leave the throttle of one source at least MinGap apart,    *)
(*     and dormancy covers every backoff (EsploraThrottle);                *)
(*   - a request that no other one crossed fails only after every source   *)
(*     was asked (MultiSource);                                            *)
(*   - a block stream delivers its heights in order, each with its own     *)
(*     block, in whatever order answers come (RangeFetch).                 *)
(***************************************************************************)
EXTENDS EsploraThrottle, MultiSource, RangeFetch, FiniteSetTheorems, SequenceTheorems, TLAPS

-----------------------------------------------------------------------------
(* EsploraThrottle *)

Stages == {"idle", "throttle", "dormant", "lock", "gap", "send", "flight", "backoff"}

Types ==
    /\ now \in Nat /\ dormant \in Nat /\ last \in Nat
    /\ task \in [Task -> [stage : Stages, wake : Nat, delay : Nat, attempt : Nat]]

\* The mutex is held by the task that waits for the gap, which measured the
\* gap from the value last still has.
GapOwned ==
    \A t \in Task : task[t].stage = "gap" => lock = t /\ task[t].wake = last + MinGap

IInv == Types /\ GapOwned /\ BackoffCovered

\* Nobody waits at first.
LEMMA InitHolds == ThrottleInit => IInv
BY ThrottleAssumption DEF ThrottleInit, IInv, Types, GapOwned, BackoffCovered, Stages

\* Every step of a task, and of the clock, keeps the invariant.
LEMMA StepHolds == IInv /\ [ThrottleNext]_throttleVars => IInv'
<1> SUFFICES ASSUME IInv, [ThrottleNext]_throttleVars PROVE IInv'
  OBVIOUS
<1> USE ThrottleAssumption DEF IInv, Types, GapOwned, BackoffCovered, Stages
<1>1. CASE Tick
  BY <1>1 DEF Tick
<1>2. ASSUME NEW t \in Task, Request(t) PROVE IInv'
  BY <1>2 DEF Request
<1>3. ASSUME NEW t \in Task, SleepDormant(t) PROVE IInv'
  BY <1>3, ZenonT(60) DEF SleepDormant
<1>4. ASSUME NEW t \in Task, WakeUp(t) PROVE IInv'
  BY <1>4 DEF WakeUp
<1>5. ASSUME NEW t \in Task, PassDormant(t) PROVE IInv'
  BY <1>5 DEF PassDormant
<1>6. ASSUME NEW t \in Task, TakeLock(t) PROVE IInv'
  <2>1. \A u \in Task : task[u].stage # "gap"
    BY <1>6 DEF TakeLock
  <2> DEFINE wake == last + MinGap
  <2>2. wake \in Nat
    OBVIOUS
  <2>4. /\ task' = [task EXCEPT ![t].stage = "gap", ![t].wake = wake]
        /\ UNCHANGED <<now, dormant, last>>
    BY <1>6 DEF TakeLock
  <2> HIDE DEF wake
  <2>5. Types' /\ BackoffCovered'
    BY <2>2, <2>4
  <2> USE DEF wake
  <2>3. ASSUME NEW u \in Task, task'[u].stage = "gap"
        PROVE  lock' = u /\ task'[u].wake = last' + MinGap
    <3>1. u = t
      BY <1>6, <2>1, <2>3 DEF TakeLock
    <3> QED
      BY <1>6, <3>1 DEF TakeLock
  <2> QED
    BY <2>3, <2>5
<1>7. ASSUME NEW t \in Task, PassGap(t) PROVE IInv'
  BY <1>7 DEF PassGap
<1>8. ASSUME NEW t \in Task, Send(t) PROVE IInv'
  BY <1>8 DEF Send
<1>9. ASSUME NEW t \in Task, Reply(t) PROVE IInv'
  BY <1>9 DEF Reply
<1>10. ASSUME NEW t \in Task, Refused(t) PROVE IInv'
  <2>1. PICK wait \in RetryAfter \cup {task[t].delay} :
          /\ dormant' = DormantUntil(t, wait)
          /\ task' = [task EXCEPT ![t].stage = "backoff", ![t].wake = now + wait,
                                  ![t].delay = Lesser(2 * @, DelayCap)]
    BY <1>10 DEF Refused
  <2> DEFINE wake == now + wait
             delay == Lesser(2 * task[t].delay, DelayCap)
  <2>2. wait \in Nat /\ wake \in Nat /\ delay \in Nat
    BY DEF Lesser
  <2>3. dormant' \in Nat /\ dormant' >= dormant /\ dormant' >= wake
    BY <2>1, <2>2 DEF DormantUntil, Greater
  <2>4. /\ task' = [task EXCEPT ![t].stage = "backoff", ![t].wake = wake, ![t].delay = delay]
        /\ UNCHANGED <<now, last, lock>>
    BY <1>10, <2>1 DEF Refused
  <2> HIDE DEF wake, delay
  <2>5. /\ task'[t] = [stage |-> "backoff", wake |-> wake, delay |-> delay,
                       attempt |-> task[t].attempt]
        /\ \A u \in Task \ {t} : task'[u] = task[u]
    BY <2>4
  <2>6. Types'
    BY <2>2, <2>3, <2>4, ZenonT(60)
  <2>7. GapOwned'
    BY <2>4, <2>5
  <2>8. BackoffCovered'
    <3>1. ASSUME NEW u \in Task \ {t}, task'[u].stage = "backoff" PROVE dormant' >= task'[u].wake
      <4>1. dormant >= task[u].wake /\ task[u].wake \in Nat
        BY <2>5, <3>1
      <4> QED
        BY <2>3, <2>5, <4>1
    <3> QED
      BY <2>3, <2>5, <3>1
  <2> QED
    BY <2>6, <2>7, <2>8
<1>11. ASSUME NEW t \in Task, BackedOff(t) PROVE IInv'
  BY <1>11 DEF BackedOff
<1>12. CASE UNCHANGED throttleVars
  BY <1>12 DEF throttleVars
<1> QED
  BY <1>1, <1>2, <1>3, <1>4, <1>5, <1>6, <1>7, <1>8, <1>9, <1>10, <1>11, <1>12 DEF ThrottleNext

(* Every task asleep after a refusal sleeps within the source's dormancy   *)
(* (extend_dormancy with fetch_max, get_with_retry).                       *)
THEOREM DormancyCoversBackoff == ThrottleSpec => []BackoffCovered
<1>1. IInv => BackoffCovered
  BY DEF IInv
<1> QED
  BY InitHolds, StepHolds, <1>1, PTL DEF ThrottleSpec

(* Two requests never leave the throttle less than MinGap apart, nor at    *)
(* the same moment (the last_req mutex in throttle).                       *)
THEOREM GapAlwaysKept == ThrottleSpec => GapKept
<1> DEFINE Apart == MinGap > 0 =>
                      \A t \in Task : Leaves(t) => now >= last + MinGap /\ last' = now
<1>1. ASSUME IInv, [ThrottleNext]_throttleVars PROVE [Apart]_throttleVars
  <2> SUFFICES ASSUME ThrottleNext, MinGap > 0, NEW t \in Task, Leaves(t)
               PROVE  now >= last + MinGap /\ last' = now
    BY <1>1
  <2> USE <1>1, ThrottleAssumption DEF IInv, Types, GapOwned
  <2>1. ASSUME NEW u \in Task, PassGap(u) PROVE now >= last + MinGap /\ last' = now
    BY <2>1 DEF PassGap
  <2>2. ASSUME ~\E u \in Task : PassGap(u) PROVE FALSE
    <3>1. CASE Tick
      BY <3>1 DEF Tick, Leaves
    <3>2. ASSUME NEW u \in Task, Request(u) \/ SleepDormant(u) \/ WakeUp(u) PROVE FALSE
      BY <3>2 DEF Leaves, Request, SleepDormant, WakeUp
    <3>3. ASSUME NEW u \in Task, PassDormant(u) \/ TakeLock(u) \/ Reply(u) PROVE FALSE
      BY <3>3 DEF Leaves, PassDormant, TakeLock, Reply
    <3>4. ASSUME NEW u \in Task, Send(u) PROVE FALSE
      BY <3>4 DEF Leaves, Send
    <3>5. ASSUME NEW u \in Task, Refused(u) PROVE FALSE
      <4>1. PICK wait \in RetryAfter \cup {task[u].delay} :
              task' = [task EXCEPT ![u].stage = "backoff", ![u].wake = now + wait,
                                   ![u].delay = Lesser(2 * @, DelayCap)]
        BY <3>5, Zenon DEF Refused
      <4>2. task'[u].stage = "backoff" /\ \A v \in Task \ {u} : task'[v] = task[v]
        BY <4>1
      <4> QED BY <4>2 DEF Leaves
    <3>6. ASSUME NEW u \in Task, BackedOff(u) PROVE FALSE
      BY <3>6 DEF Leaves, BackedOff
    <3> QED BY <2>2, <3>1, <3>2, <3>3, <3>4, <3>5, <3>6 DEF ThrottleNext
  <2> QED
    BY <2>1, <2>2
<1> QED
  BY InitHolds, StepHolds, <1>1, PTL DEF ThrottleSpec, GapKept

-----------------------------------------------------------------------------
(* MultiSource *)

\* The source j turns before cursor x, and those of the last k turns.
Back(x, j) == IF j <= x THEN x - j ELSE x - j + N

Trail(x, k) == {Back(x, j) : j \in 1..k}

CallTypes ==
    /\ cursor \in Sources
    /\ call \in [Callers -> [stage : {"idle", "pick", "await", "ok", "err"}, at : Sources,
                             left : 0..N, asked : SUBSET Sources, crossed : BOOLEAN]]
    /\ \A c \in Callers : call[c].stage \in {"pick", "await"} => call[c].left >= 1

\* A request nobody crossed has asked the sources of the cursor's last turns,
\* one for each attempt it has begun.
AskedInTurn ==
    \A c \in Callers : ~call[c].crossed =>
        /\ call[c].stage = "pick" => call[c].asked = Trail(cursor, N - call[c].left)
        /\ call[c].stage = "await" => call[c].asked = Trail(cursor, N - call[c].left + 1)

MultiInv == CallTypes /\ AskedInTurn /\ FallsThrough

\* The cursor goes round the sources.
LEMMA CursorTurns ==
    ASSUME CallTypes
    PROVE  (cursor + 1) % N = IF cursor + 1 = N THEN 0 ELSE cursor + 1
BY SomeSource DEF CallTypes, Sources

\* N turns of the cursor visit every source.
LEMMA FullTrail ==
    ASSUME CallTypes
    PROVE  Trail(cursor, N) = Sources
<1>1. N \in Nat \ {0} /\ cursor \in 0..(N - 1)
    BY SomeSource DEF CallTypes, Sources
<1>2. ASSUME NEW s \in Sources PROVE s \in Trail(cursor, N)
    <2> DEFINE j == IF s < cursor THEN cursor - s ELSE cursor - s + N
    <2>1. j \in 1..N /\ Back(cursor, j) = s
        BY <1>1 DEF Sources, Back
    <2> HIDE DEF j
    <2> QED
        BY <2>1 DEF Trail
<1>3. Trail(cursor, N) \subseteq Sources
    BY <1>1 DEF Trail, Back, Sources
<1> QED
    BY <1>2, <1>3

\* A turn adds the source under the cursor to the trail.
LEMMA LongerTrail ==
    ASSUME CallTypes, cursor' = (cursor + 1) % N, NEW k \in 0..(N - 1)
    PROVE  Trail(cursor', k + 1) = Trail(cursor, k) \cup {cursor}
<1>1. N \in Nat \ {0} /\ cursor \in 0..(N - 1)
    BY SomeSource DEF CallTypes, Sources
<1>2. cursor' = IF cursor + 1 = N THEN 0 ELSE cursor + 1
    BY CursorTurns
<1>3. Back(cursor', 1) = cursor
    BY <1>1, <1>2 DEF Back
<1>4. \A j \in 1..k : Back(cursor', j + 1) = Back(cursor, j)
    BY <1>1, <1>2 DEF Back
<1>5. Trail(cursor', k + 1) = {Back(cursor', j) : j \in 1..(k + 1)}
    BY DEF Trail, Back
<1>6. ASSUME NEW s \in Trail(cursor', k + 1) PROVE s \in Trail(cursor, k) \cup {cursor}
    <2>1. PICK j \in 1..(k + 1) : s = Back(cursor', j)
        BY <1>5, <1>6
    <2>2. CASE j = 1
        BY <1>3, <2>1, <2>2
    <2>3. CASE j # 1
        <3>1. j - 1 \in 1..k /\ j - 1 + 1 = j
            BY <2>1, <2>3
        <3>2. Back(cursor', j) = Back(cursor, j - 1)
            BY <1>1, <1>2, <3>1 DEF Back
        <3> QED
            BY <2>1, <3>1, <3>2 DEF Trail
    <2> QED
        BY <2>2, <2>3
<1>7. cursor \in Trail(cursor', k + 1)
    <2>1. 1 \in 1..(k + 1)
        OBVIOUS
    <2> QED
        BY <1>3, <1>5, <2>1
<1>8. ASSUME NEW s \in Trail(cursor, k) PROVE s \in Trail(cursor', k + 1)
    <2>1. PICK j \in 1..k : s = Back(cursor, j)
        BY DEF Trail
    <2>2. j + 1 \in 1..(k + 1)
        BY <2>1
    <2> QED
        BY <1>4, <1>5, <2>1, <2>2
<1> QED
    BY <1>6, <1>7, <1>8

\* The cursor moves: a request in flight was crossed, or has asked nobody.
LEMMA PickInv ==
    ASSUME MultiInv, NEW c \in Callers, Pick(c)
    PROVE  MultiInv'
<1>1. /\ call[c].stage = "pick" /\ cursor' = (cursor + 1) % N /\ UNCHANGED down
      /\ call' = [d \in Callers |->
            IF d = c
            THEN [call[c] EXCEPT !.stage = "await", !.at = cursor,
                                 !.asked = call[c].asked \cup {cursor}]
            ELSE [call[d] EXCEPT !.crossed = call[d].crossed \/ (call[d].stage \in {"pick", "await"}
                                                                 /\ call[d].asked # {})]]
    BY DEF Pick, Ask
<1>2. N \in Nat \ {0} /\ cursor \in Sources /\ CallTypes /\ AskedInTurn /\ FallsThrough
    BY SomeSource DEF MultiInv, CallTypes
<1>3. /\ call'[c].stage = "await" /\ call'[c].at = cursor /\ call'[c].left = call[c].left
      /\ call'[c].asked = call[c].asked \cup {cursor} /\ call'[c].crossed = call[c].crossed
    BY <1>1, <1>2 DEF CallTypes
<1>4. ASSUME NEW d \in Callers, d # c
      PROVE  /\ call'[d].stage = call[d].stage /\ call'[d].at = call[d].at
             /\ call'[d].left = call[d].left /\ call'[d].asked = call[d].asked
             /\ call'[d].crossed = (call[d].crossed \/ (call[d].stage \in {"pick", "await"}
                                                        /\ call[d].asked # {}))
    BY <1>1, <1>2, <1>4 DEF CallTypes
<1>5. cursor' \in Sources
    BY <1>1, <1>2, CursorTurns DEF Sources
<1>6. CallTypes'
    <2>1. call' \in [Callers -> [stage : {"idle", "pick", "await", "ok", "err"}, at : Sources,
                                  left : 0..N, asked : SUBSET Sources, crossed : BOOLEAN]]
        BY <1>1, <1>2, ZenonT(60) DEF CallTypes
    <2>2. \A d \in Callers : call'[d].stage \in {"pick", "await"} => call'[d].left >= 1
        BY <1>1, <1>2, <1>3, <1>4 DEF CallTypes
    <2> QED
        BY <1>5, <2>1, <2>2 DEF CallTypes
<1>7. ASSUME NEW d \in Callers, ~call'[d].crossed
      PROVE  /\ call'[d].stage = "pick" => call'[d].asked = Trail(cursor', N - call'[d].left)
             /\ call'[d].stage = "await" => call'[d].asked = Trail(cursor', N - call'[d].left + 1)
    <2>1. CASE d = c
        <3> DEFINE k == N - call[c].left
        <3>1. k \in 0..(N - 1) /\ call[c].asked = Trail(cursor, k)
            BY <1>1, <1>2, <1>3, <1>7, <2>1 DEF CallTypes, AskedInTurn
        <3> HIDE DEF k
        <3>2. Trail(cursor', k + 1) = Trail(cursor, k) \cup {cursor}
            BY <1>1, <1>2, <3>1, LongerTrail
        <3> QED
            BY <1>3, <2>1, <3>1, <3>2 DEF k
    <2>2. CASE d # c
        <3>1. ~call[d].crossed /\ (call[d].stage \in {"pick", "await"} => call[d].asked = {})
            BY <1>4, <1>7, <2>2
        <3>2. call[d].left \in 0..N /\ (call[d].stage \in {"pick", "await"} => call[d].left >= 1)
            BY <1>2 DEF CallTypes
        <3>3. \A k \in 1..N : Trail(cursor, k) # {}
            BY DEF Trail
        <3>4. call[d].stage = "pick" => N - call[d].left = 0
            BY <1>2, <3>1, <3>2, <3>3 DEF AskedInTurn
        <3>5. ~(call[d].stage = "await")
            BY <1>2, <3>1, <3>2, <3>3 DEF AskedInTurn
        <3>6. Trail(cursor', 0) = {}
            BY DEF Trail
        <3> QED
            BY <1>4, <2>2, <3>1, <3>4, <3>5, <3>6
    <2> QED
        BY <2>1, <2>2
<1>8. FallsThrough'
    BY <1>2, <1>3, <1>4, ZenonT(60) DEF FallsThrough
<1> QED
    BY <1>6, <1>7, <1>8 DEF MultiInv, AskedInTurn

\* The other steps leave the cursor alone.
LEMMA OtherInv ==
    ASSUME MultiInv,
           \/ UNCHANGED call
           \/ \E c \in Callers : Call(c) \/ Answer(c) \/ SourceFails(c),
           UNCHANGED cursor
    PROVE  MultiInv'
<1>1. N \in Nat \ {0} /\ CallTypes /\ AskedInTurn /\ FallsThrough
    BY SomeSource DEF MultiInv
<1>2. \A k : Trail(cursor', k) = Trail(cursor, k)
    OBVIOUS
<1>3. CASE UNCHANGED call
    BY <1>1, <1>2, <1>3 DEF MultiInv, CallTypes, AskedInTurn, FallsThrough
<1>4. ASSUME NEW c \in Callers, Call(c) PROVE MultiInv'
    <2>1. Trail(cursor, 0) = {} /\ N - N = 0
        BY <1>1 DEF Trail
    <2>2. /\ call' \in [Callers -> [stage : {"idle", "pick", "await", "ok", "err"}, at : Sources,
                                     left : 0..N, asked : SUBSET Sources, crossed : BOOLEAN]]
          /\ call'[c].stage = "pick" /\ call'[c].left = N /\ call'[c].asked = {}
          /\ \A d \in Callers \ {c} : call'[d] = call[d]
        <3> DEFINE r == NewCall("pick", N)
        <3>1. call' = [call EXCEPT ![c] = r]
            BY <1>4 DEF Call
        <3>2. r \in [stage : {"idle", "pick", "await", "ok", "err"}, at : Sources,
                     left : 0..N, asked : SUBSET Sources, crossed : BOOLEAN]
            BY <1>1 DEF Sources, NewCall
        <3>3. r.stage = "pick" /\ r.left = N /\ r.asked = {}
            BY DEF NewCall
        <3> HIDE DEF r
        <3> QED
            BY <1>1, <3>1, <3>2, <3>3 DEF CallTypes
    <2>3. CallTypes'
        BY <1>1, <2>2 DEF CallTypes
    <2>4. AskedInTurn'
        BY <1>1, <1>2, <2>1, <2>2, ZenonT(60) DEF AskedInTurn
    <2>5. FallsThrough'
        BY <1>1, <2>2 DEF FallsThrough
    <2> QED
        BY <2>3, <2>4, <2>5 DEF MultiInv
<1>5. ASSUME NEW c \in Callers, Answer(c) PROVE MultiInv'
    BY <1>1, <1>2, <1>5 DEF MultiInv, CallTypes, AskedInTurn, FallsThrough, Answer
<1>6. ASSUME NEW c \in Callers, SourceFails(c) PROVE MultiInv'
    <2>1. /\ call[c].stage = "await" /\ call[c].left \in 1..N
          /\ call' = [call EXCEPT ![c].left = @ - 1,
                                  ![c].stage = IF call[c].left = 1 THEN "err" ELSE "pick"]
        BY <1>1, <1>6 DEF SourceFails, CallTypes
    <2>2. /\ call' \in [Callers -> [stage : {"idle", "pick", "await", "ok", "err"}, at : Sources,
                                     left : 0..N, asked : SUBSET Sources, crossed : BOOLEAN]]
          /\ call'[c].stage = (IF call[c].left = 1 THEN "err" ELSE "pick")
          /\ call'[c].left = call[c].left - 1 /\ call'[c].asked = call[c].asked
          /\ call'[c].crossed = call[c].crossed
          /\ \A d \in Callers \ {c} : call'[d] = call[d]
        BY <1>1, <2>1 DEF CallTypes
    <2>3. CallTypes'
        BY <1>1, <2>1, <2>2 DEF CallTypes
    <2>4. ~call[c].crossed => call[c].asked = Trail(cursor, N - call[c].left + 1)
        BY <1>1, <2>1 DEF AskedInTurn
    <2>5. AskedInTurn'
        <3>1. N - (call[c].left - 1) = N - call[c].left + 1
            BY <1>1, <2>1
        <3> QED
            BY <1>1, <1>2, <2>2, <2>4, <3>1 DEF AskedInTurn
    <2>6. FallsThrough'
        <3>1. call[c].left = 1 /\ ~call[c].crossed => call[c].asked = Sources
            <4>1. N - 1 + 1 = N
                BY <1>1
            <4> QED
                BY <1>1, <2>4, <4>1, FullTrail
        <3> QED
            BY <1>1, <2>2, <3>1 DEF FallsThrough
    <2> QED
        BY <2>3, <2>5, <2>6 DEF MultiInv
<1> QED
    BY <1>3, <1>4, <1>5, <1>6

\* A request fails only after every source was asked, unless another request
\* moved the shared cursor meanwhile (MultiSource, the retry loop and pick).
THEOREM AlwaysFallsThrough == MultiSpec => []FallsThrough
<1>1. MultiInit => MultiInv
    <2> SUFFICES ASSUME MultiInit PROVE MultiInv
        OBVIOUS
    <2>1. 0 \in Sources /\ N \in Nat
        BY SomeSource DEF Sources
    <2> QED
        BY <2>1 DEF MultiInit, NewCall, MultiInv, CallTypes, AskedInTurn, FallsThrough
<1>2. MultiInv /\ [MultiNext]_multiVars => MultiInv'
    <2> SUFFICES ASSUME MultiInv, [MultiNext]_multiVars PROVE MultiInv'
        OBVIOUS
    <2>1. ASSUME NEW c \in Callers, Pick(c) PROVE MultiInv'
        BY <2>1, PickInv
    <2>2. ASSUME NEW c \in Callers, Call(c) \/ Answer(c) \/ SourceFails(c) PROVE MultiInv'
        <3>1. UNCHANGED cursor
            BY <2>2 DEF Call, Answer, SourceFails
        <3> QED
            BY <2>2, <3>1, OtherInv
    <2>3. ASSUME NEW s \in Sources, Toggle(s) PROVE MultiInv'
        BY <2>3, OtherInv DEF Toggle
    <2>4. CASE UNCHANGED multiVars
        BY <2>4, OtherInv DEF multiVars
    <2> QED
        BY <2>1, <2>2, <2>3, <2>4 DEF MultiNext
<1>3. MultiInv => FallsThrough
    BY DEF MultiInv
<1> QED
    BY <1>1, <1>2, <1>3, PTL DEF MultiSpec
-----------------------------------------------------------------------------
(* RangeFetch *)

\* Frames that the first n batches hold.
Taken(n) == IF n < Batches THEN n * BatchSize ELSE Count

\* The smaller of two.
LEMMA MinOfTwo ==
    ASSUME NEW m \in Int, NEW n \in Int
    PROVE  Min({m, n}) = IF m <= n THEN m ELSE n
BY DEF Min

\* div_ceil: the batches cover the count, and the last one is not empty.
LEMMA BatchesCover ==
    /\ Batches \in Nat \ {0}
    /\ (Batches - 1) * BatchSize < Count /\ Count <= Batches * BatchSize
<1> DEFINE n == Count + BatchSize - 1
           q == n \div BatchSize
<1>1. n \in Nat /\ BatchSize \in Nat \ {0} /\ Count \in Nat \ {0}
    BY StreamAssumption
<1> HIDE DEF n
<1>2. q \in Nat /\ q * BatchSize <= n /\ n < q * BatchSize + BatchSize
    BY <1>1
<1> HIDE DEF q
<1>3. (q - 1) * BatchSize = q * BatchSize - BatchSize
    BY <1>1, <1>2
<1>4. q # 0
    BY <1>1, <1>2 DEF n
<1>5. q * BatchSize \in Nat
    BY <1>1, <1>2
<1>6. (q - 1) * BatchSize < Count /\ Count <= q * BatchSize
    BY <1>1, <1>2, <1>3, <1>5 DEF n
<1> QED
    BY <1>2, <1>4, <1>6 DEF q, n, Batches

\* A batch begins where the one before it ends.
LEMMA BatchPlace ==
    ASSUME NEW k \in 1..Batches
    PROVE  /\ ThisCount(k) \in 1..BatchSize
           /\ BatchStart(k) = Start + Taken(k - 1) /\ Taken(k - 1) \in Nat
           /\ Taken(k) = Taken(k - 1) + ThisCount(k) /\ Taken(k) <= Count
<1> DEFINE o == (k - 1) * BatchSize
<1>1. /\ Batches \in Nat \ {0} /\ (Batches - 1) * BatchSize < Count /\ Count <= Batches * BatchSize
      /\ BatchSize \in Nat \ {0} /\ Count \in Nat \ {0} /\ Start \in Nat \ {0}
    BY BatchesCover, StreamAssumption
<1>2. o \in Nat /\ k * BatchSize = o + BatchSize
    BY <1>1
<1>3. Taken(k - 1) = o /\ BatchStart(k) = Start + o
    BY <1>1 DEF Taken, BatchStart
<1> HIDE DEF o
<1>4. ThisCount(k) = IF Count - o <= BatchSize THEN Count - o ELSE BatchSize
    <2>1. Start + Count - BatchStart(k) = Count - o
        BY <1>1, <1>2, <1>3
    <2> QED
        BY <1>1, <1>2, <2>1, MinOfTwo DEF ThisCount
<1>5. CASE k = Batches
    <2>1. o < Count /\ Count <= o + BatchSize
        BY <1>1, <1>2, <1>5 DEF o
    <2> QED
        BY <1>1, <1>2, <1>3, <1>4, <1>5, <2>1 DEF Taken
<1>6. CASE k < Batches
    <2>1. k * BatchSize <= (Batches - 1) * BatchSize
        BY <1>1, <1>6
    <2>2. o + BatchSize < Count
        BY <1>1, <1>2, <2>1
    <2> QED
        BY <1>1, <1>2, <1>3, <1>4, <1>6, <2>2 DEF Taken
<1> QED
    BY <1>1, <1>5, <1>6

\* Pigeonhole: n different positions out of m.
LEMMA Positions ==
    ASSUME NEW n \in Nat, NEW m \in Nat, NEW f \in [1..n -> 1..m],
           \A i, j \in 1..n : f[i] = f[j] => i = j
    PROVE  n <= m
<1>1. /\ IsFiniteSet(1..n) /\ Cardinality(1..n) = n
      /\ IsFiniteSet(1..m) /\ Cardinality(1..m) = m
    BY FS_Interval
<1> SUFFICES ASSUME m < n PROVE FALSE
    OBVIOUS
<1> QED
    BY <1>1, FS_PigeonHole, SMTT(40)

\* With n = m every position is among them.
LEMMA AllPositions ==
    ASSUME NEW n \in Nat, NEW f \in [1..n -> 1..n],
           \A i, j \in 1..n : f[i] = f[j] => i = j,
           NEW p \in 1..n
    PROVE  \E j \in 1..n : f[j] = p
<1>1. IsFiniteSet(1..n) /\ Cardinality(1..n) = n
    BY FS_Interval
<1> SUFFICES ASSUME \A j \in 1..n : f[j] # p PROVE FALSE
    OBVIOUS
<1> DEFINE S == 1..n
           T == (1..n) \ {p}
<1>2. f \in [S -> T] /\ \A i, j \in S : f[i] = f[j] => i = j
    OBVIOUS
<1>3. IsFiniteSet(T) /\ Cardinality(T) = n - 1
    BY <1>1, FS_RemoveElement
<1>4. IsFiniteSet(S) /\ Cardinality(T) < Cardinality(S)
    BY <1>1, <1>3
<1> HIDE DEF S, T
<1>5. \E i, j \in S : i # j /\ f[i] = f[j]
    BY <1>2, <1>3, <1>4, FS_PigeonHole
<1> QED
    BY <1>2, <1>5

\* If all of them are taken, there are as many.
LEMMA EveryPosition ==
    ASSUME NEW n \in Nat, NEW m \in Nat, NEW f \in [1..n -> 1..m],
           \A p \in 1..m : \E j \in 1..n : f[j] = p
    PROVE  m <= n
<1>1. /\ IsFiniteSet(1..n) /\ Cardinality(1..n) = n
      /\ IsFiniteSet(1..m) /\ Cardinality(1..m) = m
    BY FS_Interval
<1>2. f \in Surjection(1..n, 1..m)
    BY DEF Surjection
<1> QED
    BY <1>1, <1>2, FS_Surjection

\* Blocks of the node's chains, answers, and batches of answers.
Known == UNION {{c[h] : h \in DOMAIN c} : c \in Chains}

Answers == [at : 1..BatchSize, value : Known \cup {Display(b) : b \in Known}]

BatchType ==
    [stage : {"idle", "hashes", "bodies", "done", "error"},
     hashes : Seq(Answers), blocks : Seq(Answers), undo : Seq(Answers)]

\* The answers are for different positions of batch k.
Filed(k, answers) ==
    /\ \A j \in 1..Len(answers) : answers[j].at \in 1..ThisCount(k)
    /\ \A i, j \in 1..Len(answers) : answers[i].at = answers[j].at => i = j

\* Each answer is for the hash that came for its position.
OfHashes(hashes, answers) ==
    \A j \in 1..Len(answers) : \E a \in ToSet(hashes) :
        a.at = answers[j].at /\ answers[j].value = Internal(a.value)

\* Batch b has hashes of blocks of its heights, and answers for those hashes.
BatchRight(k, b) ==
    /\ Filed(k, b.hashes) /\ Filed(k, b.blocks) /\ Filed(k, b.undo)
    /\ \A a \in ToSet(b.hashes) : HeightOf(k, a.at) \in HeightsOf(Internal(a.value))
    /\ OfHashes(b.hashes, b.blocks) /\ OfHashes(b.hashes, b.undo)
    /\ ByIpc /\ b.stage \in {"idle", "hashes"} => b.blocks = b.hashes
    /\ b.stage = "bodies" => Len(b.hashes) = ThisCount(k)

FrameType == [height : Nat, hash : Known, block : Known, undo : Known \cup {NoUndo}]

\* The inductive invariant.
FetchInv ==
    /\ kind \in {"rest", "rpc", "heights", "ipc", "indexer"} /\ node \in Chains
    /\ yielded \in 0..Batches
    /\ fetching \in [1..Batches -> BatchType]
    /\ \A k \in 1..Batches : BatchRight(k, fetching[k])
    /\ frames \in Seq(FrameType) /\ Len(frames) = Taken(yielded)
    /\ StreamInOrder

\* A full set of answers has one for every position, and only a full set has.
LEMMA FullBatch ==
    ASSUME NEW k \in 1..Batches, NEW answers \in Seq(Answers), Filed(k, answers)
    PROVE  /\ Len(answers) \in Nat /\ Len(answers) <= ThisCount(k)
           /\ Len(answers) = ThisCount(k) <=>
                  \A i \in 1..ThisCount(k) : \E a \in ToSet(answers) : a.at = i
<1> DEFINE n == Len(answers)
           m == ThisCount(k)
           f == [j \in 1..n |-> answers[j].at]
<1>1. n \in Nat /\ m \in Nat /\ DOMAIN answers = 1..n
    BY BatchPlace, LenProperties, StreamAssumption
<1>2. f \in [1..n -> 1..m] /\ \A i, j \in 1..n : f[i] = f[j] => i = j
    BY DEF Filed
<1>3. \A p : (\E j \in 1..n : f[j] = p) <=> (\E a \in ToSet(answers) : a.at = p)
    BY <1>1 DEF ToSet
<1> HIDE DEF n, m, f
<1>4. n <= m /\ (n = m <=> \A p \in 1..m : \E j \in 1..n : f[j] = p)
    <2>1. n <= m
        BY <1>1, <1>2, Positions
    <2>2. ASSUME n = m, NEW p \in 1..m PROVE \E j \in 1..n : f[j] = p
        <3>1. f \in [1..n -> 1..n] /\ p \in 1..n
            BY <1>2, <2>2
        <3> QED
            BY <1>1, <1>2, <3>1, AllPositions, ZenonT(60)
    <2>3. ASSUME \A p \in 1..m : \E j \in 1..n : f[j] = p PROVE n = m
        <3>1. m <= n
            BY <1>1, <1>2, <2>3, EveryPosition
        <3> QED
            BY <1>1, <2>1, <3>1
    <2> QED
        BY <2>1, <2>2, <2>3
<1> QED
    BY <1>1, <1>3, <1>4 DEF n, m

\* Sorting by position gives each position its answer.
LEMMA SortedRight ==
    ASSUME NEW k \in 1..Batches, NEW answers \in Seq(Answers), Filed(k, answers),
           Len(answers) = ThisCount(k), NEW i \in 1..ThisCount(k)
    PROVE  \E a \in ToSet(answers) : a.at = i /\ Sorted(answers)[i] = a.value
<1>1. DOMAIN answers = 1..ThisCount(k)
    BY LenProperties
<1>2. \E a \in ToSet(answers) : a.at = i
    BY FullBatch
<1> DEFINE c == CHOOSE a \in ToSet(answers) : a.at = i
<1>3. c \in ToSet(answers) /\ c.at = i
    BY <1>2
<1>4. Sorted(answers)[i] = c.value
    BY <1>1 DEF Sorted
<1> QED
    BY <1>3, <1>4

\* Two answers for one position are the same.
LEMMA SameAnswer ==
    ASSUME NEW k \in 1..Batches, NEW answers \in Seq(Answers), Filed(k, answers),
           NEW a \in ToSet(answers), NEW b \in ToSet(answers), a.at = b.at
    PROVE  a = b
BY LenProperties DEF ToSet, Filed

\* One more answer.
LEMMA OneMore ==
    ASSUME NEW k \in 1..Batches, NEW answers \in Seq(Answers), Filed(k, answers),
           NEW a \in Answers, a.at \in 1..ThisCount(k), ~Answered(answers, a.at)
    PROVE  /\ Append(answers, a) \in Seq(Answers)
           /\ Filed(k, Append(answers, a))
           /\ ToSet(Append(answers, a)) = ToSet(answers) \cup {a}
<1> DEFINE s == Append(answers, a)
           n == Len(answers)
<1>1. n \in Nat /\ DOMAIN answers = 1..n
    BY LenProperties
<1>2. s \in Seq(Answers) /\ Len(s) = n + 1 /\ s[n + 1] = a /\ \A j \in 1..n : s[j] = answers[j]
    BY <1>1
<1>3. DOMAIN s = 1..(n + 1)
    BY <1>2, LenProperties
<1> HIDE DEF s
<1>4. ToSet(s) = ToSet(answers) \cup {a}
    BY <1>1, <1>2, <1>3 DEF ToSet
<1>5. \A j \in 1..n : answers[j].at # a.at
    BY <1>1 DEF Answered
<1>6. Filed(k, s)
    BY <1>1, <1>2, <1>5 DEF Filed
<1> QED
    BY <1>2, <1>4, <1>6 DEF s

\* A later hash takes nothing from the answers.
LEMMA OfMoreHashes ==
    ASSUME NEW hashes, NEW more, ToSet(hashes) \subseteq ToSet(more), NEW answers,
           OfHashes(hashes, answers)
    PROVE  OfHashes(more, answers)
BY DEF OfHashes

\* An answer for a hash that is there.
LEMMA OneMoreOfHashes ==
    ASSUME NEW hashes, NEW answers \in Seq(Answers), OfHashes(hashes, answers),
           NEW a, NEW h \in ToSet(hashes), h.at = a.at, a.value = Internal(h.value)
    PROVE  OfHashes(hashes, Append(answers, a))
<1> DEFINE s == Append(answers, a)
           n == Len(answers)
<1>1. n \in Nat /\ Len(s) = n + 1 /\ s[n + 1] = a /\ \A j \in 1..n : s[j] = answers[j]
    BY LenProperties
<1> HIDE DEF s
<1>2. OfHashes(hashes, s)
    BY <1>1 DEF OfHashes
<1> QED
    BY <1>2 DEF s

\* Blocks of the node's chains.
LEMMA KnownBlocks ==
    /\ \A c \in Chains : \A h \in DOMAIN c : c[h] \in Known /\ h \in HeightsOf(c[h])
    /\ \A b : \A h \in HeightsOf(b) : b \in Known
BY DEF Known, HeightsOf

\* The source does not change, and a step touches one batch.
LEMMA BatchStep ==
    ASSUME FetchInv, NEW k \in 1..Batches, UNCHANGED <<kind, node, yielded, frames>>,
           fetching' \in [1..Batches -> BatchType],
           \A j \in 1..Batches : j # k => fetching'[j] = fetching[j],
           BatchRight(k, fetching'[k])
    PROVE  FetchInv'
<1>1. \A j, b : BatchRight(j, b)' <=> BatchRight(j, b)
    BY DEF BatchRight, OfHashes, Internal, ByIpc
<1>2. \A j \in 1..Batches : BatchRight(j, fetching'[j])
    BY DEF FetchInv
<1>3. \A j \in 1..Batches : BatchRight(j, fetching[j])'
    BY <1>1, <1>2
<1>4. StreamInOrder'
    BY DEF FetchInv, StreamInOrder
<1> QED
    BY <1>3, <1>4 DEF FetchInv

\* What the invariant says of one batch.
LEMMA BatchFacts ==
    ASSUME FetchInv, NEW k \in 1..Batches
    PROVE  /\ fetching \in [1..Batches -> BatchType]
           /\ fetching[k] \in BatchType /\ BatchRight(k, fetching[k])
           /\ fetching[k].hashes \in Seq(Answers) /\ fetching[k].blocks \in Seq(Answers)
           /\ fetching[k].undo \in Seq(Answers)
           /\ ThisCount(k) \in 1..BatchSize
BY BatchPlace DEF FetchInv, BatchType

\* A batch without answers.
LEMMA EmptyBatch ==
    ASSUME NEW k \in 1..Batches, NEW stage \in {"idle", "hashes", "done", "error"}
    PROVE  NoAnswers(stage) \in BatchType /\ BatchRight(k, NoAnswers(stage))
<1> DEFINE b == NoAnswers(stage)
<1>1. b.stage = stage /\ b.hashes = << >> /\ b.blocks = << >> /\ b.undo = << >>
    BY DEF NoAnswers
<1>2. b \in BatchType
    BY DEF NoAnswers, BatchType
<1> HIDE DEF b
<1>3. ToSet(<< >>) = {} /\ Len(<< >>) = 0
    BY DEF ToSet
<1>4. BatchRight(k, b)
    BY <1>1, <1>3 DEF BatchRight, Filed, OfHashes
<1> QED
    BY <1>2, <1>4 DEF b

\* A batch is started, or its requests by hash begin.
LEMMA StageStep ==
    ASSUME FetchInv, NEW k \in 1..Batches, StartBatch(k) \/ HashesDone(k) \/ AttachUndo(k)
    PROVE  FetchInv'
<1> DEFINE b == fetching[k]
           d == fetching'[k]
<1>1. PICK stage \in {"hashes", "bodies"} :
          /\ fetching' = [fetching EXCEPT ![k].stage = stage]
          /\ UNCHANGED <<kind, node, yielded, frames>>
          /\ stage = "hashes" => b.stage = "idle"
          /\ stage = "bodies" => /\ b.stage = "hashes"
                                 /\ \/ Len(b.hashes) = ThisCount(k)
                                    \/ ByIpc /\ Len(b.blocks) = ThisCount(k)
    BY DEF StartBatch, HashesDone, AttachUndo, ByIpc
<1>2. BatchRight(k, b) /\ fetching \in [1..Batches -> BatchType]
    BY BatchFacts
<1>3. /\ fetching' \in [1..Batches -> BatchType]
      /\ \A j \in 1..Batches : j # k => fetching'[j] = fetching[j]
      /\ d.stage = stage /\ d.hashes = b.hashes /\ d.blocks = b.blocks /\ d.undo = b.undo
    BY <1>1, <1>2 DEF BatchType
<1>4. BatchRight(k, d)
    BY <1>1, <1>2, <1>3 DEF BatchRight
<1> QED
    BY <1>1, <1>3, <1>4, BatchStep

\* Requests of the batch fail.
LEMMA FailStep ==
    ASSUME FetchInv, NEW k \in 1..Batches, RequestFails(k)
    PROVE  FetchInv'
<1> DEFINE d == NoAnswers("error")
<1>1. fetching' = [fetching EXCEPT ![k] = d] /\ UNCHANGED <<kind, node, yielded, frames>>
    BY DEF RequestFails
<1>2. d \in BatchType /\ BatchRight(k, d) /\ fetching \in [1..Batches -> BatchType]
    BY EmptyBatch, BatchFacts
<1> HIDE DEF d
<1>3. /\ fetching' \in [1..Batches -> BatchType] /\ fetching'[k] = d
      /\ \A j \in 1..Batches : j # k => fetching'[j] = fetching[j]
    BY <1>1, <1>2
<1> QED
    BY <1>1, <1>2, <1>3, BatchStep

\* A hash arrives, alone or with its block.
LEMMA HashStep ==
    ASSUME FetchInv, NEW k \in 1..Batches, NEW i \in 1..BatchSize,
           HashArrives(k, i) \/ IpcBlockArrives(k, i)
    PROVE  FetchInv'
<1> DEFINE b == fetching[k]
           d == fetching'[k]
           h == HeightOf(k, i)
<1>1. /\ b.stage = "hashes" /\ i \in 1..ThisCount(k) /\ ~Answered(b.hashes, i)
      /\ UNCHANGED <<kind, node, yielded, frames>> /\ h \in DOMAIN node
    BY DEF HashArrives, IpcBlockArrives, Acceptable
<1>2. PICK a : /\ a = [at |-> i, value |-> IF kind = "rpc" THEN Display(node[h]) ELSE node[h]]
               /\ \/ ~ByIpc /\ fetching' = [fetching EXCEPT ![k].hashes = Append(@, a)]
                  \/ ByIpc /\ fetching' = [fetching EXCEPT ![k].hashes = Append(@, a),
                                                           ![k].blocks = Append(@, a)]
    BY DEF HashArrives, IpcBlockArrives, Acceptable, ByIpc
<1>3. /\ BatchRight(k, b) /\ fetching \in [1..Batches -> BatchType]
      /\ b.hashes \in Seq(Answers) /\ b.blocks \in Seq(Answers) /\ ThisCount(k) \in 1..BatchSize
    BY BatchFacts
<1>4. node[h] \in Known /\ h \in HeightsOf(node[h])
    BY <1>1, KnownBlocks DEF FetchInv
<1>5. a \in Answers /\ a.at = i
    BY <1>1, <1>2, <1>3, <1>4 DEF Answers
<1>6. Internal(a.value) = node[h]
    BY <1>2 DEF Internal, Display
<1>7. ByIpc => b.blocks = b.hashes /\ Internal(a.value) = a.value
    BY <1>1, <1>3 DEF BatchRight, Internal, ByIpc
<1>8. /\ Append(b.hashes, a) \in Seq(Answers) /\ Filed(k, Append(b.hashes, a))
      /\ ToSet(Append(b.hashes, a)) = ToSet(b.hashes) \cup {a}
    BY <1>1, <1>3, <1>5, OneMore DEF BatchRight
<1>9. /\ fetching' \in [1..Batches -> BatchType]
      /\ \A j \in 1..Batches : j # k => fetching'[j] = fetching[j]
      /\ d.stage = b.stage /\ d.hashes = Append(b.hashes, a) /\ d.undo = b.undo
      /\ d.blocks = IF ByIpc THEN Append(b.blocks, a) ELSE b.blocks
    <2>1. CASE ~ByIpc
        BY <1>2, <1>3, <1>8, <2>1, ZenonT(60) DEF BatchType
    <2>2. CASE ByIpc
        <3> DEFINE s == Append(b.hashes, a)
                   t == Append(b.blocks, a)
        <3>1. s \in Seq(Answers) /\ t \in Seq(Answers)
            BY <1>7, <1>8, <2>2
        <3>2. fetching' = [fetching EXCEPT ![k].hashes = s, ![k].blocks = t]
            BY <1>2, <2>2
        <3> HIDE DEF s, t
        <3>3. fetching' = [fetching EXCEPT ![k] = [fetching[k] EXCEPT !.hashes = s, !.blocks = t]]
            BY <1>3, <3>2 DEF BatchType
        <3> QED
            BY <1>3, <2>2, <3>1, <3>3 DEF BatchType, s, t
    <2> QED
        BY <2>1, <2>2
<1>10. OfHashes(d.hashes, b.blocks) /\ OfHashes(d.hashes, b.undo)
    BY <1>3, <1>8, <1>9, OfMoreHashes DEF BatchRight
<1>11. OfHashes(d.hashes, d.blocks) /\ Filed(k, d.blocks)
    <2>1. CASE ~ByIpc
        BY <1>3, <1>9, <1>10, <2>1 DEF BatchRight
    <2>2. CASE ByIpc
        <3>1. a \in ToSet(d.hashes)
            BY <1>8, <1>9
        <3>2. OfHashes(d.hashes, Append(b.blocks, a))
            BY <1>3, <1>7, <1>10, <2>2, <3>1, OneMoreOfHashes
        <3> QED
            BY <1>7, <1>8, <1>9, <2>2, <3>2
    <2> QED
        BY <2>1, <2>2
<1>12. BatchRight(k, d)
    <2>1. \A c \in ToSet(d.hashes) : HeightOf(k, c.at) \in HeightsOf(Internal(c.value))
        BY <1>3, <1>4, <1>5, <1>6, <1>8, <1>9 DEF BatchRight
    <2> QED
        BY <1>1, <1>3, <1>7, <1>8, <1>9, <1>10, <1>11, <2>1 DEF BatchRight
<1> QED
    BY <1>1, <1>9, <1>12, BatchStep

\* A block or its undo data arrives for a hash that is there.
LEMMA BodyStep ==
    ASSUME FetchInv, NEW k \in 1..Batches, NEW a \in Answers,
           NEW h \in ToSet(fetching[k].hashes), h.at = a.at, a.value = Internal(h.value),
           ByIpc => fetching[k].stage = "bodies",
           \/ /\ ~Answered(fetching[k].blocks, a.at)
              /\ fetching' = [fetching EXCEPT ![k].blocks = Append(@, a)]
           \/ /\ ~Answered(fetching[k].undo, a.at)
              /\ fetching' = [fetching EXCEPT ![k].undo = Append(@, a)],
           UNCHANGED <<kind, node, yielded, frames>>
    PROVE  FetchInv'
<1> DEFINE b == fetching[k]
           d == fetching'[k]
<1>1. /\ BatchRight(k, b) /\ fetching \in [1..Batches -> BatchType] /\ b \in BatchType
      /\ b.hashes \in Seq(Answers) /\ b.blocks \in Seq(Answers) /\ b.undo \in Seq(Answers)
    BY BatchFacts
<1>2. a.at \in 1..ThisCount(k)
    <2>1. \E j \in 1..Len(b.hashes) : h = b.hashes[j]
        BY <1>1, LenProperties DEF ToSet
    <2> QED
        BY <1>1, <2>1 DEF BatchRight, Filed
<1>3. CASE /\ ~Answered(b.blocks, a.at)
           /\ fetching' = [fetching EXCEPT ![k].blocks = Append(@, a)]
    <2> DEFINE s == Append(b.blocks, a)
    <2>1. s \in Seq(Answers) /\ Filed(k, s)
        BY <1>1, <1>2, <1>3, OneMore DEF BatchRight
    <2>2. OfHashes(b.hashes, s)
        BY <1>1, OneMoreOfHashes DEF BatchRight
    <2>3. fetching' = [fetching EXCEPT ![k].blocks = s]
        BY <1>3
    <2> HIDE DEF s
    <2>4. /\ fetching' \in [1..Batches -> BatchType]
          /\ \A j \in 1..Batches : j # k => fetching'[j] = fetching[j]
          /\ d.stage = b.stage /\ d.hashes = b.hashes /\ d.blocks = s /\ d.undo = b.undo
        BY <1>1, <2>1, <2>3 DEF BatchType
    <2>5. BatchRight(k, d)
        BY <1>1, <2>1, <2>2, <2>4 DEF BatchRight
    <2> QED
        BY <2>4, <2>5, BatchStep
<1>4. CASE /\ ~Answered(b.undo, a.at)
           /\ fetching' = [fetching EXCEPT ![k].undo = Append(@, a)]
    <2> DEFINE s == Append(b.undo, a)
    <2>1. s \in Seq(Answers) /\ Filed(k, s)
        BY <1>1, <1>2, <1>4, OneMore DEF BatchRight
    <2>2. OfHashes(b.hashes, s)
        BY <1>1, OneMoreOfHashes DEF BatchRight
    <2>3. fetching' = [fetching EXCEPT ![k].undo = s]
        BY <1>4
    <2> HIDE DEF s
    <2>4. /\ fetching' \in [1..Batches -> BatchType]
          /\ \A j \in 1..Batches : j # k => fetching'[j] = fetching[j]
          /\ d.stage = b.stage /\ d.hashes = b.hashes /\ d.blocks = b.blocks /\ d.undo = s
        BY <1>1, <2>1, <2>3 DEF BatchType
    <2>5. BatchRight(k, d)
        BY <1>1, <2>1, <2>2, <2>4 DEF BatchRight
    <2> QED
        BY <2>4, <2>5, BatchStep
<1> QED
    BY <1>3, <1>4

\* The block of a height follows its own hash.
LEMMA HeightStep ==
    ASSUME FetchInv, NEW k \in 1..Batches, NEW i \in 1..BatchSize, HeightBlockArrives(k, i)
    PROVE  FetchInv'
<1>1. PICK a \in ToSet(fetching[k].hashes) :
          a.at = i /\ fetching' = [fetching EXCEPT ![k].blocks = Append(@, a)]
    BY DEF HeightBlockArrives
<1>2. a \in Answers
    BY BatchFacts, LenProperties, ElementOfSeq DEF ToSet
<1>3. a.value = Internal(a.value) /\ ~ByIpc
    BY DEF HeightBlockArrives, Internal, ByIpc
<1> QED
    BY <1>1, <1>2, <1>3, BodyStep DEF HeightBlockArrives

\* The source answers for a hash.
LEMMA HashBodyStep ==
    ASSUME FetchInv, NEW k \in 1..Batches, NEW i \in 1..BatchSize,
           NEW field \in {"blocks", "undo"}, BodyArrives(k, i, field)
    PROVE  FetchInv'
<1> DEFINE b == fetching[k]
           a == [at |-> i, value |-> Internal(Sorted(b.hashes)[i])]
<1>1. /\ b.stage = "bodies" /\ i \in 1..ThisCount(k) /\ ~Answered(fetching[k][field], i)
      /\ fetching' = [fetching EXCEPT ![k][field] = Append(@, a)]
      /\ UNCHANGED <<kind, node, yielded, frames>>
    BY DEF BodyArrives
<1>2. BatchRight(k, b) /\ b.hashes \in Seq(Answers)
    BY BatchFacts
<1>3. Len(b.hashes) = ThisCount(k) /\ Filed(k, b.hashes)
    BY <1>1, <1>2 DEF BatchRight
<1>4. PICK h \in ToSet(b.hashes) : h.at = i /\ Sorted(b.hashes)[i] = h.value
    BY <1>1, <1>2, <1>3, SortedRight
<1>5. a.at = i /\ a.value = Internal(h.value)
    BY <1>4
<1>6. Internal(h.value) \in Known
    BY <1>2, KnownBlocks DEF BatchRight
<1>7. a \in Answers
    BY <1>4, <1>6 DEF Answers
<1>8. \/ /\ ~Answered(b.blocks, i)
         /\ fetching' = [fetching EXCEPT ![k].blocks = Append(@, a)]
      \/ /\ ~Answered(b.undo, i)
         /\ fetching' = [fetching EXCEPT ![k].undo = Append(@, a)]
    <2>1. CASE field = "blocks"
        BY <1>1, <2>1
    <2>2. CASE field = "undo"
        BY <1>1, <2>2
    <2> QED
        BY <2>1, <2>2
<1> HIDE DEF a
<1> QED
    BY <1>1, <1>4, <1>5, <1>7, <1>8, BodyStep, ZenonT(60)

\* What the consumer may rely on in the frame of a height.
FrameRight(f, height) ==
    /\ f \in FrameType /\ f.height = height /\ height \in HeightsOf(f.hash) /\ f.block = f.hash
    /\ f.undo = IF kind \in {"rest", "indexer"} THEN f.hash ELSE NoUndo

\* A complete batch has the right frames, one per height.
LEMMA BatchFrames ==
    ASSUME FetchInv, NEW k \in 1..Batches,
           \A field \in Bodies : Len(fetching[k][field]) = ThisCount(k)
    PROVE  /\ Len(fetching[k].hashes) = ThisCount(k)
           /\ \A i \in 1..ThisCount(k) : FrameRight(FramesOf(k)[i], HeightOf(k, i))
<1> DEFINE b == fetching[k]
           T == ThisCount(k)
<1>1. /\ BatchRight(k, b) /\ T \in 1..BatchSize
      /\ b.hashes \in Seq(Answers) /\ b.blocks \in Seq(Answers) /\ b.undo \in Seq(Answers)
    BY BatchFacts
<1>2. Len(b.blocks) = T /\ (kind \in {"rest", "indexer"} => Len(b.undo) = T)
    BY DEF Bodies
<1>3. /\ Filed(k, b.hashes) /\ Filed(k, b.blocks) /\ Filed(k, b.undo)
      /\ OfHashes(b.hashes, b.blocks) /\ OfHashes(b.hashes, b.undo)
      /\ \A a \in ToSet(b.hashes) : HeightOf(k, a.at) \in HeightsOf(Internal(a.value))
    BY <1>1 DEF BatchRight
<1>4. ASSUME NEW answers \in Seq(Answers), OfHashes(b.hashes, answers),
             NEW a \in ToSet(answers)
      PROVE  \E h \in ToSet(b.hashes) : h.at = a.at /\ a.value = Internal(h.value)
    BY <1>4, LenProperties DEF ToSet, OfHashes
<1>5. Len(b.hashes) = T
    <2>1. ASSUME NEW i \in 1..T PROVE \E h \in ToSet(b.hashes) : h.at = i
        <3>1. \E a \in ToSet(b.blocks) : a.at = i
            BY <1>1, <1>2, <1>3, FullBatch
        <3> QED
            BY <1>1, <1>3, <1>4, <3>1
    <2> QED
        BY <1>1, <1>3, <2>1, FullBatch
<1>6. ASSUME NEW i \in 1..T PROVE FrameRight(FramesOf(k)[i], HeightOf(k, i))
    <2> DEFINE f == FramesOf(k)[i]
               undo == kind \in {"rest", "indexer"}
    <2>1. PICK h \in ToSet(b.hashes) : h.at = i /\ Sorted(b.hashes)[i] = h.value
        BY <1>1, <1>3, <1>5, SortedRight
    <2>2. ASSUME NEW answers \in Seq(Answers), Len(answers) = T, Filed(k, answers),
                 OfHashes(b.hashes, answers)
          PROVE  Sorted(answers)[i] = Internal(h.value)
        <3>1. PICK a \in ToSet(answers) : a.at = i /\ Sorted(answers)[i] = a.value
            BY <2>2, SortedRight
        <3>2. PICK g \in ToSet(b.hashes) : g.at = a.at /\ a.value = Internal(g.value)
            BY <1>4, <2>2
        <3>3. g = h
            BY <1>1, <1>3, <2>1, <3>1, <3>2, SameAnswer
        <3> QED
            BY <3>1, <3>2, <3>3
    <2>3. Sorted(b.blocks)[i] = Internal(h.value) /\ (undo => Sorted(b.undo)[i] = Internal(h.value))
        BY <1>1, <1>2, <1>3, <2>2
    <2>4. "undo" \in Bodies <=> undo
        BY DEF Bodies
    <2>5. f = [height |-> HeightOf(k, i), hash |-> Internal(Sorted(b.hashes)[i]),
               block |-> Sorted(b.blocks)[i],
               undo |-> IF "undo" \in Bodies THEN Sorted(b.undo)[i] ELSE NoUndo]
        BY <1>5 DEF FramesOf
    <2>6. /\ f = [height |-> HeightOf(k, i), hash |-> Internal(h.value), block |-> Internal(h.value),
                  undo |-> IF undo THEN Internal(h.value) ELSE NoUndo]
        BY <2>1, <2>3, <2>4, <2>5
    <2>7. HeightOf(k, i) \in HeightsOf(Internal(h.value)) /\ Internal(h.value) \in Known
        BY <1>3, <2>1, KnownBlocks
    <2>8. HeightOf(k, i) \in Nat
        BY <1>1, BatchPlace, StreamAssumption DEF HeightOf
    <2> HIDE DEF f
    <2> QED
        BY <2>6, <2>7, <2>8 DEF FrameRight, FrameType, f
<1> QED
    BY <1>5, <1>6

\* The frames of the next batch continue the stream.
LEMMA YieldStep ==
    ASSUME FetchInv, Yield
    PROVE  FetchInv'
<1> DEFINE k == yielded + 1
           F == FramesOf(k)
           T == ThisCount(k)
           n == Len(frames)
           d == NoAnswers("done")
<1>0. Batches \in Nat \ {0} /\ yielded \in 0..Batches /\ Start \in Nat
    BY BatchesCover, StreamAssumption DEF FetchInv
<1>1. /\ k \in 1..Batches /\ yielded' = yielded + 1 /\ frames' = frames \o F
      /\ \A field \in Bodies : Len(fetching[k][field]) = T
      /\ fetching' = [fetching EXCEPT ![k] = d] /\ UNCHANGED <<kind, node>>
    BY <1>0 DEF Yield
<1>2. /\ Len(fetching[k].hashes) = T
      /\ \A i \in 1..T : FrameRight(F[i], HeightOf(k, i))
    BY <1>1, BatchFrames
<1>3. /\ T \in Nat /\ BatchStart(k) = Start + Taken(yielded) /\ Taken(yielded) \in Nat
      /\ Taken(yielded + 1) = Taken(yielded) + T /\ Taken(yielded + 1) <= Count
    <2>1. k - 1 = yielded
        BY <1>0
    <2> QED
        BY <1>1, <2>1, BatchPlace, StreamAssumption
<1>4. frames \in Seq(FrameType) /\ n = Taken(yielded) /\ StreamInOrder
    BY DEF FetchInv
<1>5. F \in Seq(FrameType) /\ Len(F) = T
    <2>1. F = [i \in 1..T |-> F[i]]
        BY <1>2 DEF FramesOf
    <2>2. F \in [1..T -> FrameType]
        <3> HIDE DEF F
        <3> QED
            BY <1>2, <2>1 DEF FrameRight
    <2> HIDE DEF F, T
    <2>3. F \in Seq(FrameType)
        BY <1>3, <2>2, SeqDef
    <2>4. DOMAIN F = 1..T /\ Len(F) \in Nat /\ DOMAIN F = 1..Len(F)
        BY <2>2, <2>3, LenProperties
    <2> QED
        BY <1>3, <2>3, <2>4
<1>6. /\ fetching' \in [1..Batches -> BatchType]
      /\ \A j \in 1..Batches : BatchRight(j, fetching[j])'
    <2>1. d \in BatchType /\ BatchRight(k, d)
        BY <1>1, EmptyBatch
    <2>2. \A j, b : BatchRight(j, b)' <=> BatchRight(j, b)
        BY <1>1 DEF BatchRight, OfHashes, Internal, ByIpc
    <2>3. fetching \in [1..Batches -> BatchType] /\ \A j \in 1..Batches : BatchRight(j, fetching[j])
        BY DEF FetchInv
    <2> HIDE DEF d
    <2>4. fetching' \in [1..Batches -> BatchType] /\ \A j \in 1..Batches : BatchRight(j, fetching'[j])
        BY <1>1, <2>1, <2>3
    <2> QED
        BY <2>2, <2>4
<1> HIDE DEF F, T
<1>7. /\ frames' \in Seq(FrameType) /\ Len(frames') = n + T
      /\ \A i \in 1..n : frames'[i] = frames[i]
      /\ \A i \in 1..T : frames'[n + i] = F[i]
    <2>1. n \in Nat
        BY <1>3, <1>4
    <2>2. /\ frames' \in Seq(FrameType) /\ Len(frames') = n + T
          /\ \A i \in 1..(n + T) : frames'[i] = IF i <= n THEN frames[i] ELSE F[i - n]
        BY <1>1, <1>4, <1>5, ConcatProperties
    <2>3. \A i \in 1..n : i \in 1..(n + T) /\ i <= n
        BY <1>3, <2>1
    <2>4. \A i \in 1..T : n + i \in 1..(n + T) /\ ~(n + i <= n) /\ n + i - n = i
        BY <1>3, <2>1
    <2> QED
        BY <2>2, <2>3, <2>4
<1>8. n \in Nat /\ DOMAIN frames = 1..n /\ DOMAIN frames' = 1..(n + T)
    BY <1>4, <1>7, LenProperties
<1>9. ASSUME NEW i \in DOMAIN frames'
      PROVE  /\ frames'[i].height = Start + i - 1
             /\ frames'[i].height \in HeightsOf(frames'[i].hash)
             /\ frames'[i].block = frames'[i].hash
             /\ frames'[i].undo = IF kind \in {"rest", "indexer"} THEN frames'[i].hash ELSE NoUndo
    <2>1. CASE i \in 1..n
        BY <1>4, <1>7, <1>8, <2>1 DEF StreamInOrder
    <2>2. CASE i \notin 1..n
        <3> DEFINE j == i - n
        <3>1. j \in 1..T /\ n + j = i
            BY <1>3, <1>8, <2>2
        <3>2. HeightOf(k, j) = Start + i - 1
            BY <1>0, <1>3, <1>4, <1>8, <3>1 DEF HeightOf
        <3> HIDE DEF j
        <3>3. frames'[i] = F[j]
            BY <1>7, <3>1
        <3>4. FrameRight(F[j], Start + i - 1)
            BY <1>2, <3>1, <3>2
        <3> QED
            BY <3>3, <3>4 DEF FrameRight
    <2> QED
        BY <2>1, <2>2
<1>10. Len(frames') = Taken(yielded') /\ Len(frames') <= Count
    BY <1>1, <1>3, <1>4, <1>7
<1>11. yielded' = Batches => Len(frames') = Count
    <2>1. yielded' = Batches => Taken(yielded') = Count
        BY <1>0 DEF Taken
    <2> QED
        BY <1>10, <2>1
<1>12. StreamInOrder'
    BY <1>1, <1>9, <1>10, <1>11 DEF StreamInOrder
<1> QED
    BY <1>0, <1>1, <1>6, <1>7, <1>10, <1>12 DEF FetchInv

\* Frames reach the consumer in strict height order without a gap, each with
\* the block and the undo data of its own hash, whatever order the answers
\* come in, for every stream and every source
\* (raw_block_stream_by_height_batched).
THEOREM StreamStaysInOrder == FetchSpec => []StreamInOrder
<1>1. FetchInit => FetchInv
    <2> SUFFICES ASSUME FetchInit PROVE FetchInv
        OBVIOUS
    <2>1. Batches \in Nat \ {0} /\ Count \in Nat \ {0} /\ BatchSize \in Nat
        BY BatchesCover, StreamAssumption
    <2>2. Taken(0) = 0
        BY <2>1 DEF Taken
    <2>3. /\ fetching \in [1..Batches -> BatchType]
          /\ \A k \in 1..Batches : BatchRight(k, fetching[k])
        BY EmptyBatch DEF FetchInit
    <2>4. frames = << >> /\ yielded = 0 /\ frames \in Seq(FrameType) /\ Len(frames) = 0
          /\ DOMAIN frames = {}
        BY DEF FetchInit
    <2>5. StreamInOrder
        BY <2>1, <2>4 DEF StreamInOrder
    <2> QED
        BY <2>1, <2>2, <2>3, <2>4, <2>5 DEF FetchInv, FetchInit
<1>2. FetchInv /\ [FetchNext]_fetchVars => FetchInv'
    <2> SUFFICES ASSUME FetchInv, [FetchNext]_fetchVars PROVE FetchInv'
        OBVIOUS
    <2>1. ASSUME UNCHANGED <<kind, fetching, yielded, frames>>, node' \in Chains PROVE FetchInv'
        BY <2>1 DEF FetchInv, StreamInOrder, BatchRight, OfHashes, Internal, ByIpc
    <2>2. CASE Reorganize \/ YieldError \/ UNCHANGED fetchVars
        BY <2>1, <2>2 DEF FetchInv, Reorganize, YieldError, fetchVars
    <2>3. CASE Yield
        BY <2>3, YieldStep
    <2>4. ASSUME NEW k \in 1..Batches,
                 StartBatch(k) \/ HashesDone(k) \/ AttachUndo(k) \/ RequestFails(k)
          PROVE  FetchInv'
        BY <2>4, StageStep, FailStep
    <2>5. ASSUME NEW k \in 1..Batches, NEW i \in 1..BatchSize,
                 HashArrives(k, i) \/ HeightBlockArrives(k, i) \/ IpcBlockArrives(k, i)
          PROVE  FetchInv'
        BY <2>5, HashStep, HeightStep
    <2>6. ASSUME NEW k \in 1..Batches, NEW i \in 1..BatchSize, NEW field \in {"blocks", "undo"},
                 BodyArrives(k, i, field)
          PROVE  FetchInv'
        BY <2>6, HashBodyStep
    <2> QED
        BY <2>2, <2>3, <2>4, <2>5, <2>6 DEF FetchNext
<1>3. FetchInv => StreamInOrder
    BY DEF FetchInv
<1> QED
    BY <1>1, <1>2, <1>3, PTL DEF FetchSpec
=============================================================================
