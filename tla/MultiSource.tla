----------------------------- MODULE MultiSource -----------------------------
(***************************************************************************)
(* MultiSource: every BlockSource request takes sources from one shared    *)
(* atomic cursor, as many times as there are sources, until one answers.   *)
(* The requests of a concurrent batch run in separate tasks and interleave *)
(* at each await.  Sources go down and come back on their own.  The        *)
(* 64-bit cursor does not wrap in practice, so it is kept modulo the       *)
(* number of sources.                                                      *)
(***************************************************************************)
EXTENDS Naturals, FiniteSets

CONSTANTS
    N,         \* number of sources
    Callers    \* requests that may be in flight together

ASSUME SomeSource == N \in Nat \ {0}   \* the assert in MultiSource::new

Sources == 0..(N - 1)

VARIABLES
    cursor,   \* next source
    down,     \* sources that answer every request with an error
    call      \* caller -> [stage, at, left, asked, crossed]

multiVars == <<cursor, down, call>>

\* asked and crossed are history: the sources asked so far, and whether another
\* request moved the cursor since the first of them.
NewCall(stage, left) ==
    [stage |-> stage, at |-> 0, left |-> left, asked |-> {}, crossed |-> FALSE]

MultiInit ==
    /\ cursor = 0
    /\ down = {}
    /\ call = [c \in Callers |-> NewCall("idle", 0)]

\* A request enters its retry loop.
Call(c) ==
    /\ call[c].stage \in {"idle", "ok", "err"}
    /\ call' = [call EXCEPT ![c] = NewCall("pick", N)]
    /\ UNCHANGED <<cursor, down>>

\* Caller c asks source s; the cursor's move is seen by the others.
Ask(c, s) ==
    call' = [d \in Callers |->
        IF d = c
        THEN [call[c] EXCEPT !.stage = "await", !.at = s, !.asked = @ \cup {s}]
        ELSE [call[d] EXCEPT !.crossed = @ \/ (call[d].stage \in {"pick", "await"}
                                               /\ call[d].asked # {})]]

\* Variant: a retry asks the same source again.
PickAgain(c) ==
    /\ call[c].stage = "pick"
    /\ Ask(c, IF call[c].asked = {} THEN cursor ELSE call[c].at)
    /\ cursor' = IF call[c].asked = {} THEN (cursor + 1) % N ELSE cursor
    /\ UNCHANGED down

\* pick: fetch_add on the cursor, then the source's own request begins.
Pick(c) ==
    /\ call[c].stage = "pick"
    /\ Ask(c, cursor)
    /\ cursor' = (cursor + 1) % N
    /\ UNCHANGED down

\* The source answers and the request returns Ok.
Answer(c) ==
    /\ call[c].stage = "await" /\ call[c].at \notin down
    /\ call' = [call EXCEPT ![c].stage = "ok"]
    /\ UNCHANGED <<cursor, down>>

\* The source fails: the next turn of the loop, or the last error.
SourceFails(c) ==
    /\ call[c].stage = "await" /\ call[c].at \in down
    /\ call' = [call EXCEPT ![c].left = @ - 1,
                            ![c].stage = IF call[c].left = 1 THEN "err" ELSE "pick"]
    /\ UNCHANGED <<cursor, down>>

\* A source goes down or comes back.
Toggle(s) ==
    /\ down' = IF s \in down THEN down \ {s} ELSE down \cup {s}
    /\ UNCHANGED <<cursor, call>>

MultiNext ==
    \/ \E c \in Callers : Call(c) \/ Pick(c) \/ Answer(c) \/ SourceFails(c)
    \/ \E s \in Sources : Toggle(s)

MultiSpec == MultiInit /\ [][MultiNext]_multiVars

----------------------------------------------------------------------------
(* "On error from one source, falls through to the next": a request fails  *)
(* only after every configured source was asked for it, unless another     *)
(* request took a turn of the shared cursor in between (pick).  Then it    *)
(* may have asked one failing source several times and another not once.   *)
FallsThrough ==
    \A c \in Callers :
        call[c].stage = "err" /\ ~call[c].crossed => call[c].asked = Sources
=============================================================================
