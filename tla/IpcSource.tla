----------------------------- MODULE IpcSource -----------------------------
(***************************************************************************)
(* IpcSource: one actor thread owns the Cap'n Proto connection to Bitcoin  *)
(* Core.  Calls from any task enter a bounded channel with a oneshot for   *)
(* their reply; the actor deals each to the next of its server threads and *)
(* spawns a task that awaits the answer.  A server thread works through    *)
(* its calls one at a time, and a wait for a tip change may keep it until  *)
(* the node's tip is another.                                              *)
(*                                                                         *)
(* The connection may be lost for good (nothing reconnects), and a caller  *)
(* may drop its call at any await.  Calls are numbered in the order they   *)
(* begin, which is the order in which the channel's semaphore admits them. *)
(* What a block request answers is the business of RangeFetch.             *)
(***************************************************************************)
EXTENDS Integers, SequencesExt

CONSTANTS
    Tips,        \* tips of the node
    NoTip,       \* old_tip of a wait for any notification
    Threads,     \* BTC_DATA_IPC_THREADS
    Capacity,    \* channel_capacity
    MaxCalls     \* bound on the calls of a behaviour

ASSUME IpcAssumption ==
    /\ Threads \in Nat \ {0} /\ Capacity \in Nat \ {0} /\ MaxCalls \in Nat
    /\ NoTip \notin Tips

VARIABLES
    active_tip,  \* tip of the node
    calls,       \* every call: its request and its stage
    channel,     \* calls in the actor's channel
    serving,     \* server thread -> calls it has been given and not answered
    next_thread, \* IpcActor.next
    connected,   \* the RpcSystem runs
    actor        \* "starts", "runs", "closing" when every IpcSource is dropped, "stopped"

ipcVars == <<active_tip, calls, channel, serving, next_thread, connected, actor>>

\* IpcRequest: a query of the chain, whose height may not fit the Int32 of
\* the interface, or a wait with the tip the caller knows.
Requests ==
    [op : {"query"}, fits : BOOLEAN] \cup [op : {"wait"}, old_tip : Tips \cup {NoTip}]

\* The caller still awaits its reply.
Live(i) == calls[i].stage \in {"sending", "queued", "served"}

\* The actor has a task for the call.
Working(i) == calls[i].stage \in {"served", "abandoned"}

IpcInit ==
    /\ active_tip \in Tips
    /\ calls = <<>>
    /\ channel = <<>>
    /\ serving = [t \in 0..(Threads - 1) |-> <<>>]
    /\ next_thread = 0
    /\ connected = TRUE
    /\ actor = "starts"

\* connect_with_threads: the actor thread connects, asks for its server
\* threads and the chain, and reports; any failure ends it before a source
\* exists.
StartActor ==
    /\ actor = "starts"
    /\ actor' \in (IF connected THEN {"runs", "stopped"} ELSE {"stopped"})
    /\ UNCHANGED <<active_tip, calls, channel, serving, next_thread, connected>>

\* The node has another tip.
TipChanges ==
    /\ active_tip' \in Tips \ {active_tip}
    /\ UNCHANGED <<calls, channel, serving, next_thread, connected, actor>>

\* The RpcSystem terminates.
Disconnect ==
    /\ connected
    /\ connected' = FALSE
    /\ UNCHANGED <<active_tip, calls, channel, serving, next_thread, actor>>

\* request: the call waits for room in the channel.
BeginCall(r) ==
    /\ actor = "runs" /\ Len(calls) < MaxCalls
    /\ calls' = Append(calls, [request |-> r, stage |-> "sending"])
    /\ UNCHANGED <<active_tip, channel, serving, next_thread, connected, actor>>

\* The oldest waiting call gets a slot.
Enqueue(i) ==
    /\ calls[i].stage = "sending" /\ \A j \in 1..(i - 1) : calls[j].stage # "sending"
    /\ Len(channel) < Capacity
    /\ channel' = Append(channel, i)
    /\ calls' = [calls EXCEPT ![i].stage = "queued"]
    /\ UNCHANGED <<active_tip, serving, next_thread, connected, actor>>

\* The call's future is dropped: before it was sent it is gone, later the
\* actor still works on it and nobody takes the reply.
CancelCall(i) ==
    /\ Live(i)
    /\ calls' = [calls EXCEPT ![i].stage =
                    CASE @ = "sending" -> "gone" [] @ = "queued" -> "dropped" [] OTHER -> "abandoned"]
    /\ UNCHANGED <<active_tip, channel, serving, next_thread, connected, actor>>

\* The reply is sent, an answer or an error; the receiver may be gone.
SendReply(i) == calls' = [calls EXCEPT ![i].stage = IF Live(i) THEN "returned" ELSE "gone"]

\* pick_thread: round robin.
PickThread == next_thread' = (next_thread + 1) % Threads

\* The height of a query does not fit the Int32 of the interface.
HeightRefused(request) == request.op = "query" /\ ~request.fits

\* The task spawned for a request: a height the interface cannot carry fails
\* at once, any other call goes to the picked thread.
SpawnTask(i) ==
    IF HeightRefused(calls[i].request)
    THEN SendReply(i) /\ UNCHANGED serving
    ELSE /\ serving' = [serving EXCEPT ![next_thread] = Append(@, i)]
         /\ calls' = [calls EXCEPT ![i].stage = IF @ = "queued" THEN "served" ELSE "abandoned"]

\* Variant: a request is received only when the ones before it are answered.
RunSerial ==
    /\ actor \in {"runs", "closing"} /\ channel # <<>>
    /\ \A t \in DOMAIN serving : serving[t] = <<>>
    /\ SpawnTask(Head(channel)) /\ PickThread
    /\ channel' = Tail(channel)
    /\ UNCHANGED <<active_tip, connected, actor>>

\* run: receive, pick a thread, spawn.
Run ==
    /\ actor \in {"runs", "closing"} /\ channel # <<>>
    /\ SpawnTask(Head(channel)) /\ PickThread
    /\ channel' = Tail(channel)
    /\ UNCHANGED <<active_tip, connected, actor>>

\* The server thread finishes its oldest call and the task replies: with the
\* value, with an error for what was not found or malformed, or for a wait
\* that ends (it may end early).
ServerAnswers(t) ==
    /\ connected /\ actor # "stopped"
    /\ serving[t] # <<>>
    /\ SendReply(Head(serving[t]))
    /\ serving' = [serving EXCEPT ![t] = Tail(@)]
    /\ UNCHANGED <<active_tip, channel, next_thread, connected, actor>>

\* Without a connection every outstanding promise fails.
PromiseFails(i) ==
    /\ ~connected /\ actor # "stopped"
    /\ Working(i)
    /\ SendReply(i)
    /\ serving' = [t \in DOMAIN serving |-> SelectSeq(serving[t], LAMBDA j : j # i)]
    /\ UNCHANGED <<active_tip, channel, next_thread, connected, actor>>

\* The last IpcSource is dropped; a call in progress holds one.
DropSource ==
    /\ actor = "runs"
    /\ \A i \in DOMAIN calls : ~Live(i)
    /\ actor' = "closing"
    /\ UNCHANGED <<active_tip, calls, channel, serving, next_thread, connected>>

\* recv returns None once the channel is empty; the LocalSet drops its tasks.
StopActor ==
    /\ actor = "closing" /\ channel = <<>>
    /\ actor' = "stopped"
    /\ calls' = [i \in DOMAIN calls |->
                    IF Working(i) THEN [calls[i] EXCEPT !.stage = "gone"] ELSE calls[i]]
    /\ serving' = [t \in DOMAIN serving |-> <<>>]
    /\ UNCHANGED <<active_tip, channel, next_thread, connected>>

IpcNext ==
    \/ StartActor \/ TipChanges \/ Disconnect \/ Run \/ DropSource \/ StopActor
    \/ \E r \in Requests : BeginCall(r)
    \/ \E i \in DOMAIN calls : Enqueue(i) \/ CancelCall(i) \/ PromiseFails(i)
    \/ \E t \in DOMAIN serving : ServerAnswers(t)

\* The call waits for a tip the node has moved on from, or does not wait.
Due(i) == calls[i].request.op = "wait" => calls[i].request.old_tip # active_tip

\* The node answers what a thread works on, but need not end a wait while
\* its tip is the one the caller knows.
MustAnswer(t) == ServerAnswers(t) /\ Due(Head(serving[t]))

IpcFairness ==
    /\ WF_ipcVars(Run)
    /\ \A i \in 1..MaxCalls : WF_ipcVars(i \in DOMAIN calls /\ Enqueue(i))
                              /\ WF_ipcVars(i \in DOMAIN calls /\ PromiseFails(i))
    /\ \A t \in 0..(Threads - 1) : WF_ipcVars(MustAnswer(t))
-----------------------------------------------------------------------------
\* Call i has reached a server thread that is kept, by it or by a call before
\* it, in a wait for a tip the node still has.
KeptWaiting(i) ==
    \E t \in DOMAIN serving : \E k \in DOMAIN serving[t] :
        serving[t][k] = i /\ \E j \in 1..k : ~Due(serving[t][j])

(* Every call returns, with an answer or an error, through a full channel, *)
(* calls whose callers left and the loss of the connection; only a wait    *)
(* for a tip that has not changed may keep a call, and only one dealt to   *)
(* the thread of that wait (request, run, pick_thread).                    *)
CallsReturn ==
    \A i \in 1..MaxCalls :
        (i \in DOMAIN calls /\ Live(i)) ~> (i \in DOMAIN calls /\ (~Live(i) \/ KeptWaiting(i)))
=============================================================================
