------------------------------ MODULE Requests ------------------------------
(***************************************************************************)
(* The way of a request through one server process: limiter by address,    *)
(* timeout, authentication, limiter by subject, body, handler; and the rows*)
(* of circuits, functions and invocations that the handlers share.  Every  *)
(* SQL statement is a step, since the connection is locked for one at a    *)
(* time.  A handler can be cancelled, by the timeout or by a client that   *)
(* goes away, only where it awaits; the timer is not tied to the clock, so *)
(* it may fire at any such moment.  The process may crash; the rows survive*)
(* it.                                                                     *)
(***************************************************************************)
EXTENDS RateLimit

CONSTANTS
    Tasks,          \* clients, each with one request at a time
    Menu,           \* per limits: the requests each client makes [call, ip, sub, id]
    Circuits, Functions, Invocations,   \* identifiers, used once
    MaxClock,       \* bound, per limits: the time that is modelled
    MaxBoots,       \* bound: how often the server is started
    MaxRequests,    \* bound, per limits: how many requests are made
    Faults          \* whether statements may fail and handlers panic

None == "none"
Calls == {"read", "upload", "delete", "define", "invoke", "guest"}

ASSUME RequestsAssumption ==
    /\ MaxClock \in [Limits -> Nat] /\ MaxRequests \in [Limits -> Nat]
    /\ MaxBoots \in Nat /\ Faults \in BOOLEAN
    /\ None \notin Invocations
    /\ \A l \in Limits : \A t \in Tasks : \A r \in Menu[l][t] :
         /\ r.ip \in Keys /\ Surface[r.ip] = "ip"
         /\ r.sub \in Keys /\ Surface[r.sub] = "subject"
         /\ r.call \in Calls
         /\ r.call \in {"delete", "define"} => r.id \in Circuits
         /\ r.call = "invoke" => r.id \in Functions

VARIABLES
    task,           \* per client: its request and how far it has come
    told,           \* per client: the last 429 it was given
    circuits,       \* per id: "free", "live" or "deleted"
    functions,      \* per id: None or its circuit
    invocations,    \* per id: [status, boot, lost]
    boot,           \* how often the server was started
    made            \* how many requests were made

vars == <<rateVars, task, told, circuits, functions, invocations, boot, made>>

Idle == [pc |-> "idle", req |-> None, stamp |-> 0, inv |-> None, result |-> None]
NotTold == [key |-> None, due |-> 0, seen |-> 0]
NoRow == [status |-> "free", boot |-> 0, lost |-> FALSE]

Init ==
    /\ RateInit
    /\ task = [t \in Tasks |-> Idle]
    /\ told = [t \in Tasks |-> NotTold]
    /\ \E live \in SUBSET Circuits : circuits = [c \in Circuits |-> IF c \in live THEN "live" ELSE "free"]
    /\ functions = [f \in Functions |-> None]
    /\ invocations = [v \in Invocations |-> NoRow]
    /\ boot = 1
    /\ made = 0

At(t, pc) == task[t].pc = pc
Goes(t, pc) == task' = [task EXCEPT ![t].pc = pc]
\* The handler answers; result is what the client is told.
Answers(t, result) ==
    task' = [task EXCEPT ![t] = [Idle EXCEPT !.pc = "answered", !.inv = task[t].inv, !.result = result]]

rows == <<circuits, functions, invocations>>

-----------------------------------------------------------------------------
(* The layers.                                                             *)

\* A request arrives; its check of the address limit reads the time.
Arrive(t) ==
    /\ At(t, "idle") /\ made < MaxRequests[limit]
    /\ made' = made + 1
    /\ \E r \in Menu[limit][t] : task' = [task EXCEPT ![t] = [Idle EXCEPT !.pc = "ip", !.req = r, !.stamp = TimeRead(r.ip)]]
    /\ UNCHANGED <<rateVars, told, rows, boot>>

\* 429, with the time after which it is worth trying again.
TooMany(t, k) ==
    /\ Throttle(k, task[t].stamp)
    /\ told' = [told EXCEPT ![t] =
                   [key |-> k, due |-> clock + (retry_after(k, task[t].stamp) + 1) * Second,
                    seen |-> Len(log[k])]]
    /\ Answers(t, "refused")

\* What a client was told of k is settled once k lets it through.
Passes(t, k) ==
    /\ LetThrough(k, task[t].stamp)
    /\ told' = [told EXCEPT ![t] = IF @.key = k THEN NotTold ELSE @]

\* rate_limit_ip, then request_timeout starts its timer.
CheckIp(t) ==
    /\ At(t, "ip")
    /\ LET k == task[t].req.ip IN
         \/ /\ Passes(t, k)
            /\ task' = [task EXCEPT ![t].pc = "auth", ![t].stamp = 0]
         \/ TooMany(t, k)
    /\ UNCHANGED <<rows, boot, made>>

\* require_auth, whose verdict is the token's; the next check reads the time.
Authenticate(t) ==
    /\ At(t, "auth")
    /\ \/ Answers(t, "refused")
       \/ task' = [task EXCEPT ![t].pc = "subject", ![t].stamp = TimeRead(task[t].req.sub)]
    /\ UNCHANGED <<rateVars, told, rows, boot, made>>

\* rate_limit_subject.
CheckSubject(t) ==
    /\ At(t, "subject")
    /\ LET k == task[t].req.sub IN
         \/ /\ Passes(t, k)
            /\ task' = [task EXCEPT ![t].pc = "body", ![t].stamp = 0]
         \/ TooMany(t, k)
    /\ UNCHANGED <<rows, boot, made>>

\* The body is there, or cannot be read; the rights of the token are looked at
\* and the handler begins.
Body(t) ==
    /\ At(t, "body")
    /\ \/ Answers(t, "refused")
       \/ Goes(t, task[t].req.call)
    /\ UNCHANGED <<rateVars, told, rows, boot, made>>

\* Mistakes: a simulation awaits too; a guest is waited for without end.
SlipCancellable == {"body", "guest", "compute"}
SlipAwaited == {"body"}

\* The states in which the task awaits.
Cancellable == {"body", "guest"}

RequestTimeout(t) ==
    /\ task[t].pc \in Cancellable
    /\ Answers(t, "refused")
    /\ UNCHANGED <<rateVars, told, rows, boot, made>>

Disconnect(t) ==
    /\ task[t].pc \in Cancellable
    /\ task' = [task EXCEPT ![t] = Idle]
    /\ UNCHANGED <<rateVars, told, rows, boot, made>>

\* The answer is sent.
Sent(t) ==
    /\ At(t, "answered")
    /\ task' = [task EXCEPT ![t] = Idle]
    /\ UNCHANGED <<rateVars, told, rows, boot, made>>

-----------------------------------------------------------------------------
(* The handlers, one SQL statement at a time.                              *)

Referenced(c) == \E f \in Functions : functions[f] = c

\* The REFERENCES clause, when a function is inserted.
SlipReferenceHolds(c) == circuits[c] # "free"
ReferenceHolds(c) == circuits[c] = "live"

\* get_circuit, list_circuits and their like.
Read(t) ==
    /\ At(t, "read")
    /\ \E result \in {"completed", "refused"} : Answers(t, result)
    /\ UNCHANGED <<rateVars, told, rows, boot, made>>

\* create_circuit.
Upload(t) ==
    /\ At(t, "upload")
    /\ \/ \E c \in Circuits :
            /\ circuits[c] = "free"
            /\ circuits' = [circuits EXCEPT ![c] = "live"]
            /\ Answers(t, "completed")
       \/ Answers(t, "refused") /\ UNCHANGED circuits      \* does not parse
    /\ UNCHANGED <<rateVars, told, functions, invocations, boot, made>>

\* delete_circuit: a circuit that a function refers to is not deleted.
Delete(t) ==
    /\ At(t, "delete")
    /\ LET c == task[t].req.id IN
         \/ /\ circuits[c] = "live" /\ ~Referenced(c)
            /\ circuits' = [circuits EXCEPT ![c] = "deleted"]
            /\ Answers(t, "completed")
         \/ /\ circuits[c] # "live"
            /\ Answers(t, "refused") /\ UNCHANGED circuits
         \/ /\ Faults \/ (circuits[c] = "live" /\ Referenced(c))
            /\ Answers(t, "refused") /\ UNCHANGED circuits
    /\ UNCHANGED <<rateVars, told, functions, invocations, boot, made>>

\* register_function looks the circuit up and then inserts.
DefineLookup(t) ==
    /\ At(t, "define")
    /\ \/ circuits[task[t].req.id] = "live" /\ Goes(t, "insert")
       \/ (Faults \/ circuits[task[t].req.id] # "live") /\ Answers(t, "refused")
    /\ UNCHANGED <<rateVars, told, rows, boot, made>>

DefineInsert(t) ==
    /\ At(t, "insert")
    /\ LET c == task[t].req.id IN
         \/ /\ ReferenceHolds(c)
            /\ \E f \in Functions :
                 functions[f] = None /\ functions' = [functions EXCEPT ![f] = c]
            /\ Answers(t, "completed")
         \/ /\ Faults \/ ~ReferenceHolds(c)
            /\ Answers(t, "refused") /\ UNCHANGED functions
    /\ UNCHANGED <<rateVars, told, circuits, invocations, boot, made>>

\* invoke_function: the function is looked up, ...
InvokeLookup(t) ==
    /\ At(t, "invoke")
    /\ \/ functions[task[t].req.id] # None /\ Goes(t, "create")
       \/ (Faults \/ functions[task[t].req.id] = None) /\ Answers(t, "refused")
    /\ UNCHANGED <<rateVars, told, rows, boot, made>>

\* ... a pending row inserted, ...
InvokeCreate(t) ==
    /\ At(t, "create")
    /\ \/ \E v \in Invocations :
            /\ invocations[v] = NoRow
            /\ invocations' = [invocations EXCEPT ![v] = [status |-> "pending", boot |-> boot, lost |-> FALSE]]
            /\ task' = [task EXCEPT ![t].pc = "source", ![t].inv = v]
       \/ Faults /\ Answers(t, "refused") /\ UNCHANGED invocations
    /\ UNCHANGED <<rateVars, told, circuits, functions, boot, made>>

\* ... execute_circuit: the source is read, lowered, bound to the parameters
\* and admitted, ...
InvokeSource(t) ==
    /\ At(t, "source")
    /\ \/ circuits[functions[task[t].req.id]] = "live" /\ Goes(t, "compute")
       \/ task' = [task EXCEPT ![t].pc = "finish", ![t].result = "failed"]
    /\ UNCHANGED <<rateVars, told, rows, boot, made>>

\* ... simulated, on the thread of the task, which may panic, ...
Compute(t) ==
    /\ At(t, "compute")
    /\ \E result \in {"completed", "failed"} :
         task' = [task EXCEPT ![t].pc = "finish", ![t].result = result]
    /\ UNCHANGED <<rateVars, told, rows, boot, made>>

Panic(t) ==
    /\ Faults /\ At(t, "compute")
    /\ task' = [task EXCEPT ![t] = Idle]
    /\ invocations' = [invocations EXCEPT ![task[t].inv].lost = TRUE]
    /\ UNCHANGED <<rateVars, told, circuits, functions, boot, made>>

\* ... and the row is completed or failed; an error of that is ignored.
Finish(t) ==
    /\ At(t, "finish")
    /\ \/ invocations' = [invocations EXCEPT ![task[t].inv].status = task[t].result]
       \/ Faults /\ invocations' = [invocations EXCEPT ![task[t].inv].lost = TRUE]
    /\ Answers(t, task[t].result)
    /\ UNCHANGED <<rateVars, told, circuits, functions, boot, made>>

\* invoke_lambda: the guest runs on a thread of its own, which the handler
\* awaits; a cancelled handler does not stop it.
GuestEnds(t) ==
    /\ At(t, "guest")
    /\ \E result \in {"completed", "failed"} : Answers(t, result)
    /\ UNCHANGED <<rateVars, told, rows, boot, made>>

-----------------------------------------------------------------------------
Tick ==
    /\ clock < MaxClock[limit]
    /\ clock' = clock + 1
    /\ UNCHANGED <<limit, log, front, since_gc, task, told, rows, boot, made>>

\* The process dies and is started again: tasks and limiters begin anew.
Crash ==
    /\ boot < MaxBoots
    /\ boot' = boot + 1
    /\ task' = [t \in Tasks |-> Idle]
    /\ Restarted
    /\ told' = [t \in Tasks |-> NotTold]
    /\ UNCHANGED <<clock, limit, rows, made>>

\* What the server does of itself with a task.
Serve(t) ==
    \/ CheckIp(t) \/ Authenticate(t) \/ CheckSubject(t)
    \/ Read(t) \/ Upload(t) \/ Delete(t) \/ DefineLookup(t) \/ DefineInsert(t)
    \/ InvokeLookup(t) \/ InvokeCreate(t) \/ InvokeSource(t) \/ Compute(t) \/ Finish(t)
    \/ RequestTimeout(t) \/ Sent(t)

Next ==
    \/ \E t \in Tasks : Arrive(t) \/ Serve(t) \/ Body(t) \/ GuestEnds(t) \/ Disconnect(t) \/ Panic(t)
    \/ Tick
    \/ Crash

Spec == Init /\ [][Next]_vars

\* The runtime polls every task that is ready and fires its timers; a
\* simulation ends.  Nothing is assumed of clients and guests.
Fairness == \A t \in Tasks : WF_vars(Serve(t))
FairSpec == Spec /\ Fairness

-----------------------------------------------------------------------------
\* A function always has its circuit, although register_function looks it up
\* in one statement and inserts in another, with deletes in between
\* (registry.rs register_function, delete_circuit).
RowsRefer ==
    \A f \in Functions : functions[f] # None => circuits[functions[f]] = "live"

\* While the server is up, a pending row has a handler that works on it, and a
\* final one says what its client was told: neither the timeout nor a client
\* that goes away leaves a row behind, since nothing awaits between its insert
\* and its update.  Rows whose update failed, or whose handler panicked, are
\* the exception (routes.rs invoke_function).
InvocationsSettle ==
    /\ \A v \in Invocations : invocations[v].status = "pending" =>
          \/ invocations[v].boot # boot \/ invocations[v].lost
          \/ \E t \in Tasks : task[t].inv = v /\ task[t].pc \in {"source", "compute", "finish"}
    /\ \A t \in Tasks : At(t, "answered") /\ task[t].inv # None =>
          invocations[task[t].inv].status = task[t].result \/ invocations[task[t].inv].lost

\* A client that was told to come back and waits for that long and a second,
\* the one that as_secs cut off, is let through, unless the key was used in
\* the meantime (rate_limit.rs Retry-After).
RetryHelps ==
    \A t \in Tasks : LET w == told[t] IN
        (/\ w.key # None /\ task[t].stamp >= w.due
         /\ \/ At(t, "ip") /\ task[t].req.ip = w.key
            \/ At(t, "subject") /\ task[t].req.sub = w.key
         /\ Len(log[w.key]) = w.seen)
        => ~Full(w.key, task[t].stamp)

\* Every request is answered, also one whose body never comes or whose guest
\* runs for ever (routes.rs request_timeout).
EveryRequestAnswered == \A t \in Tasks : task[t].pc # "idle" ~> task[t].pc = "idle"
=============================================================================
