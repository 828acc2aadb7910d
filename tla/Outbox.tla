------------------------------- MODULE Outbox -------------------------------
(***************************************************************************)
(* The transactional outbox: HTTP requests that insert OutboxEvent rows    *)
(* inside their database transaction, the Celery task that publishes       *)
(* pending rows to Channels groups, and the WebSocket consumers that join  *)
(* those groups.                                                           *)
(*                                                                         *)
(* Every request is one transaction (ATOMIC_REQUESTS): its rows become     *)
(* visible together, at commit, or never.  The dispatcher holds no lock:   *)
(* two ticks of the 2 second beat schedule may overlap, in one worker      *)
(* process or in two, and both may hold the same row.                      *)
(***************************************************************************)
EXTENDS Naturals, FiniteSets, Sequences

CONSTANTS
    Requests,    \* HTTP requests and webhooks, each one transaction
    Events,      \* the OutboxEvent rows they may insert
    RequestOf,   \* the request that inserts an event
    Groups,      \* channel groups "<target_type>.<target_id>"
    Target,      \* the group an event names
    Workers,     \* concurrent executions of the dispatch task
    Conns,       \* WebSocket connections, each with a channel of its own
    GroupOf,     \* the group the consumer of a connection joins
    Authorized,  \* the connections whose consumer lets them in
    BatchSize,   \* BATCH_SIZE of the task
    Capacity,    \* messages the channel layer keeps for one channel
    MaxCrashes,  \* bound: executions of the task that die half-way
    NoEvent      \* no current event

ASSUME OutboxAssumption ==
    /\ IsFiniteSet(Events)
    /\ RequestOf \in [Events -> Requests]
    /\ Target \in [Events -> Groups]
    /\ GroupOf \in [Conns -> Groups]
    /\ Authorized \subseteq Conns
    /\ BatchSize \in Nat \ {0}
    /\ Capacity \in Nat
    /\ MaxCrashes \in Nat
    /\ NoEvent \notin Events

VARIABLES
    phase,     \* phase[r]: the transaction of request r
    status,    \* status[e]: OutboxEvent.status, "none" when there is no row
    created,   \* created[e]: OutboxEvent.created_at, 0 before the insert
    clock,     \* the last created_at given out
    step,      \* step[w]: where worker w stands in the loop of the task
    batch,     \* batch[w]: rows fetched by the tick of w and not yet reached
    event,     \* event[w]: the row the loop of w is at
    crashes,   \* executions that died so far
    conn,      \* conn[c]: the life of connection c
    inbox,     \* inbox[c]: messages the channel layer holds for c
    received,  \* received[c]: events sent down the socket of c
    lost,      \* history: events dropped on their way to c
    pubs,      \* history: how often e was put on its group (2: more than once)
    redone     \* history: events in two executions at once, or in one that died

dbVars == <<phase, status, created, clock>>
workerVars == <<step, batch, event, crashes, redone>>
connVars == <<conn, inbox, received, lost>>
vars == <<dbVars, workerVars, connVars, pubs>>

Statuses == {"pending", "dispatched", "failed"}

TypeOK ==
    /\ phase \in [Requests -> {"open", "committed", "rolledback"}]
    /\ status \in [Events -> Statuses \cup {"none"}]
    /\ clock \in Nat
    /\ created \in [Events -> 0 .. clock]
    /\ step \in [Workers -> {"idle", "send", "sent", "raised"}]
    /\ batch \in [Workers -> SUBSET Events]
    /\ event \in [Workers -> Events \cup {NoEvent}]
    /\ crashes \in 0 .. MaxCrashes
    /\ conn \in [Conns -> {"new", "joined", "open", "closed"}]
    /\ inbox \in [Conns -> Seq(Events)]
    /\ received \in [Conns -> SUBSET Events]
    /\ lost \in [Conns -> SUBSET Events]
    /\ pubs \in [Events -> 0 .. 2]
    /\ redone \in SUBSET Events
    /\ \A w \in Workers : event[w] # NoEvent <=> step[w] \in {"sent", "raised"}

Init ==
    /\ phase = [r \in Requests |-> "open"]
    /\ status = [e \in Events |-> "none"]
    /\ created = [e \in Events |-> 0]
    /\ clock = 0
    /\ step = [w \in Workers |-> "idle"]
    /\ batch = [w \in Workers |-> {}]
    /\ event = [w \in Workers |-> NoEvent]
    /\ crashes = 0
    /\ conn = [c \in Conns |-> "new"]
    /\ inbox = [c \in Conns |-> <<>>]
    /\ received = [c \in Conns |-> {}]
    /\ lost = [c \in Conns |-> {}]
    /\ pubs = [e \in Events |-> 0]
    /\ redone = {}

-----------------------------------------------------------------------------
(* The requests.                                                           *)

\* Mutation of Emit: a row stamped ahead of the clock.
EmitAheadOfClock(e) ==
    /\ phase[RequestOf[e]] = "open"
    /\ created[e] = 0
    /\ created' = [created EXCEPT ![e] = clock + 1]
    /\ status' = [status EXCEPT ![e] = "pending"]
    /\ UNCHANGED <<phase, clock, workerVars, connVars, pubs>>

\* One OutboxEvent.objects.create(...): created_at is taken at the insert, the
\* row is seen by others only once the transaction commits.
Emit(e) ==
    /\ phase[RequestOf[e]] = "open"
    /\ created[e] = 0
    /\ clock' = clock + 1
    /\ created' = [created EXCEPT ![e] = clock']
    /\ status' = [status EXCEPT ![e] = "pending"]
    /\ UNCHANGED <<phase, workerVars, connVars, pubs>>

Commit(r) ==
    /\ phase[r] = "open"
    /\ phase' = [phase EXCEPT ![r] = "committed"]
    /\ UNCHANGED <<status, created, clock, workerVars, connVars, pubs>>

\* An exception leaves the view: every row the request inserted is undone.
Rollback(r) ==
    /\ phase[r] = "open"
    /\ phase' = [phase EXCEPT ![r] = "rolledback"]
    /\ status' = [e \in Events |-> IF RequestOf[e] = r THEN "none" ELSE status[e]]
    /\ UNCHANGED <<created, clock, workerVars, connVars, pubs>>

\* Mutation of Visible: ATOMIC_REQUESTS is off, every insert is seen at once.
VisibleAtInsert(e) == status[e] # "none"

\* The rows another session can read.
Visible(e) == status[e] # "none" /\ phase[RequestOf[e]] = "committed"

\* Mutation of PendingRows: failed rows are fetched again without a lock.
UnsettledRows == {e \in Events : Visible(e) /\ status[e] \in {"pending", "failed"}}

PendingRows == {e \in Events : Visible(e) /\ status[e] = "pending"}

-----------------------------------------------------------------------------
(* The dispatch task.                                                      *)

\* Mutation of Oldest: order_by("-created_at"), the default of other models.
Newest(rows, n) ==
    {e \in rows : Cardinality({f \in rows : created[f] > created[e]}) < n}

\* order_by("created_at")[:n]
Oldest(rows, n) ==
    {e \in rows : Cardinality({f \in rows : created[f] < created[e]}) < n}

\* The rows an execution has read and not finished with.
Held(w) == batch[w] \cup (IF step[w] \in {"sent", "raised"} THEN {event[w]} ELSE {})

\* Mutation of Tick: rows are claimed as dispatched when they are fetched, so that
\* no other execution takes them.
TickClaims(w) ==
    /\ step[w] = "idle"
    /\ PendingRows # {}
    /\ batch' = [batch EXCEPT ![w] = Oldest(PendingRows, BatchSize)]
    /\ step' = [step EXCEPT ![w] = "send"]
    /\ status' = [e \in Events |->
           IF e \in Oldest(PendingRows, BatchSize) THEN "dispatched" ELSE status[e]]
    /\ UNCHANGED <<phase, created, clock, event, crashes, redone, connVars, pubs>>

\* The task starts and reads its batch in one query.
Tick(w) ==
    /\ step[w] = "idle"
    /\ PendingRows # {}
    /\ batch' = [batch EXCEPT ![w] = Oldest(PendingRows, BatchSize)]
    /\ step' = [step EXCEPT ![w] = "send"]
    /\ redone' = redone \cup
           {e \in Oldest(PendingRows, BatchSize) : \E v \in Workers \ {w} : e \in Held(v)}
    /\ UNCHANGED <<dbVars, event, crashes, connVars, pubs>>

\* Mutation of Members: a group name without the target id is a broadcast.
EveryMember(g) == {c \in Conns : conn[c] \in {"joined", "open"}}

Members(g) == {c \in Conns : GroupOf[c] = g /\ conn[c] \in {"joined", "open"}}

\* Redis receives the message for every channel of the group; a channel that is
\* full misses it and nobody is told.
Publish(e) ==
    /\ inbox' = [c \in Conns |->
           IF c \in Members(Target[e]) /\ Len(inbox[c]) < Capacity
           THEN Append(inbox[c], e) ELSE inbox[c]]
    /\ lost' = [c \in Conns |->
           IF c \in Members(Target[e]) /\ Len(inbox[c]) >= Capacity
           THEN lost[c] \cup {e} ELSE lost[c]]
    /\ pubs' = [pubs EXCEPT ![e] = IF @ = 0 THEN 1 ELSE 2]
    /\ UNCHANGED <<conn, received>>

\* The loop takes its next row, in the order of the query.
Advance(w, e) ==
    /\ step[w] = "send"
    /\ e \in batch[w]
    /\ \A f \in batch[w] : created[e] <= created[f]
    /\ event' = [event EXCEPT ![w] = e]
    /\ batch' = [batch EXCEPT ![w] = @ \ {e}]
    /\ UNCHANGED <<dbVars, crashes, redone>>

\* group_send returns.
SendSucceeds(w, e) ==
    /\ Advance(w, e)
    /\ step' = [step EXCEPT ![w] = "sent"]
    /\ Publish(e)

\* group_send raises before Redis took the message ...
SendFails(w, e) ==
    /\ Advance(w, e)
    /\ step' = [step EXCEPT ![w] = "raised"]
    /\ UNCHANGED <<connVars, pubs>>

\* ... or after: the answer was lost.
SendTimesOut(w, e) ==
    /\ Advance(w, e)
    /\ step' = [step EXCEPT ![w] = "raised"]
    /\ Publish(e)

\* UPDATE ... WHERE id = event.id: whatever the row says now is overwritten.
Settle(w, result) ==
    /\ status' = [status EXCEPT ![event[w]] = result]
    /\ step' = [step EXCEPT ![w] = IF batch[w] = {} THEN "idle" ELSE "send"]
    /\ event' = [event EXCEPT ![w] = NoEvent]
    /\ UNCHANGED <<phase, created, clock, batch, crashes, redone, connVars, pubs>>

MarkDispatched(w) == step[w] = "sent" /\ Settle(w, "dispatched")

\* Mutation of MarkFailed: no "continue", the row is marked dispatched after all.
MarkFailedFallsThrough(w) == step[w] = "raised" /\ Settle(w, "dispatched")

\* Mutation of MarkFailed: the row is put back in the queue instead.
MarkFailedRequeues(w) == step[w] = "raised" /\ Settle(w, "pending")

MarkFailed(w) == step[w] = "raised" /\ Settle(w, "failed")

\* The process is killed, or the query or update raises out of the task: the
\* rest of the batch is forgotten.
Crash(w) ==
    /\ step[w] # "idle"
    /\ crashes < MaxCrashes
    /\ crashes' = crashes + 1
    /\ redone' = redone \cup Held(w)
    /\ step' = [step EXCEPT ![w] = "idle"]
    /\ batch' = [batch EXCEPT ![w] = {}]
    /\ event' = [event EXCEPT ![w] = NoEvent]
    /\ UNCHANGED <<dbVars, connVars, pubs>>

-----------------------------------------------------------------------------
(* The consumers.                                                          *)

\* connect(): the identity and the right to the group were established, the
\* channel is added to the group before the handshake is accepted.
Join(c) ==
    /\ conn[c] = "new"
    /\ c \in Authorized
    /\ conn' = [conn EXCEPT ![c] = "joined"]
    /\ UNCHANGED <<dbVars, workerVars, inbox, received, lost, pubs>>

\* connect(): close(code=4401) or close(code=4403).
Refuse(c) ==
    /\ conn[c] = "new"
    /\ c \notin Authorized
    /\ conn' = [conn EXCEPT ![c] = "closed"]
    /\ UNCHANGED <<dbVars, workerVars, inbox, received, lost, pubs>>

Accept(c) ==
    /\ conn[c] = "joined"
    /\ conn' = [conn EXCEPT ![c] = "open"]
    /\ UNCHANGED <<dbVars, workerVars, inbox, received, lost, pubs>>

\* outbox_event(): the next message of the channel goes down the socket.
Deliver(c) ==
    /\ conn[c] = "open"
    /\ inbox[c] # <<>>
    /\ received' = [received EXCEPT ![c] = @ \cup {Head(inbox[c])}]
    /\ inbox' = [inbox EXCEPT ![c] = Tail(@)]
    /\ UNCHANGED <<dbVars, workerVars, conn, lost, pubs>>

\* A message that waited longer than the expiry of the channel layer.
Expire(c) ==
    /\ inbox[c] # <<>>
    /\ lost' = [lost EXCEPT ![c] = @ \cup {Head(inbox[c])}]
    /\ inbox' = [inbox EXCEPT ![c] = Tail(@)]
    /\ UNCHANGED <<dbVars, workerVars, conn, received, pubs>>

Disconnect(c) ==
    /\ conn[c] \in {"joined", "open"}
    /\ conn' = [conn EXCEPT ![c] = "closed"]
    /\ inbox' = [inbox EXCEPT ![c] = <<>>]
    /\ UNCHANGED <<dbVars, workerVars, received, lost, pubs>>

-----------------------------------------------------------------------------

Work(w) ==
    \/ \E e \in Events : SendSucceeds(w, e) \/ SendFails(w, e) \/ SendTimesOut(w, e)
    \/ MarkDispatched(w)
    \/ MarkFailed(w)

Next ==
    \/ \E e \in Events : Emit(e)
    \/ \E r \in Requests : Commit(r) \/ Rollback(r)
    \/ \E w \in Workers : Tick(w) \/ Work(w) \/ Crash(w)
    \/ \E c \in Conns :
           Join(c) \/ Refuse(c) \/ Accept(c) \/ Deliver(c) \/ Expire(c) \/ Disconnect(c)

SafeSpec == Init /\ [][Next]_vars

\* Beat schedules the task every 2 seconds and an idle worker picks it up; an
\* execution that does not die goes on.  An accepted socket is served.  Nothing
\* is assumed of requests, of clients or of crashes.
Fairness ==
    /\ WF_vars(\E w \in Workers : Tick(w))
    /\ \A w \in Workers : WF_vars(Work(w))
    /\ \A c \in Conns : WF_vars(Accept(c)) /\ WF_vars(Deliver(c))

Spec == SafeSpec /\ Fairness

-----------------------------------------------------------------------------
(* Properties.                                                             *)

\* An event reaches its group only if the request that wrote it took effect: no
\* client hears of a change that was rolled back.
PublishedOnlyIfCommitted ==
    \A e \in Events : pubs[e] > 0 => phase[RequestOf[e]] = "committed"

\* A row says "dispatched" only if its event was put on the group, whatever
\* overlapping executions, crashes and lost answers did in between.
DispatchedWasPublished ==
    \A e \in Events : status[e] = "dispatched" => pubs[e] > 0

\* Clients hear of an event twice only if two executions of the task held its
\* row at the same time or one of them died holding it.
DuplicateOnlyByOverlapOrCrash ==
    \A e \in Events : pubs[e] > 1 => e \in redone

\* "Fetches pending OutboxEvent rows in creation order": no execution publishes
\* an event while an earlier one of the same request still waits to be settled,
\* even when several executions share the backlog.
SettledInCreationOrder ==
    \A e, f \in Events :
        /\ RequestOf[e] = RequestOf[f]
        /\ 0 < created[e] /\ created[e] < created[f]
        /\ pubs[f] > 0
        => status[e] \in {"dispatched", "failed"}

\* There is no broadcast: whatever a socket was sent named the group of that
\* connection as its target, and the consumer had let the connection in.
DeliveredAsAddressed ==
    \A c \in Conns, e \in Events :
        e \in received[c] => c \in Authorized /\ Target[e] = GroupOf[c] /\ pubs[e] > 0

\* An event that is committed while a client is in its group reaches that client
\* unless the client leaves, the channel layer drops it or the row is failed.
CommittedReachesConnected ==
    \A c \in Conns, e \in Events :
        (Visible(e) /\ pubs[e] = 0 /\ status[e] = "pending" /\ c \in Members(Target[e]))
        ~> (e \in received[c] \/ e \in lost[c] \/ conn[c] = "closed" \/ status[e] = "failed")

\* models.py: a failed row "can be re-dispatched"; tasks.py: "failed, retained
\* for re-dispatch".  A row that failed without reaching Redis is tried again.
FailedIsRetried ==
    \A e \in Events :
        (status[e] = "failed" /\ pubs[e] = 0) ~> (status[e] # "failed" \/ pubs[e] > 0)

-----------------------------------------------------------------------------
(* The promise of EventDelivery, kept by the tables above.                 *)

Stored == {e \in Events : Visible(e)}
Published == {e \in Events : pubs[e] > 0}
Outcome == [e \in Events |->
    IF status[e] \in {"dispatched", "failed"} THEN status[e] ELSE "open"]

Promise == INSTANCE EventDelivery
    WITH stored <- Stored, published <- Published, outcome <- Outcome

\* The outbox implements EventDelivery, its liveness included.
ImplementsDelivery == Promise!Spec

=============================================================================
