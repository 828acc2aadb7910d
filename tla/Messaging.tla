------------------------------ MODULE Messaging ------------------------------
(***************************************************************************)
(* Message threads: sends and inbound carrier webhooks that find or create *)
(* the conversation of a participant set, store a message in it and move   *)
(* its last_message_at, and the users who mark it read.                    *)
(*                                                                         *)
(* Every request is one READ COMMITTED transaction: it reads what others   *)
(* have committed, its own rows stay unseen until it commits.  The carrier *)
(* is called from inside the transaction of a send, and repeats a webhook  *)
(* that was not answered with a 2xx.                                       *)
(***************************************************************************)
EXTENDS Naturals, FiniteSets

CONSTANTS
    Sends,       \* POST messages/send/ requests
    Deliveries,  \* message.received webhooks the carrier posts
    MessageId,   \* the carrier's id of the message a delivery carries
    Line,        \* the DID of a request, NoLine if its number is unknown here
    To,          \* the participant numbers of a request, as they are spelled
    Digits,      \* the digits of a spelled number
    Users,       \* the viewers
    MaxClock,    \* bound: the last instant at which a thread is marked read
    MaxFaults,   \* bound: requests that die of an exception
    NoLine,
    None

Txns == Sends \cup Deliveries

\* normalize_number: the participants of a request, whatever their spelling.
Parties(t) == {Digits[n] : n \in To[t]}

ASSUME MessagingAssumption ==
    /\ Sends \cap Deliveries = {}
    /\ DOMAIN MessageId = Deliveries
    /\ DOMAIN Line = Txns
    /\ \A s \in Sends : Line[s] # NoLine
    /\ DOMAIN To = Txns
    /\ MaxClock \in Nat
    /\ MaxFaults \in Nat
    /\ None \notin Txns

VARIABLES
    phase,   \* phase[t]: where the handler of t stands
    thread,  \* thread[t]: its conversation, named by the request that created it
    status,  \* status[t]: Message.status of the message of t, "none" without a row
    stamp,   \* stamp[t]: the last_message_at that t writes, 0 until it takes it
    lastAt,  \* lastAt[c]: Conversation.last_message_at of the conversation c created
    readAt,  \* readAt[u][c]: ConversationRead.last_read_at, 0 without a row
    clock,
    faults,
    announced,  \* the requests that inserted the OutboxEvent rows of their message
    met         \* history: met[t] are the requests that were open together with t

vars == <<phase, thread, status, stamp, lastAt, readAt, clock, faults, announced,
          met>>

OpenPhases == {"calling", "resolved", "inserted", "stamped", "closing"}

TypeOK ==
    /\ phase \in [Txns -> OpenPhases \cup {"new", "committed", "rolledback"}]
    /\ thread \in [Txns -> Txns \cup {None}]
    /\ status \in [Txns -> {"none", "queued", "sent", "failed", "received"}]
    /\ stamp \in [Txns -> 0 .. clock]
    /\ lastAt \in [Txns -> 0 .. clock]
    /\ readAt \in [Users -> [Txns -> 0 .. clock]]
    /\ clock \in Nat \ {0}
    /\ faults \in 0 .. MaxFaults
    /\ announced \in SUBSET Txns
    /\ met \in [Txns -> SUBSET Txns]

Init ==
    /\ phase = [t \in Txns |-> "new"]
    /\ thread = [t \in Txns |-> None]
    /\ status = [t \in Txns |-> "none"]
    /\ stamp = [t \in Txns |-> 0]
    /\ lastAt = [t \in Txns |-> 0]
    /\ readAt = [u \in Users |-> [t \in Txns |-> 0]]
    /\ clock = 1
    /\ faults = 0
    /\ announced = {}
    /\ met = [t \in Txns |-> {}]

Open == {t \in Txns : phase[t] \in OpenPhases}

\* What other transactions see.
ThreadVisible(c) == thread[c] = c /\ phase[c] = "committed"
MessageVisible(t) == status[t] # "none" /\ phase[t] = "committed"

-----------------------------------------------------------------------------
(* resolve_conversation.                                                   *)

\* Mutation of Candidates: READ UNCOMMITTED.
CandidatesDirty(t) ==
    {c \in Txns : thread[c] = c /\ Line[c] = Line[t] /\ Parties(c) = Parties(t)}

\* Mutation of Candidates: the numbers are compared as they are spelled.
CandidatesRaw(t) ==
    {c \in Txns : ThreadVisible(c) /\ Line[c] = Line[t] /\ To[c] = To[t]}

\* The conversations of the DID with exactly these participants.
Candidates(t) ==
    {c \in Txns : ThreadVisible(c) /\ Line[c] = Line[t] /\ Parties(c) = Parties(t)}

\* The first one in the default ordering, or a new one with its participants:
\* nothing keeps two requests from both creating it.
Resolve(t) ==
    \/ /\ Candidates(t) = {}
       /\ thread' = [thread EXCEPT ![t] = t]
       /\ lastAt' = [lastAt EXCEPT ![t] = clock]
    \/ \E c \in Candidates(t) :
       /\ \A d \in Candidates(t) : lastAt[d] <= lastAt[c]
       /\ thread' = [thread EXCEPT ![t] = c]
       /\ UNCHANGED lastAt

\* t begins, next to the requests that are open now.
Begin(t) ==
    met' = [v \in Txns |->
        CASE v = t -> Open
          [] v # t /\ v \in Open -> met[v] \cup {t}
          [] OTHER -> met[v] \ {t}]

Stamp(t) ==
    /\ clock' = clock + 1
    /\ stamp' = [stamp EXCEPT ![t] = clock']

-----------------------------------------------------------------------------
(* SendMessageView.post.                                                   *)

\* The conversation is resolved and the message row inserted, as queued.
SendStart(s) ==
    /\ phase[s] = "new"
    /\ Begin(s)
    /\ Resolve(s)
    /\ phase' = [phase EXCEPT ![s] = "calling"]
    /\ status' = [status EXCEPT ![s] = "queued"]
    /\ UNCHANGED <<stamp, readAt, clock, faults, announced>>

\* The carrier takes the message: sent_at is now.
SendAccepted(s) ==
    /\ phase[s] = "calling"
    /\ Stamp(s)
    /\ phase' = [phase EXCEPT ![s] = "stamped"]
    /\ status' = [status EXCEPT ![s] = "sent"]
    /\ UNCHANGED <<thread, lastAt, readAt, faults, announced, met>>

\* Mutation of SendFailed: the carrier's own word for it is stored.
SendFailedVerbatim(s) ==
    /\ phase[s] = "calling"
    /\ phase' = [phase EXCEPT ![s] = "closing"]
    /\ status' = [status EXCEPT ![s] = "sending_failed"]
    /\ UNCHANGED <<thread, stamp, lastAt, readAt, clock, faults, announced, met>>

\* Mutation of SendFailed: the handler goes on to broadcast_message_event.
SendFailedFallsThrough(s) ==
    /\ phase[s] = "calling"
    /\ phase' = [phase EXCEPT ![s] = "closing"]
    /\ status' = [status EXCEPT ![s] = "failed"]
    /\ announced' = announced \cup {s}
    /\ UNCHANGED <<thread, stamp, lastAt, readAt, clock, faults, met>>

\* HTTPStatusError or RequestError: a 502 is returned, so the message is kept as
\* failed, and the thread is neither moved up nor announced.
SendFailed(s) ==
    /\ phase[s] = "calling"
    /\ phase' = [phase EXCEPT ![s] = "closing"]
    /\ status' = [status EXCEPT ![s] = "failed"]
    /\ UNCHANGED <<thread, stamp, lastAt, readAt, clock, faults, announced, met>>

-----------------------------------------------------------------------------
(* TelnyxWebhookView._handle_inbound_message.                              *)

\* No DID has the number: logged and answered 202.
ReceiveUnknown(d) ==
    /\ phase[d] = "new"
    /\ Line[d] = NoLine
    /\ Begin(d)
    /\ phase' = [phase EXCEPT ![d] = "committed"]
    /\ UNCHANGED <<thread, status, stamp, lastAt, readAt, clock, faults, announced>>

ReceiveStart(d) ==
    /\ phase[d] = "new"
    /\ Line[d] # NoLine
    /\ Begin(d)
    /\ Resolve(d)
    /\ phase' = [phase EXCEPT ![d] = "resolved"]
    /\ UNCHANGED <<status, stamp, readAt, clock, faults, announced>>

\* The rows with the carrier id of d, committed or not.
Twins(d) ==
    {e \in Deliveries \ {d} : MessageId[e] = MessageId[d] /\ status[e] = "received"}

\* Mutation of Insert: a look-up before the insert in place of the unique index.
InsertUnlessVisible(d) ==
    /\ phase[d] = "resolved"
    /\ ~\E e \in Twins(d) : phase[e] = "committed"
    /\ phase' = [phase EXCEPT ![d] = "inserted"]
    /\ status' = [status EXCEPT ![d] = "received"]
    /\ UNCHANGED <<thread, stamp, lastAt, readAt, clock, faults, announced, met>>

\* The unique index on telnyx_message_id makes the insert wait for a transaction
\* that has inserted the same id ...
Insert(d) ==
    /\ phase[d] = "resolved"
    /\ Twins(d) = {}
    /\ phase' = [phase EXCEPT ![d] = "inserted"]
    /\ status' = [status EXCEPT ![d] = "received"]
    /\ UNCHANGED <<thread, stamp, lastAt, readAt, clock, faults, announced, met>>

\* Every row the handler wrote is undone.
Undo(t) ==
    /\ phase' = [phase EXCEPT ![t] = "rolledback"]
    /\ thread' = [thread EXCEPT ![t] = None]
    /\ status' = [status EXCEPT ![t] = "none"]
    /\ stamp' = [stamp EXCEPT ![t] = 0]
    /\ announced' = announced \ {t}
    /\ UNCHANGED <<lastAt, readAt, clock, met>>

\* ... and raise IntegrityError, a 500, once that one has committed.
InsertRaises(d) ==
    /\ phase[d] = "resolved"
    /\ \E e \in Twins(d) : phase[e] = "committed"
    /\ Undo(d)
    /\ UNCHANGED faults

\* The attachments are stored, last_message_at is now.
ReceiveStamp(d) ==
    /\ phase[d] = "inserted"
    /\ Stamp(d)
    /\ phase' = [phase EXCEPT ![d] = "stamped"]
    /\ UNCHANGED <<thread, status, lastAt, readAt, faults, announced, met>>

\* The carrier posts the webhook again when the answer was not a 2xx.
Repost(d) ==
    /\ phase[d] = "rolledback"
    /\ phase' = [phase EXCEPT ![d] = "new"]
    /\ UNCHANGED <<thread, status, stamp, lastAt, readAt, clock, faults, announced,
                   met>>

-----------------------------------------------------------------------------
(* What both do at the end.                                                *)

\* The conversation row is updated: it is locked until the commit, and whoever
\* else has updated it must have ended.  broadcast_message_event follows.
Touch(t) ==
    /\ phase[t] = "stamped"
    /\ ~\E v \in Txns : thread[v] = thread[t] /\ phase[v] = "closing" /\ stamp[v] > 0
    /\ phase' = [phase EXCEPT ![t] = "closing"]
    /\ announced' = announced \cup {t}
    /\ UNCHANGED <<thread, status, stamp, lastAt, readAt, clock, faults, met>>

\* Mutation of Commit: last_message_at is written for a new conversation only.
CommitUntouched(t) ==
    /\ phase[t] = "closing"
    /\ phase' = [phase EXCEPT ![t] = "committed"]
    /\ lastAt' = [lastAt EXCEPT ![thread[t]] = IF thread[t] = t THEN stamp[t] ELSE @]
    /\ UNCHANGED <<thread, status, stamp, readAt, clock, faults, announced, met>>

\* The response is returned and the transaction commits.
Commit(t) ==
    /\ phase[t] = "closing"
    /\ phase' = [phase EXCEPT ![t] = "committed"]
    /\ lastAt' = [lastAt EXCEPT ![thread[t]] = IF stamp[t] > 0 THEN stamp[t] ELSE @]
    /\ UNCHANGED <<thread, status, stamp, readAt, clock, faults, announced, met>>

\* Mutation of Raise: the exception is caught and the webhook answered 202.
RaiseSwallowed(t) ==
    /\ phase[t] \in OpenPhases
    /\ faults < MaxFaults
    /\ faults' = faults + 1
    /\ phase' = [phase EXCEPT ![t] = "committed"]
    /\ thread' = [thread EXCEPT ![t] = None]
    /\ status' = [status EXCEPT ![t] = "none"]
    /\ stamp' = [stamp EXCEPT ![t] = 0]
    /\ announced' = announced \ {t}
    /\ UNCHANGED <<lastAt, readAt, clock, met>>

\* An exception leaves the view: a bad body from the carrier, a full disk under
\* the attachments, the process killed.
Raise(t) ==
    /\ phase[t] \in OpenPhases
    /\ faults < MaxFaults
    /\ faults' = faults + 1
    /\ Undo(t)

-----------------------------------------------------------------------------
(* ConversationMarkReadView.post and ConversationSerializer.get_unread.    *)

MarkRead(u, c) ==
    /\ ThreadVisible(c)
    /\ clock < MaxClock
    /\ clock' = clock + 1
    /\ readAt' = [readAt EXCEPT ![u][c] = clock']
    /\ UNCHANGED <<phase, thread, status, stamp, lastAt, faults, announced, met>>

Unread(u, c) == lastAt[c] # 0 /\ readAt[u][c] < lastAt[c]

-----------------------------------------------------------------------------

Step(t) ==
    \/ t \in Sends /\ (SendAccepted(t) \/ SendFailed(t))
    \/ /\ t \in Deliveries
       /\ \/ ReceiveUnknown(t)
          \/ ReceiveStart(t)
          \/ Insert(t)
          \/ InsertRaises(t)
          \/ ReceiveStamp(t)
          \/ Repost(t)
    \/ Touch(t)
    \/ Commit(t)

Next ==
    \/ \E s \in Sends : SendStart(s)
    \/ \E t \in Txns : Step(t) \/ Raise(t)
    \/ \E u \in Users, c \in Txns : MarkRead(u, c)

SafeSpec == Init /\ [][Next]_vars

\* A request that was started goes on, and the carrier delivers its webhooks and
\* repeats the refused ones.  Sends and readers come when they like.
Spec == SafeSpec /\ \A t \in Txns : WF_vars(Step(t))

-----------------------------------------------------------------------------
(* Properties.                                                             *)

\* However often and however concurrently the carrier posts an inbound message,
\* one row of it is stored.
InboundStoredOnce ==
    \A d, e \in Deliveries :
        /\ MessageId[d] = MessageId[e]
        /\ MessageVisible(d) /\ MessageVisible(e)
        => d = e

\* A stored message is in a stored conversation, on its own DID and with exactly
\* its own participants, even when the request that created the conversation
\* failed after others could have found it.
StoredInItsThread ==
    \A t \in Txns : MessageVisible(t) =>
        /\ ThreadVisible(thread[t])
        /\ Line[thread[t]] = Line[t]
        /\ Parties(thread[t]) = Parties(t)

\* A participant set has two conversations on one DID only if the requests that
\* created them were open at the same time.
SplitOnlyByRace ==
    \A c, d \in Txns :
        /\ ThreadVisible(c) /\ ThreadVisible(d) /\ c # d
        /\ Line[c] = Line[d] /\ Parties(c) = Parties(d)
        => d \in met[c]

\* A viewer who last marked a conversation read before one of its messages was
\* stamped sees it unread, unless the message's request overlapped another one
\* in the same conversation.
UnreadMissedOnlyByRace ==
    \A u \in Users, t \in Txns :
        /\ MessageVisible(t) /\ stamp[t] > 0
        /\ readAt[u][thread[t]] < stamp[t]
        => \/ Unread(u, thread[t])
           \/ \E v \in met[t] : thread[v] = thread[t]

\* Viewers are told of the messages that were sent or received and of no other:
\* what is stored agrees with what the outbox holds about it.
AnnouncedIffStored ==
    \A t \in Txns :
        phase[t] = "committed" =>
            (t \in announced <=> status[t] \in {"sent", "received"})

\* An inbound message for a known number ends up stored, though its webhook may
\* die of exceptions, be repeated and race its own duplicates.
InboundEventuallyStored ==
    \A d \in Deliveries :
        Line[d] # NoLine =>
            <>(\E e \in Deliveries : MessageId[e] = MessageId[d] /\ MessageVisible(e))

\* services.py: "repeat sends/receives to the same group land in the same thread".
OneThreadPerGroup ==
    \A c, d \in Txns :
        /\ ThreadVisible(c) /\ ThreadVisible(d)
        /\ Line[c] = Line[d] /\ Parties(c) = Parties(d)
        => c = d

\* serializers.py: unread is "True when this conversation has activity ... more
\* recent than the requesting user's own read position".
UnreadWhenNewer ==
    \A u \in Users, t \in Txns :
        /\ MessageVisible(t) /\ stamp[t] > 0
        /\ readAt[u][thread[t]] < stamp[t]
        => Unread(u, thread[t])

=============================================================================
