--------------------------- MODULE MessagingProofs ---------------------------
(***************************************************************************)
(* Theorems about Messaging, for any number of sends, deliveries, viewers, *)
(* numbers and exceptions.                                                 *)
(***************************************************************************)
EXTENDS Messaging, TLAPS

USE DEF OpenPhases, Txns

\* Every variable keeps its type: a message only takes a status of MessageStatus,
\* and no instant that was written lies in the future.
THEOREM TypeCorrect == SafeSpec => []TypeOK
<1>1. Init => TypeOK
  BY MessagingAssumption DEF Init, TypeOK
<1>2. TypeOK /\ [Next]_vars => TypeOK'
  <2> SUFFICES ASSUME TypeOK, [Next]_vars
               PROVE  TypeOK'
    OBVIOUS
  <2> USE MessagingAssumption DEF TypeOK
  <2>1. ASSUME NEW t \in Txns, Begin(t)
        PROVE  met' \in [Txns -> SUBSET Txns]
    BY <2>1 DEF Begin, Open
  <2>2. ASSUME NEW t \in Txns, Resolve(t)
        PROVE  thread' \in [Txns -> Txns \cup {None}] /\ lastAt' \in [Txns -> 0 .. clock]
    BY <2>2 DEF Resolve, Candidates
  <2>3. ASSUME NEW t \in Txns, Stamp(t), UNCHANGED <<lastAt, readAt>>
        PROVE  /\ clock' \in Nat \ {0}
               /\ stamp' \in [Txns -> 0 .. clock']
               /\ lastAt' \in [Txns -> 0 .. clock']
               /\ readAt' \in [Users -> [Txns -> 0 .. clock']]
    <3>1. clock' = clock + 1 /\ clock' \in 0 .. clock'
      BY <2>3 DEF Stamp
    <3>2. \A n \in 0 .. clock : n \in 0 .. clock'
      BY <3>1
    <3>3. \A v \in Txns : stamp'[v] \in 0 .. clock'
      BY <2>3, <3>1, <3>2 DEF Stamp
    <3>4. stamp' \in [Txns -> 0 .. clock']
      BY <2>3, <3>3 DEF Stamp
    <3>5. lastAt \in [Txns -> 0 .. clock']
      BY <3>2
    <3>6. \A u \in Users : readAt[u] \in [Txns -> 0 .. clock']
      BY <3>2
    <3>7. readAt \in [Users -> [Txns -> 0 .. clock']]
      BY <3>6
    <3> QED
      BY <2>3, <3>1, <3>4, <3>5, <3>7
  <2>4. ASSUME NEW s \in Sends, SendStart(s)
        PROVE  TypeOK'
    BY <2>1, <2>2, <2>4 DEF SendStart
  <2>5. ASSUME NEW s \in Sends, SendAccepted(s)
        PROVE  TypeOK'
    BY <2>3, <2>5 DEF SendAccepted
  <2>6. ASSUME NEW s \in Sends, SendFailed(s)
        PROVE  TypeOK'
    BY <2>6 DEF SendFailed
  <2>7. ASSUME NEW d \in Deliveries, ReceiveUnknown(d)
        PROVE  TypeOK'
    BY <2>1, <2>7 DEF ReceiveUnknown
  <2>8. ASSUME NEW d \in Deliveries, ReceiveStart(d)
        PROVE  TypeOK'
    BY <2>1, <2>2, <2>8 DEF ReceiveStart
  <2>9. ASSUME NEW d \in Deliveries, Insert(d) \/ Repost(d)
        PROVE  TypeOK'
    BY <2>9 DEF Insert, Repost
  <2>10. ASSUME NEW d \in Deliveries, ReceiveStamp(d)
         PROVE  TypeOK'
    BY <2>3, <2>10 DEF ReceiveStamp
  <2>11. ASSUME NEW t \in Txns, InsertRaises(t) \/ Raise(t)
         PROVE  TypeOK'
    <3>1. Undo(t) /\ faults' \in 0 .. MaxFaults
      BY <2>11 DEF InsertRaises, Raise
    <3>2. stamp' = [stamp EXCEPT ![t] = 0] /\ 0 \in 0 .. clock
      BY <3>1 DEF Undo
    <3>3. stamp' \in [Txns -> 0 .. clock]
      BY <3>2
    <3> QED
      BY <3>1, <3>3 DEF Undo
  <2>12. ASSUME NEW t \in Txns, Touch(t)
         PROVE  TypeOK'
    BY <2>12 DEF Touch
  <2>13. ASSUME NEW t \in Txns, Commit(t)
         PROVE  TypeOK'
    <3>1. \A c \in Txns : lastAt'[c] \in 0 .. clock
      BY <2>13 DEF Commit
    <3>2. lastAt' \in [Txns -> 0 .. clock]
      BY <2>13, <3>1 DEF Commit
    <3> QED
      BY <2>13, <3>2 DEF Commit
  <2>14. ASSUME NEW u \in Users, NEW c \in Txns, MarkRead(u, c)
         PROVE  TypeOK'
    <3>1. clock' = clock + 1 /\ clock' \in 0 .. clock'
      BY <2>14 DEF MarkRead
    <3>2. \A n \in 0 .. clock : n \in 0 .. clock'
      BY <3>1
    <3>3. stamp \in [Txns -> 0 .. clock'] /\ lastAt \in [Txns -> 0 .. clock']
      BY <3>2
    <3>4. \A v \in Users : readAt[v] \in [Txns -> 0 .. clock']
      BY <3>2
    <3>5. [readAt[u] EXCEPT ![c] = clock'] \in [Txns -> 0 .. clock']
      BY <3>1, <3>4
    <3>6. readAt' = [readAt EXCEPT ![u] = [readAt[u] EXCEPT ![c] = clock']]
      BY <2>14 DEF MarkRead
    <3>7. readAt' \in [Users -> [Txns -> 0 .. clock']]
      BY <3>4, <3>5, <3>6
    <3> QED
      BY <2>14, <3>1, <3>3, <3>7 DEF MarkRead
  <2>15. CASE UNCHANGED vars
    BY <2>15 DEF vars
  <2> QED
    BY <2>4, <2>5, <2>6, <2>7, <2>8, <2>9, <2>10, <2>11, <2>12, <2>13, <2>14,
       <2>15 DEF Next, Step
<1>3. QED
  BY <1>1, <1>2, PTL DEF SafeSpec

-----------------------------------------------------------------------------
(* Where a message may be.  StoredInItsThread and InboundStoredOnce speak of *)
(* committed rows only; the rows of open transactions have to obey the same  *)
(* rule beforehand, and the conversation one of them found must stay.        *)

LifeInv ==
    /\ \A t \in Txns : phase[t] \in {"new", "rolledback"} =>
           thread[t] = None /\ status[t] = "none" /\ stamp[t] = 0
    /\ \A t \in Txns : phase[t] \in OpenPhases => thread[t] # None
    /\ \A t \in Txns : status[t] # "none" \/ stamp[t] > 0 => thread[t] # None
    /\ \A d \in Deliveries : status[d] \in {"none", "received"}

ThreadInv ==
    \A t \in Txns : thread[t] # None =>
        /\ thread[t] = t \/ ThreadVisible(thread[t])
        /\ Line[thread[t]] = Line[t]
        /\ Parties(thread[t]) = Parties(t)

OnceInv ==
    \A d, e \in Deliveries :
        d # e /\ MessageId[d] = MessageId[e] =>
            status[d] # "received" \/ status[e] # "received"

\* A conversation that is committed stays, and so does what it holds.
LEMMA CommittedStays ==
    ASSUME TypeOK, [Next]_vars, NEW t \in Txns, phase[t] = "committed"
    PROVE  /\ phase'[t] = "committed" /\ thread'[t] = thread[t]
           /\ status'[t] = status[t] /\ stamp'[t] = stamp[t]
<1> USE MessagingAssumption DEF TypeOK
<1>1. ASSUME NEW s \in Sends, SendStart(s) \/ SendAccepted(s) \/ SendFailed(s)
      PROVE  /\ phase'[t] = "committed" /\ thread'[t] = thread[t]
             /\ status'[t] = status[t] /\ stamp'[t] = stamp[t]
  BY <1>1 DEF SendStart, SendAccepted, SendFailed, Resolve, Stamp
<1>2. ASSUME NEW d \in Deliveries,
             ReceiveUnknown(d) \/ ReceiveStart(d) \/ Insert(d) \/ ReceiveStamp(d) \/ Repost(d)
      PROVE  /\ phase'[t] = "committed" /\ thread'[t] = thread[t]
             /\ status'[t] = status[t] /\ stamp'[t] = stamp[t]
  BY <1>2 DEF ReceiveUnknown, ReceiveStart, Insert, ReceiveStamp, Repost, Resolve, Stamp
<1>3. ASSUME NEW v \in Txns, InsertRaises(v) \/ Raise(v) \/ Touch(v) \/ Commit(v)
      PROVE  /\ phase'[t] = "committed" /\ thread'[t] = thread[t]
             /\ status'[t] = status[t] /\ stamp'[t] = stamp[t]
  BY <1>3 DEF InsertRaises, Raise, Undo, Touch, Commit
<1>4. ASSUME NEW u \in Users, NEW c \in Txns, MarkRead(u, c)
      PROVE  /\ phase'[t] = "committed" /\ thread'[t] = thread[t]
             /\ status'[t] = status[t] /\ stamp'[t] = stamp[t]
  BY <1>4 DEF MarkRead
<1>5. CASE UNCHANGED vars
  BY <1>5 DEF vars
<1> QED
  BY <1>1, <1>2, <1>3, <1>4, <1>5 DEF Next, Step

LEMMA LifeInvStep ==
    ASSUME TypeOK, LifeInv, [Next]_vars
    PROVE  LifeInv'
<1> USE MessagingAssumption DEF TypeOK, LifeInv
<1>1. ASSUME NEW t \in Txns, Resolve(t)
      PROVE  thread'[t] # None /\ \A v \in Txns \ {t} : thread'[v] = thread[v]
  BY <1>1 DEF Resolve, Candidates
<1>2. ASSUME NEW s \in Sends, SendStart(s)
      PROVE  LifeInv'
  BY <1>1, <1>2 DEF SendStart
<1>3. ASSUME NEW s \in Sends, SendAccepted(s) \/ SendFailed(s)
      PROVE  LifeInv'
  BY <1>3 DEF SendAccepted, SendFailed, Stamp
<1>4. ASSUME NEW d \in Deliveries, ReceiveStart(d)
      PROVE  LifeInv'
  BY <1>1, <1>4 DEF ReceiveStart
<1>5. ASSUME NEW d \in Deliveries,
             ReceiveUnknown(d) \/ Insert(d) \/ ReceiveStamp(d) \/ Repost(d)
      PROVE  LifeInv'
  BY <1>5 DEF ReceiveUnknown, Insert, ReceiveStamp, Repost, Stamp
<1>6. ASSUME NEW t \in Txns, InsertRaises(t) \/ Raise(t)
      PROVE  LifeInv'
  BY <1>6 DEF InsertRaises, Raise, Undo
<1>7. ASSUME NEW t \in Txns, Touch(t) \/ Commit(t)
      PROVE  LifeInv'
  BY <1>7 DEF Touch, Commit
<1>8. ASSUME NEW u \in Users, NEW c \in Txns, MarkRead(u, c)
      PROVE  LifeInv'
  BY <1>8 DEF MarkRead
<1>9. CASE UNCHANGED vars
  BY <1>9 DEF vars
<1> QED
  BY <1>2, <1>3, <1>4, <1>5, <1>6, <1>7, <1>8, <1>9 DEF Next, Step

LEMMA ThreadInvStep ==
    ASSUME TypeOK, LifeInv, ThreadInv, [Next]_vars
    PROVE  ThreadInv'
<1> USE MessagingAssumption DEF TypeOK
<1>1. ASSUME NEW c \in Txns, ThreadVisible(c)
      PROVE  ThreadVisible(c)'
  BY <1>1, CommittedStays DEF ThreadVisible
\* It is enough that a request whose conversation changed has a good one.
<1>2. ASSUME \A t \in Txns : thread'[t] \in {thread[t], None}
      PROVE  ThreadInv'
  BY <1>1, <1>2 DEF ThreadInv
<1>3. ASSUME NEW t \in Txns, Resolve(t)
      PROVE  ThreadInv'
  <2>1. \A v \in Txns \ {t} : thread'[v] = thread[v]
    BY <1>3 DEF Resolve
  <2>2. CASE thread'[t] = t
    BY <1>1, <2>1, <2>2 DEF ThreadInv
  <2>3. CASE thread'[t] \in Candidates(t)
    BY <1>1, <2>1, <2>3 DEF ThreadInv, Candidates
  <2> QED
    BY <1>3, <2>2, <2>3 DEF Resolve
<1>4. ASSUME NEW s \in Sends, SendStart(s) \/ SendAccepted(s) \/ SendFailed(s)
      PROVE  ThreadInv'
  BY <1>2, <1>3, <1>4 DEF SendStart, SendAccepted, SendFailed
<1>5. ASSUME NEW d \in Deliveries,
             ReceiveUnknown(d) \/ ReceiveStart(d) \/ Insert(d) \/ ReceiveStamp(d) \/ Repost(d)
      PROVE  ThreadInv'
  BY <1>2, <1>3, <1>5 DEF ReceiveUnknown, ReceiveStart, Insert, ReceiveStamp, Repost
<1>6. ASSUME NEW t \in Txns, InsertRaises(t) \/ Raise(t)
      PROVE  ThreadInv'
  BY <1>2, <1>6 DEF InsertRaises, Raise, Undo
<1>7. ASSUME NEW t \in Txns, Touch(t) \/ Commit(t)
      PROVE  ThreadInv'
  BY <1>2, <1>7 DEF Touch, Commit
<1>8. ASSUME NEW u \in Users, NEW c \in Txns, MarkRead(u, c)
      PROVE  ThreadInv'
  BY <1>2, <1>8 DEF MarkRead
<1>9. CASE UNCHANGED vars
  BY <1>2, <1>9 DEF vars
<1> QED
  BY <1>4, <1>5, <1>6, <1>7, <1>8, <1>9 DEF Next, Step

\* A stored message lies in a stored conversation of its own DID and participants,
\* though conversations are found while the requests that make them may still fail.
THEOREM MessagesInThreads == SafeSpec => []StoredInItsThread
<1>1. Init => LifeInv /\ ThreadInv
  BY MessagingAssumption DEF Init, LifeInv, ThreadInv
<1>2. TypeOK /\ LifeInv /\ ThreadInv /\ [Next]_vars => LifeInv' /\ ThreadInv'
  BY LifeInvStep, ThreadInvStep
<1>3. LifeInv /\ ThreadInv => StoredInItsThread
  BY DEF LifeInv, ThreadInv, StoredInItsThread, MessageVisible, ThreadVisible
<1>4. QED
  BY <1>1, <1>2, <1>3, TypeCorrect, PTL DEF SafeSpec

LEMMA OnceInvStep ==
    ASSUME TypeOK, LifeInv, OnceInv, [Next]_vars
    PROVE  OnceInv'
<1> USE MessagingAssumption DEF TypeOK, OnceInv
<1>1. ASSUME \A d \in Deliveries : status'[d] = "received" => status[d] = "received"
      PROVE  OnceInv'
  BY <1>1
<1>2. ASSUME NEW s \in Sends, SendStart(s) \/ SendAccepted(s) \/ SendFailed(s)
      PROVE  OnceInv'
  BY <1>1, <1>2 DEF SendStart, SendAccepted, SendFailed
<1>3. ASSUME NEW d \in Deliveries, Insert(d)
      PROVE  OnceInv'
  BY <1>3 DEF Insert, Twins
<1>4. ASSUME NEW d \in Deliveries,
             ReceiveUnknown(d) \/ ReceiveStart(d) \/ ReceiveStamp(d) \/ Repost(d)
      PROVE  OnceInv'
  BY <1>1, <1>4 DEF ReceiveUnknown, ReceiveStart, ReceiveStamp, Repost
<1>5. ASSUME NEW t \in Txns, InsertRaises(t) \/ Raise(t) \/ Touch(t) \/ Commit(t)
      PROVE  OnceInv'
  BY <1>1, <1>5 DEF InsertRaises, Raise, Undo, Touch, Commit
<1>6. ASSUME NEW u \in Users, NEW c \in Txns, MarkRead(u, c)
      PROVE  OnceInv'
  BY <1>1, <1>6 DEF MarkRead
<1>7. CASE UNCHANGED vars
  BY <1>1, <1>7 DEF vars
<1> QED
  BY <1>2, <1>3, <1>4, <1>5, <1>6, <1>7 DEF Next, Step

\* One row per inbound message, however many posts of it are handled at once.
THEOREM StoredOnce == SafeSpec => []InboundStoredOnce
<1>1. Init => LifeInv /\ OnceInv
  BY MessagingAssumption DEF Init, LifeInv, OnceInv
<1>2. TypeOK /\ LifeInv /\ OnceInv /\ [Next]_vars => LifeInv' /\ OnceInv'
  BY LifeInvStep, OnceInvStep
<1>3. LifeInv /\ OnceInv => InboundStoredOnce
  BY DEF LifeInv, OnceInv, InboundStoredOnce, MessageVisible
<1>4. QED
  BY <1>1, <1>2, <1>3, TypeCorrect, PTL DEF SafeSpec

-----------------------------------------------------------------------------
(* What the outbox is told.  A request is announced after its status is      *)
(* settled and only on the way to its commit.                                *)

AnnounceInv ==
    /\ \A t \in announced : phase[t] \in {"closing", "committed"}
    /\ \A t \in Txns : phase[t] \in {"inserted", "stamped"} =>
           status[t] \in {"sent", "received"}
    /\ \A t \in Txns : phase[t] \in {"closing", "committed"} =>
           (t \in announced <=> status[t] \in {"sent", "received"})

LEMMA AnnounceInvStep ==
    ASSUME TypeOK, LifeInv, AnnounceInv, [Next]_vars
    PROVE  AnnounceInv'
<1> USE MessagingAssumption DEF TypeOK, AnnounceInv
<1>1. ASSUME NEW s \in Sends, SendStart(s) \/ SendAccepted(s) \/ SendFailed(s)
      PROVE  AnnounceInv'
  BY <1>1 DEF SendStart, SendAccepted, SendFailed
<1>2. ASSUME NEW d \in Deliveries, ReceiveUnknown(d)
      PROVE  AnnounceInv'
  BY <1>2 DEF ReceiveUnknown, LifeInv
<1>3. ASSUME NEW d \in Deliveries,
             ReceiveStart(d) \/ Insert(d) \/ ReceiveStamp(d) \/ Repost(d)
      PROVE  AnnounceInv'
  BY <1>3 DEF ReceiveStart, Insert, ReceiveStamp, Repost
<1>4. ASSUME NEW t \in Txns, InsertRaises(t) \/ Raise(t)
      PROVE  AnnounceInv'
  BY <1>4 DEF InsertRaises, Raise, Undo
<1>5. ASSUME NEW t \in Txns, Touch(t) \/ Commit(t)
      PROVE  AnnounceInv'
  BY <1>5 DEF Touch, Commit
<1>6. ASSUME NEW u \in Users, NEW c \in Txns, MarkRead(u, c)
      PROVE  AnnounceInv'
  BY <1>6 DEF MarkRead
<1>7. CASE UNCHANGED vars
  BY <1>7 DEF vars
<1> QED
  BY <1>1, <1>2, <1>3, <1>4, <1>5, <1>6, <1>7 DEF Next, Step

\* A stored message has its outbox rows exactly if it was sent or received, whatever
\* failed on the way.
THEOREM AnnouncedAsStored == SafeSpec => []AnnouncedIffStored
<1>1. Init => LifeInv /\ AnnounceInv
  BY MessagingAssumption DEF Init, LifeInv, AnnounceInv
<1>2. TypeOK /\ LifeInv /\ AnnounceInv /\ [Next]_vars => LifeInv' /\ AnnounceInv'
  BY LifeInvStep, AnnounceInvStep
<1>3. AnnounceInv => AnnouncedIffStored
  BY DEF AnnounceInv, AnnouncedIffStored
<1>4. QED
  BY <1>1, <1>2, <1>3, TypeCorrect, PTL DEF SafeSpec

-----------------------------------------------------------------------------
(* What only a race can do.  Both properties have an exception for requests  *)
(* that were open together, so the invariant has to know who was: of two     *)
(* open requests each has met the other, and one that took its stamp first   *)
(* and is still open was open when the other took its own.                   *)

SplitInv ==
    \A c, d \in Txns :
        /\ thread[c] = c /\ thread[d] = d /\ c # d
        /\ Line[c] = Line[d] /\ Parties(c) = Parties(d)
        => d \in met[c]

MetInv == \A t, v \in Open : t # v => v \in met[t]

StampInv ==
    \A t \in Txns, v \in Open :
        0 < stamp[v] /\ stamp[v] < stamp[t] => v \in met[t]

\* What the conversation says is at least as late as the stamp of a message in it,
\* unless a request t has met has committed there.
ReadInv ==
    \A t \in Txns :
        phase[t] = "committed" /\ stamp[t] > 0 =>
            \/ lastAt[thread[t]] >= stamp[t]
            \/ \E v \in met[t] : phase[v] = "committed" /\ thread[v] = thread[t]

LEMMA SplitInvStep ==
    ASSUME TypeOK, LifeInv, ThreadInv, SplitInv, [Next]_vars
    PROVE  SplitInv'
<1> USE MessagingAssumption DEF TypeOK
<1>1. ASSUME \A t \in Txns : thread'[t] \in {thread[t], None}, met' = met
      PROVE  SplitInv'
  BY <1>1 DEF SplitInv
<1>2. ASSUME NEW t \in Txns, Begin(t)
      PROVE  /\ met'[t] = Open
             /\ \A v \in Open \ {t} : met'[v] = met[v] \cup {t}
             /\ \A v \in Txns \ (Open \cup {t}) : met'[v] = met[v] \ {t}
  BY <1>2 DEF Begin, Open
<1>3. ASSUME NEW t \in Txns, phase[t] = "new", Begin(t), Resolve(t)
      PROVE  SplitInv'
  <2>1. \A v \in Txns \ {t} : thread'[v] = thread[v]
    BY <1>3 DEF Resolve
  \* Whoever made a conversation with these participants is still open.
  <2>2. ASSUME NEW d \in Txns, d # t, thread'[t] = t, thread[d] = d,
               Line[d] = Line[t], Parties(d) = Parties(t)
        PROVE  d \in Open
    <3>1. Candidates(t) = {}
      BY <1>3, <2>2 DEF Resolve, Candidates, ThreadVisible, LifeInv
    <3>2. phase[d] # "committed"
      BY <2>2, <3>1 DEF Candidates, ThreadVisible
    <3> QED
      BY <2>2, <3>2 DEF LifeInv, Open
  <2>3. ASSUME NEW c \in Txns, NEW d \in Txns, c # d, thread'[c] = c, thread'[d] = d,
               Line[c] = Line[d], Parties(c) = Parties(d)
        PROVE  d \in met'[c]
    <3>1. CASE c = t
      BY <1>2, <1>3, <2>1, <2>2, <2>3, <3>1
    <3>2. CASE d = t
      BY <1>2, <1>3, <2>1, <2>2, <2>3, <3>2
    <3>3. CASE c # t /\ d # t
      BY <1>2, <1>3, <2>1, <2>3, <3>3 DEF SplitInv
    <3> QED
      BY <3>1, <3>2, <3>3
  <2> QED
    BY <2>3 DEF SplitInv
<1>4. ASSUME NEW d \in Deliveries, ReceiveUnknown(d)
      PROVE  SplitInv'
  <2>1. thread[d] = None /\ thread' = thread
    BY <1>4 DEF ReceiveUnknown, LifeInv
  <2> QED
    BY <1>2, <1>4, <2>1 DEF SplitInv, ReceiveUnknown
<1>5. ASSUME NEW s \in Sends, SendStart(s) \/ SendAccepted(s) \/ SendFailed(s)
      PROVE  SplitInv'
  BY <1>1, <1>3, <1>5 DEF SendStart, SendAccepted, SendFailed
<1>6. ASSUME NEW d \in Deliveries,
             ReceiveStart(d) \/ Insert(d) \/ ReceiveStamp(d) \/ Repost(d)
      PROVE  SplitInv'
  BY <1>1, <1>3, <1>6 DEF ReceiveStart, Insert, ReceiveStamp, Repost
<1>7. ASSUME NEW t \in Txns, InsertRaises(t) \/ Raise(t) \/ Touch(t) \/ Commit(t)
      PROVE  SplitInv'
  BY <1>1, <1>7 DEF InsertRaises, Raise, Undo, Touch, Commit
<1>8. ASSUME NEW u \in Users, NEW c \in Txns, MarkRead(u, c)
      PROVE  SplitInv'
  BY <1>1, <1>8 DEF MarkRead
<1>9. CASE UNCHANGED vars
  BY <1>1, <1>9 DEF vars
<1> QED
  BY <1>4, <1>5, <1>6, <1>7, <1>8, <1>9 DEF Next, Step

\* Two conversations of one participant set come from two requests that were open
\* at the same time, and from nothing else.
THEOREM SplitByRace == SafeSpec => []SplitOnlyByRace
<1>1. Init => LifeInv /\ ThreadInv /\ SplitInv
  BY MessagingAssumption DEF Init, LifeInv, ThreadInv, SplitInv
<1>2. TypeOK /\ LifeInv /\ ThreadInv /\ SplitInv /\ [Next]_vars
      => LifeInv' /\ ThreadInv' /\ SplitInv'
  BY LifeInvStep, ThreadInvStep, SplitInvStep
<1>3. SplitInv => SplitOnlyByRace
  BY DEF SplitInv, SplitOnlyByRace, ThreadVisible
<1>4. QED
  BY <1>1, <1>2, <1>3, TypeCorrect, PTL DEF SafeSpec

\* A request that begins has neither stamp nor rows, and meets the open ones.
LEMMA BeginStep ==
    ASSUME TypeOK, LifeInv, MetInv, StampInv, ReadInv,
           NEW t \in Txns, phase[t] = "new", Begin(t), UNCHANGED stamp,
           \A v \in Txns \ {t} : phase'[v] = phase[v] /\ thread'[v] = thread[v],
           \A v \in Txns \ {t} : lastAt'[v] = lastAt[v],
           phase'[t] \in OpenPhases \cup {"committed"},
           \A v \in Txns : thread[v] = t => phase[v] # "committed"
    PROVE  MetInv' /\ StampInv' /\ ReadInv'
<1> USE DEF TypeOK
<1>1. /\ met'[t] = Open
      /\ \A v \in Open \ {t} : met'[v] = met[v] \cup {t}
      /\ \A v \in Txns \ (Open \cup {t}) : met'[v] = met[v] \ {t}
  BY DEF Begin, Open
<1>2. Open' \subseteq Open \cup {t} /\ t \notin Open /\ Open \subseteq Txns
  BY DEF Open
<1>3. stamp[t] = 0 /\ stamp'[t] = 0
  BY DEF LifeInv
<1>4. MetInv'
  BY <1>1, <1>2 DEF MetInv
<1>5. StampInv'
  <2> SUFFICES ASSUME NEW w \in Txns, NEW v \in Open', 0 < stamp[v], stamp[v] < stamp[w]
               PROVE  v \in met'[w]
    BY DEF StampInv
  <2>1. v # t /\ w # t /\ v \in Open
    BY <1>2, <1>3
  <2>2. v \in met[w]
    BY <2>1 DEF StampInv
  <2> QED
    BY <1>1, <2>1, <2>2
<1>6. ReadInv'
  <2> SUFFICES ASSUME NEW w \in Txns, phase'[w] = "committed", stamp[w] > 0
               PROVE  \/ lastAt'[thread'[w]] >= stamp[w]
                      \/ \E v \in met'[w] : phase'[v] = "committed" /\ thread'[v] = thread'[w]
    BY DEF ReadInv
  <2>1. w # t /\ phase[w] = "committed" /\ thread'[w] = thread[w] /\ w \notin Open
    BY <1>3 DEF Open
  <2>2. CASE lastAt[thread[w]] >= stamp[w]
    <3>1. thread[w] # t
      BY <2>1
    <3>2. lastAt'[thread[w]] = lastAt[thread[w]] \/ thread[w] \notin Txns
      BY <3>1
    <3>3. thread[w] \in Txns
      BY <2>1 DEF LifeInv
    <3> QED
      BY <2>1, <2>2, <3>2, <3>3
  <2>3. CASE \E v \in met[w] : phase[v] = "committed" /\ thread[v] = thread[w]
    BY <1>1, <2>1, <2>3
  <2> QED
    BY <2>1, <2>2, <2>3 DEF ReadInv
<1> QED
  BY <1>4, <1>5, <1>6

LEMMA RaceInvStep ==
    ASSUME TypeOK, LifeInv, LifeInv', ThreadInv, MetInv, StampInv, ReadInv, [Next]_vars
    PROVE  MetInv' /\ StampInv' /\ ReadInv'
<1> USE MessagingAssumption DEF TypeOK
<1>1. ASSUME NEW t \in Txns, phase[t] = "new"
      PROVE  \A v \in Txns : thread[v] = t => phase[v] # "committed"
  BY <1>1 DEF LifeInv, ThreadInv, ThreadVisible
\* Steps that neither open a request nor stamp one nor move a conversation.
<1>2. ASSUME UNCHANGED <<lastAt, met>>, Open' \subseteq Open,
             \A t \in Txns : \/ phase'[t] = phase[t] /\ thread'[t] = thread[t] /\ stamp'[t] = stamp[t]
                             \/ phase[t] # "committed" /\ phase'[t] # "committed"
                                /\ stamp'[t] \in {0, stamp[t]}
      PROVE  MetInv' /\ StampInv' /\ ReadInv'
  <2>1. MetInv'
    BY <1>2 DEF MetInv
  <2>2. StampInv'
    <3> SUFFICES ASSUME NEW w \in Txns, NEW v \in Open', 0 < stamp'[v], stamp'[v] < stamp'[w]
                 PROVE  v \in met[w]
      BY <1>2 DEF StampInv
    <3>1. v \in Open /\ v \in Txns
      BY <1>2 DEF Open
    <3>2. stamp'[v] = stamp[v] /\ stamp'[w] = stamp[w]
      BY <1>2, <3>1
    <3> QED
      BY <3>1, <3>2 DEF StampInv
  <2>3. ReadInv'
    BY <1>2 DEF ReadInv
  <2> QED
    BY <2>1, <2>2, <2>3
<1>3. ASSUME NEW t \in Txns, phase[t] \in OpenPhases, phase'[t] \in OpenPhases, Stamp(t),
             UNCHANGED <<thread, lastAt, met>>,
             \A v \in Txns \ {t} : phase'[v] = phase[v]
      PROVE  MetInv' /\ StampInv' /\ ReadInv'
  <2>1. /\ Open' = Open /\ t \in Open /\ Open \subseteq Txns
        /\ stamp'[t] = clock + 1
        /\ \A v \in Txns \ {t} : stamp'[v] = stamp[v] /\ stamp[v] \in Nat /\ stamp[v] <= clock
    BY <1>3 DEF Open, Stamp
  <2>2. MetInv'
    BY <1>3, <2>1 DEF MetInv
  <2>3. StampInv'
    <3> SUFFICES ASSUME NEW w \in Txns, NEW v \in Open, 0 < stamp'[v], stamp'[v] < stamp'[w]
                 PROVE  v \in met[w]
      BY <1>3, <2>1 DEF StampInv
    <3>1. CASE w = t
      BY <2>1, <3>1 DEF MetInv
    <3>2. CASE w # t /\ v # t
      BY <2>1, <3>2 DEF StampInv
    <3>3. CASE w # t /\ v = t
      BY <2>1, <3>3
    <3> QED
      BY <3>1, <3>2, <3>3
  <2>4. ReadInv'
    BY <1>3, <2>1 DEF ReadInv
  <2> QED
    BY <2>2, <2>3, <2>4
<1>4. ASSUME NEW t \in Txns, Resolve(t)
      PROVE  /\ \A v \in Txns \ {t} : thread'[v] = thread[v]
             /\ \A v \in Txns \ {t} : lastAt'[v] = lastAt[v]
  BY <1>4 DEF Resolve
<1>5. ASSUME NEW s \in Sends, SendStart(s)
      PROVE  MetInv' /\ StampInv' /\ ReadInv'
  BY <1>1, <1>4, <1>5, BeginStep DEF SendStart
<1>6. ASSUME NEW d \in Deliveries, ReceiveStart(d) \/ ReceiveUnknown(d)
      PROVE  MetInv' /\ StampInv' /\ ReadInv'
  BY <1>1, <1>4, <1>6, BeginStep DEF ReceiveStart, ReceiveUnknown
<1>7. ASSUME NEW t \in Txns, Commit(t)
      PROVE  MetInv' /\ StampInv' /\ ReadInv'
  <2>1. /\ Open' = Open \ {t} /\ t \in Open /\ phase'[t] = "committed"
        /\ thread[t] \in Txns
        /\ UNCHANGED <<thread, stamp, met>>
        /\ lastAt'[thread[t]] = IF stamp[t] > 0 THEN stamp[t] ELSE lastAt[thread[t]]
        /\ \A c \in Txns \ {thread[t]} : lastAt'[c] = lastAt[c]
        /\ \A v \in Txns \ {t} : phase'[v] = phase[v]
    BY <1>7 DEF Commit, Open, LifeInv
  <2>2. MetInv' /\ StampInv'
    BY <2>1 DEF MetInv, StampInv
  <2>3. ASSUME NEW w \in Txns, phase'[w] = "committed", stamp[w] > 0
        PROVE  \/ lastAt'[thread[w]] >= stamp[w]
               \/ \E v \in met[w] : phase'[v] = "committed" /\ thread[v] = thread[w]
    <3>1. CASE w = t
      BY <2>1, <2>3, <3>1
    <3>2. CASE w # t /\ thread[w] = thread[t] /\ 0 < stamp[t] /\ stamp[t] < stamp[w]
      BY <2>1, <3>2 DEF StampInv
    <3>3. CASE w # t /\ thread[w] = thread[t] /\ stamp[t] >= stamp[w]
      BY <2>1, <2>3, <3>3
    <3>4. CASE w # t /\ (thread[w] # thread[t] \/ stamp[t] = 0)
      <4>1. thread[w] \in Txns /\ lastAt'[thread[w]] = lastAt[thread[w]]
        BY <2>1, <2>3, <3>4 DEF LifeInv
      <4> QED
        BY <2>1, <2>3, <3>4, <4>1 DEF ReadInv
    <3>5. stamp[t] \in Nat /\ stamp[w] \in Nat
      OBVIOUS
    <3> QED
      BY <3>1, <3>2, <3>3, <3>4, <3>5
  <2> QED
    BY <2>1, <2>2, <2>3 DEF ReadInv
<1>8. ASSUME NEW t \in Txns, SendAccepted(t) \/ ReceiveStamp(t)
      PROVE  MetInv' /\ StampInv' /\ ReadInv'
  BY <1>3, <1>8 DEF SendAccepted, ReceiveStamp
<1>9. ASSUME NEW t \in Txns, SendFailed(t) \/ Insert(t) \/ Touch(t)
       PROVE  MetInv' /\ StampInv' /\ ReadInv'
  BY <1>2, <1>9 DEF SendFailed, Insert, Touch, Open
<1>10. ASSUME NEW t \in Txns, Repost(t)
       PROVE  MetInv' /\ StampInv' /\ ReadInv'
  BY <1>2, <1>10 DEF Repost, Open
<1>11. ASSUME NEW t \in Txns, InsertRaises(t) \/ Raise(t)
       PROVE  MetInv' /\ StampInv' /\ ReadInv'
  BY <1>2, <1>11 DEF InsertRaises, Raise, Undo, Open
<1>12. ASSUME NEW u \in Users, NEW c \in Txns, MarkRead(u, c)
       PROVE  MetInv' /\ StampInv' /\ ReadInv'
  BY <1>2, <1>12 DEF MarkRead, Open
<1>13. CASE UNCHANGED vars
  BY <1>2, <1>13 DEF vars, Open
<1> QED
  BY <1>5, <1>6, <1>7, <1>8, <1>9, <1>10, <1>11, <1>12, <1>13 DEF Next, Step

\* A viewer misses a message newer than the last reading only where requests in one
\* conversation overlapped, so that the older stamp was written last.
THEOREM UnreadByRace == SafeSpec => []UnreadMissedOnlyByRace
<1>1. Init => LifeInv /\ ThreadInv /\ MetInv /\ StampInv /\ ReadInv
  BY MessagingAssumption
     DEF Init, LifeInv, ThreadInv, MetInv, StampInv, ReadInv, Open
<1>2. TypeOK /\ LifeInv /\ ThreadInv /\ MetInv /\ StampInv /\ ReadInv /\ [Next]_vars
      => LifeInv' /\ ThreadInv' /\ MetInv' /\ StampInv' /\ ReadInv'
  BY LifeInvStep, ThreadInvStep, RaceInvStep
<1>3. TypeOK /\ LifeInv /\ ReadInv => UnreadMissedOnlyByRace
  <2> SUFFICES ASSUME TypeOK, LifeInv, ReadInv,
                      NEW u \in Users, NEW t \in Txns,
                      MessageVisible(t), stamp[t] > 0, readAt[u][thread[t]] < stamp[t]
               PROVE  Unread(u, thread[t]) \/ \E v \in met[t] : thread[v] = thread[t]
    BY DEF UnreadMissedOnlyByRace
  <2>1. /\ thread[t] \in Txns /\ stamp[t] \in Nat
        /\ lastAt[thread[t]] \in Nat /\ readAt[u][thread[t]] \in Nat
    BY DEF TypeOK, LifeInv
  <2> QED
    BY <2>1 DEF ReadInv, MessageVisible, Unread
<1>4. QED
  BY <1>1, <1>2, <1>3, TypeCorrect, PTL DEF SafeSpec

=============================================================================
