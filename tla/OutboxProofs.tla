---------------------------- MODULE OutboxProofs ----------------------------
(***************************************************************************)
(* Theorems about Outbox, for any number of requests, events, executions   *)
(* of the task and connections, any batch size and channel capacity.       *)
(***************************************************************************)
EXTENDS Outbox, FiniteSetTheorems, TLAPS

USE DEF Statuses

\* Every variable keeps its type: in particular rows only hold the three statuses
\* of OutboxEventStatus, and a timestamp never lies in the future.
THEOREM TypeCorrect == SafeSpec => []TypeOK
<1>1. Init => TypeOK
  BY OutboxAssumption DEF Init, TypeOK
<1>2. TypeOK /\ [Next]_vars => TypeOK'
  <2> SUFFICES ASSUME TypeOK, [Next]_vars
               PROVE  TypeOK'
    OBVIOUS
  <2> USE OutboxAssumption DEF TypeOK, dbVars, workerVars, connVars
  <2>1. ASSUME NEW e \in Events, Emit(e)
        PROVE  TypeOK'
    BY <2>1 DEF Emit
  <2>2. ASSUME NEW r \in Requests, Commit(r)
        PROVE  TypeOK'
    BY <2>2 DEF Commit
  <2>3. ASSUME NEW r \in Requests, Rollback(r)
        PROVE  TypeOK'
    BY <2>3 DEF Rollback
  <2>4. ASSUME NEW w \in Workers, Tick(w)
        PROVE  TypeOK'
    BY <2>4 DEF Tick, Oldest, PendingRows
  <2>5. ASSUME NEW e \in Events, Publish(e)
        PROVE  /\ inbox' \in [Conns -> Seq(Events)]
               /\ lost' \in [Conns -> SUBSET Events]
               /\ pubs' \in [Events -> 0 .. 2]
               /\ UNCHANGED <<conn, received>>
    BY <2>5 DEF Publish
  <2>6. ASSUME NEW w \in Workers, NEW e \in Events, Advance(w, e)
        PROVE  /\ event' \in [Workers -> Events \cup {NoEvent}]
               /\ batch' \in [Workers -> SUBSET Events]
               /\ UNCHANGED <<dbVars, crashes, redone>>
               /\ event' = [event EXCEPT ![w] = e]
    BY <2>6 DEF Advance
  <2>7. ASSUME NEW w \in Workers, NEW e \in Events, SendSucceeds(w, e)
        PROVE  TypeOK'
    BY <2>5, <2>6, <2>7 DEF SendSucceeds
  <2>8. ASSUME NEW w \in Workers, NEW e \in Events, SendFails(w, e)
        PROVE  TypeOK'
    BY <2>6, <2>8 DEF SendFails
  <2>9. ASSUME NEW w \in Workers, NEW e \in Events, SendTimesOut(w, e)
        PROVE  TypeOK'
    BY <2>5, <2>6, <2>9 DEF SendTimesOut
  <2>10. ASSUME NEW w \in Workers, MarkDispatched(w)
         PROVE  TypeOK'
    BY <2>10 DEF MarkDispatched, Settle
  <2>11. ASSUME NEW w \in Workers, MarkFailed(w)
         PROVE  TypeOK'
    BY <2>11 DEF MarkFailed, Settle
  <2>12. ASSUME NEW w \in Workers, Crash(w)
         PROVE  TypeOK'
    <3>1. Held(w) \subseteq Events
      BY DEF Held
    <3> QED
      BY <2>12, <3>1 DEF Crash
  <2>13. ASSUME NEW c \in Conns, Join(c) \/ Refuse(c) \/ Accept(c)
         PROVE  TypeOK'
    BY <2>13 DEF Join, Refuse, Accept
  <2>14. ASSUME NEW c \in Conns, Deliver(c) \/ Expire(c)
         PROVE  TypeOK'
    <3>1. inbox[c] \in Seq(Events) /\ inbox[c] # <<>>
      BY <2>14 DEF Deliver, Expire
    <3>2. Head(inbox[c]) \in Events /\ Tail(inbox[c]) \in Seq(Events)
      BY <3>1
    <3>3. CASE Deliver(c)
      BY <3>2, <3>3 DEF Deliver
    <3>4. CASE Expire(c)
      BY <3>2, <3>4 DEF Expire
    <3> QED
      BY <2>14, <3>3, <3>4
  <2>15. ASSUME NEW c \in Conns, Disconnect(c)
         PROVE  TypeOK'
    BY <2>15 DEF Disconnect
  <2>16. CASE UNCHANGED vars
    BY <2>16 DEF vars
  <2> QED
    BY <2>1, <2>2, <2>3, <2>4, <2>7, <2>8, <2>9, <2>10, <2>11, <2>12, <2>13,
       <2>14, <2>15, <2>16 DEF Next, Work
<1>3. QED
  BY <1>1, <1>2, PTL DEF SafeSpec

-----------------------------------------------------------------------------
(* Why a row may be believed.  The two properties below are not inductive:   *)
(* a step of an execution relies on what it holds, so the invariant says     *)
(* that held rows are committed and that an execution past a successful      *)
(* group_send has published the row it is about to mark.                     *)

DispatchInv ==
    /\ \A e \in Events : pubs[e] > 0 => Visible(e)
    /\ \A e \in Events : status[e] = "dispatched" => pubs[e] > 0
    /\ \A e \in Events : status[e] \in {"dispatched", "failed"} => Visible(e)
    /\ \A w \in Workers : \A e \in Held(w) : Visible(e)
    /\ \A w \in Workers : step[w] = "sent" => pubs[event[w]] > 0
    /\ \A w \in Workers : step[w] = "idle" => batch[w] = {}

\* A committed row stays committed: no step of the code deletes or hides it.
LEMMA VisibleStays ==
    ASSUME TypeOK, [Next]_vars, NEW e \in Events, Visible(e)
    PROVE  Visible(e)'
<1> USE DEF TypeOK, Visible, dbVars, workerVars, connVars
<1>1. ASSUME NEW f \in Events, Emit(f)
      PROVE  Visible(e)'
  BY <1>1, OutboxAssumption DEF Emit
<1>2. ASSUME NEW r \in Requests, Commit(r) \/ Rollback(r)
      PROVE  Visible(e)'
  BY <1>2, OutboxAssumption DEF Commit, Rollback
<1>3. ASSUME NEW w \in Workers, Tick(w) \/ Crash(w)
      PROVE  Visible(e)'
  BY <1>3 DEF Tick, Crash
<1>4. ASSUME NEW w \in Workers, NEW f \in Events,
             SendSucceeds(w, f) \/ SendFails(w, f) \/ SendTimesOut(w, f)
      PROVE  Visible(e)'
  BY <1>4 DEF SendSucceeds, SendFails, SendTimesOut, Advance
<1>5. ASSUME NEW w \in Workers, MarkDispatched(w) \/ MarkFailed(w)
      PROVE  Visible(e)'
  BY <1>5 DEF MarkDispatched, MarkFailed, Settle
<1>6. ASSUME NEW c \in Conns,
             Join(c) \/ Refuse(c) \/ Accept(c) \/ Deliver(c) \/ Expire(c) \/ Disconnect(c)
      PROVE  Visible(e)'
  BY <1>6 DEF Join, Refuse, Accept, Deliver, Expire, Disconnect
<1>7. CASE UNCHANGED vars
  BY <1>7 DEF vars
<1> QED
  BY <1>1, <1>2, <1>3, <1>4, <1>5, <1>6, <1>7 DEF Next, Work

LEMMA DispatchInvStep ==
    ASSUME TypeOK, DispatchInv, [Next]_vars
    PROVE  DispatchInv'
<1> USE DEF TypeOK, DispatchInv, Held, dbVars, workerVars, connVars
<1>V. \A e \in Events : Visible(e) => Visible(e)'
  BY VisibleStays
<1>1. ASSUME NEW f \in Events, Emit(f)
      PROVE  DispatchInv'
  BY <1>1, <1>V DEF Emit
<1>2. ASSUME NEW r \in Requests, Commit(r)
      PROVE  DispatchInv'
  BY <1>2, <1>V DEF Commit
<1>3. ASSUME NEW r \in Requests, Rollback(r)
      PROVE  DispatchInv'
  BY <1>3, <1>V DEF Rollback
<1>4. ASSUME NEW w \in Workers, Tick(w)
      PROVE  DispatchInv'
  BY <1>4, <1>V DEF Tick, Oldest, PendingRows
<1>5. ASSUME NEW e \in Events, Publish(e)
      PROVE  /\ pubs'[e] > 0
             /\ \A f \in Events : pubs[f] > 0 => pubs'[f] > 0
             /\ \A f \in Events \ {e} : pubs'[f] = pubs[f]
  BY <1>5 DEF Publish
<1>6. ASSUME NEW w \in Workers, NEW e \in Events, Advance(w, e), step'[w] \in {"sent", "raised"},
             \A v \in Workers \ {w} : step'[v] = step[v],
             \A f \in Events : pubs'[f] > 0 => pubs[f] > 0 \/ f = e,
             \A f \in Events : pubs[f] > 0 => pubs'[f] > 0,
             step'[w] = "sent" => pubs'[e] > 0
      PROVE  DispatchInv'
  <2>1. /\ Visible(e)
        /\ \A v \in Workers : Held(v)' = Held(v)
        /\ \A v \in Workers : step'[v] = "idle" => batch'[v] = {}
        /\ \A v \in Workers \ {w} : event'[v] = event[v]
        /\ event'[w] = e /\ status' = status
    BY <1>6 DEF Advance
  <2>2. \A f \in Events : pubs'[f] > 0 => Visible(f)'
    BY <2>1, <1>6, <1>V
  <2>3. \A f \in Events : status'[f] = "dispatched" => pubs'[f] > 0
    BY <2>1, <1>6
  <2>4. \A v \in Workers : step'[v] = "sent" => pubs'[event'[v]] > 0
    <3> SUFFICES ASSUME NEW v \in Workers, step'[v] = "sent"
                 PROVE  pubs'[event'[v]] > 0
      OBVIOUS
    <3>1. CASE v = w
      BY <3>1, <2>1, <1>6
    <3>2. CASE v # w
      BY <3>2, <2>1, <1>6
    <3> QED
      BY <3>1, <3>2
  <2>5. \A v \in Workers : Held(v) \subseteq Events
    OBVIOUS
  <2>6. \A v \in Workers : \A f \in Held(v)' : Visible(f)'
    <3> HIDE DEF Held
    <3> QED
      BY <2>1, <2>5, <1>V
  <2>7. \A f \in Events : status'[f] \in {"dispatched", "failed"} => Visible(f)'
    BY <2>1, <1>V
  <2> HIDE DEF Held
  <2> QED
    BY <2>1, <2>2, <2>3, <2>4, <2>6, <2>7
<1>7. ASSUME NEW w \in Workers, NEW e \in Events,
             SendSucceeds(w, e) \/ SendTimesOut(w, e)
      PROVE  DispatchInv'
  <2>1. /\ Advance(w, e) /\ Publish(e) /\ step'[w] \in {"sent", "raised"}
        /\ \A v \in Workers \ {w} : step'[v] = step[v]
    BY <1>7 DEF SendSucceeds, SendTimesOut
  <2> QED
    BY <2>1, <1>5, <1>6
<1>8. ASSUME NEW w \in Workers, NEW e \in Events, SendFails(w, e)
      PROVE  DispatchInv'
  <2>1. /\ Advance(w, e) /\ step'[w] = "raised" /\ pubs' = pubs
        /\ \A v \in Workers \ {w} : step'[v] = step[v]
    BY <1>8 DEF SendFails
  <2> QED
    BY <2>1, <1>6
<1>9. ASSUME NEW w \in Workers, MarkDispatched(w)
      PROVE  DispatchInv'
  BY <1>9, <1>V DEF MarkDispatched, Settle
<1>10. ASSUME NEW w \in Workers, MarkFailed(w)
       PROVE  DispatchInv'
  BY <1>10, <1>V DEF MarkFailed, Settle
<1>11. ASSUME NEW w \in Workers, Crash(w)
       PROVE  DispatchInv'
  BY <1>11, <1>V DEF Crash
<1>12. ASSUME NEW c \in Conns,
             Join(c) \/ Refuse(c) \/ Accept(c) \/ Deliver(c) \/ Expire(c) \/ Disconnect(c)
      PROVE  DispatchInv'
  <2>1. UNCHANGED <<status, step, batch, event, pubs>>
    BY <1>12 DEF Join, Refuse, Accept, Deliver, Expire, Disconnect
  <2> QED
    BY <2>1, <1>V
<1>13. CASE UNCHANGED vars
  <2>1. UNCHANGED <<status, step, batch, event, pubs>>
    BY <1>13 DEF vars
  <2> QED
    BY <2>1, <1>V
<1> QED
  BY <1>1, <1>2, <1>3, <1>4, <1>7, <1>8, <1>9, <1>10, <1>11, <1>12, <1>13 DEF Next, Work

THEOREM DispatchInvariant == SafeSpec => []DispatchInv
<1>1. Init => DispatchInv
  BY OutboxAssumption DEF Init, DispatchInv, Held
<1>2. TypeOK /\ DispatchInv /\ [Next]_vars => DispatchInv'
  BY DispatchInvStep
<1>3. QED
  BY <1>1, <1>2, TypeCorrect, PTL DEF SafeSpec

\* No event of a request that is open or rolled back is ever published, for any
\* interleaving of requests and executions of the task.
THEOREM PublishedCommitted == SafeSpec => []PublishedOnlyIfCommitted
<1>1. DispatchInv => PublishedOnlyIfCommitted
  BY DEF DispatchInv, PublishedOnlyIfCommitted, Visible
<1>2. QED
  BY <1>1, DispatchInvariant, PTL

\* A row is marked dispatched only after its event was put on its group.
THEOREM DispatchedPublished == SafeSpec => []DispatchedWasPublished
<1>1. DispatchInv => DispatchedWasPublished
  BY DEF DispatchInv, DispatchedWasPublished
<1>2. QED
  BY <1>1, DispatchInvariant, PTL

-----------------------------------------------------------------------------
(* Why an event is published twice only for a reason.  As long as a row was  *)
(* never held twice, the execution that holds it is the only one, it still   *)
(* finds the row pending, and a pending row that is already on its group is  *)
(* the one some execution is about to mark.                                  *)

Marking(w) == step[w] \in {"sent", "raised"}

OnceInv ==
    /\ \A w \in Workers : event[w] \notin batch[w]
    /\ \A e \in Events \ redone :
          /\ pubs[e] <= 1
          /\ \A v, w \in Workers : e \in Held(v) /\ e \in Held(w) => v = w
          /\ \A w \in Workers : e \in batch[w] => pubs[e] = 0
          /\ \A w \in Workers : e \in Held(w) => status[e] = "pending"
          /\ pubs[e] > 0 /\ status[e] = "pending" =>
                 \E w \in Workers : Marking(w) /\ event[w] = e

LEMMA PubsCount ==
    ASSUME TypeOK, NEW e \in Events
    PROVE  pubs[e] > 0 <=> pubs[e] # 0
<1>1. pubs[e] \in 0 .. 2
  BY DEF TypeOK
<1> QED
  BY <1>1

LEMMA OnceInvStep ==
    ASSUME TypeOK, DispatchInv, OnceInv, [Next]_vars
    PROVE  OnceInv'
<1> USE DEF OnceInv, Held, Marking, dbVars, workerVars, connVars
<1>1. ASSUME NEW f \in Events, Emit(f)
      PROVE  OnceInv'
  <2>1. ~Visible(f)
    BY <1>1 DEF Emit, Visible
  <2>2. ~(pubs[f] > 0) /\ \A w \in Workers : f \notin Held(w)
    BY <2>1 DEF DispatchInv
  <2>3. pubs[f] = 0
    BY <2>2, PubsCount
  <2> QED
    BY <1>1, <2>2, <2>3 DEF Emit, TypeOK
<1>2. ASSUME NEW r \in Requests, Commit(r)
      PROVE  OnceInv'
  BY <1>2 DEF Commit
<1>3. ASSUME NEW r \in Requests, Rollback(r)
      PROVE  OnceInv'
  <2>1. \A e \in Events : status'[e] = "pending" => status[e] = "pending"
    BY <1>3 DEF Rollback, TypeOK
  <2>2. \A w \in Workers : \A e \in Held(w) \cap Events : status'[e] = status[e]
    BY <1>3 DEF Rollback, TypeOK, DispatchInv, Visible
  <2> QED
    BY <1>3, <2>1, <2>2 DEF Rollback, TypeOK
<1>4. ASSUME NEW w \in Workers, Tick(w)
      PROVE  OnceInv'
  <2> DEFINE taken == Oldest(PendingRows, BatchSize)
  <2>1. /\ taken \subseteq {e \in Events : status[e] = "pending"}
        /\ batch' = [batch EXCEPT ![w] = taken]
        /\ step' = [step EXCEPT ![w] = "send"]
        /\ redone' = redone \cup {e \in taken : \E v \in Workers \ {w} : e \in Held(v)}
        /\ UNCHANGED <<status, event, pubs>>
    BY <1>4 DEF Tick, Oldest, PendingRows
  <2> HIDE DEF taken
  <2>2. Held(w) = {} /\ event[w] = NoEvent
    BY <1>4 DEF Tick, DispatchInv, TypeOK
  <2>3. Held(w)' = taken /\ \A v \in Workers \ {w} : Held(v)' = Held(v)
    BY <2>1 DEF TypeOK
  <2>4. \A e \in taken \ redone' : \A v \in Workers \ {w} : e \notin Held(v)
    BY <2>1
  <2>5. \A e \in taken \ redone' : pubs[e] = 0
    <3> SUFFICES ASSUME NEW e \in taken \ redone', pubs[e] # 0
                 PROVE  FALSE
      OBVIOUS
    <3>1. e \in Events \ redone /\ status[e] = "pending"
      BY <2>1
    <3>2. pubs[e] > 0
      BY <3>1, PubsCount
    <3>3. PICK v \in Workers : Marking(v) /\ event[v] = e
      BY <3>1, <3>2
    <3>4. v # w
      BY <3>3, <1>4 DEF Tick
    <3> QED
      BY <3>3, <3>4, <2>4
  <2>6. \A v \in Workers : event'[v] \notin batch'[v]
    BY <2>1, <2>2, OutboxAssumption DEF TypeOK
  <2>7. ASSUME NEW e \in Events \ redone'
        PROVE  /\ pubs'[e] <= 1
               /\ \A u, v \in Workers : e \in Held(u)' /\ e \in Held(v)' => u = v
               /\ \A v \in Workers : e \in batch'[v] => pubs'[e] = 0
               /\ \A v \in Workers : e \in Held(v)' => status'[e] = "pending"
    <3>1. e \in Events \ redone
      BY <2>1
    <3> QED
      BY <3>1, <2>1, <2>3, <2>4, <2>5 DEF TypeOK
  <2>8. ASSUME NEW e \in Events \ redone', pubs'[e] > 0, status'[e] = "pending"
        PROVE  \E v \in Workers : Marking(v)' /\ event'[v] = e
    <3>1. PICK v \in Workers : Marking(v) /\ event[v] = e
      BY <2>1, <2>8
    <3>2. v # w
      BY <3>1, <1>4 DEF Tick
    <3> QED
      BY <3>1, <3>2, <2>1 DEF TypeOK
  <2> QED
    BY <2>6, <2>7, <2>8
<1>5. ASSUME NEW w \in Workers, NEW e \in Events, Advance(w, e), Marking(w)',
             \A v \in Workers \ {w} : step'[v] = step[v],
             \A f \in Events \ {e} : pubs'[f] = pubs[f],
             pubs[e] = 0 => pubs'[e] \in {0, 1}
      PROVE  OnceInv'
  <2>1. /\ \A v \in Workers : Held(v)' = Held(v)
        /\ \A v \in Workers \ {w} : event'[v] = event[v] /\ batch'[v] = batch[v]
        /\ event'[w] = e /\ batch'[w] = batch[w] \ {e}
        /\ e \in batch[w] /\ step[w] = "send"
        /\ UNCHANGED <<status, redone>>
    BY <1>5 DEF Advance, TypeOK
  <2>2. \A v \in Workers : event'[v] \notin batch'[v]
    BY <2>1
  <2>3. ASSUME NEW f \in Events \ redone
        PROVE  /\ pubs'[f] <= 1
               /\ \A u, v \in Workers : f \in Held(u)' /\ f \in Held(v)' => u = v
               /\ \A v \in Workers : f \in batch'[v] => pubs'[f] = 0
               /\ \A v \in Workers : f \in Held(v)' => status'[f] = "pending"
    <3>1. CASE f = e
      <4>1. pubs[e] = 0 /\ \A v \in Workers \ {w} : e \notin Held(v)
        BY <2>1, <3>1
      <4> QED
        BY <4>1, <3>1, <2>1, <1>5
    <3>2. CASE f # e
      BY <3>2, <2>1, <1>5
    <3> QED
      BY <3>1, <3>2
  <2>4. ASSUME NEW f \in Events \ redone, pubs'[f] > 0, status'[f] = "pending"
        PROVE  \E v \in Workers : Marking(v)' /\ event'[v] = f
    <3>1. CASE f = e
      BY <3>1, <2>1, <1>5
    <3>2. CASE f # e
      <4>1. PICK v \in Workers : Marking(v) /\ event[v] = f
        BY <3>2, <2>4, <2>1, <1>5
      <4>2. v # w
        BY <4>1, <2>1
      <4> QED
        BY <4>1, <4>2, <2>1, <1>5
    <3> QED
      BY <3>1, <3>2
  <2> QED
    BY <2>1, <2>2, <2>3, <2>4
<1>6. ASSUME NEW e \in Events, Publish(e)
      PROVE  /\ \A f \in Events \ {e} : pubs'[f] = pubs[f]
             /\ pubs[e] = 0 => pubs'[e] \in {0, 1}
  BY <1>6 DEF Publish, TypeOK
<1>7. ASSUME NEW w \in Workers, NEW e \in Events,
             SendSucceeds(w, e) \/ SendTimesOut(w, e)
      PROVE  OnceInv'
  <2>1. /\ Advance(w, e) /\ Publish(e) /\ Marking(w)'
        /\ \A v \in Workers \ {w} : step'[v] = step[v]
    BY <1>7 DEF SendSucceeds, SendTimesOut, TypeOK
  <2> QED
    BY <2>1, <1>5, <1>6
<1>8. ASSUME NEW w \in Workers, NEW e \in Events, SendFails(w, e)
      PROVE  OnceInv'
  <2>1. /\ Advance(w, e) /\ pubs' = pubs /\ Marking(w)'
        /\ \A v \in Workers \ {w} : step'[v] = step[v]
    BY <1>8 DEF SendFails, TypeOK
  <2> QED
    BY <2>1, <1>5
<1>9. ASSUME NEW w \in Workers, MarkDispatched(w) \/ MarkFailed(w)
      PROVE  OnceInv'
  <2>1. PICK result \in {"dispatched", "failed"} : Settle(w, result) /\ Marking(w)
    BY <1>9 DEF MarkDispatched, MarkFailed
  <2>2. /\ status' = [status EXCEPT ![event[w]] = result]
        /\ \A v \in Workers \ {w} : Held(v)' = Held(v) /\ event'[v] = event[v] /\ step'[v] = step[v]
        /\ Held(w)' = batch[w] /\ event'[w] = NoEvent
        /\ UNCHANGED <<batch, redone, pubs>>
    BY <2>1 DEF Settle, TypeOK
  <2>7. NoEvent \notin batch[w]
    BY OutboxAssumption DEF TypeOK
  <2>3. \A v \in Workers : event'[v] \notin batch'[v]
    BY <2>2, <2>7
  <2>4. ASSUME NEW f \in Events \ redone, NEW v \in Workers, f \in Held(v)'
        PROVE  status'[f] = "pending"
    <3>1. f \in Held(v) /\ f # event[w]
      BY <2>1, <2>2, <2>4
    <3> QED
      BY <3>1, <2>2 DEF TypeOK
  <2>5. ASSUME NEW f \in Events \ redone, pubs'[f] > 0, status'[f] = "pending"
        PROVE  \E v \in Workers : Marking(v)' /\ event'[v] = f
    <3>1. status[f] = "pending" /\ f # event[w]
      BY <2>2, <2>5 DEF TypeOK
    <3>2. PICK v \in Workers : Marking(v) /\ event[v] = f
      BY <3>1, <2>2, <2>5
    <3> QED
      BY <3>1, <3>2, <2>2
  <2>6. \A v \in Workers : Held(v)' \subseteq Held(v)
    BY <2>2
  <2> QED
    BY <2>2, <2>3, <2>4, <2>5, <2>6
<1>10. ASSUME NEW w \in Workers, Crash(w)
       PROVE  OnceInv'
  <2>1. /\ redone' = redone \cup Held(w)
        /\ Held(w)' = {} /\ batch'[w] = {} /\ event'[w] = NoEvent
        /\ \A v \in Workers \ {w} : /\ Held(v)' = Held(v) /\ event'[v] = event[v]
                                    /\ batch'[v] = batch[v] /\ step'[v] = step[v]
        /\ UNCHANGED <<status, pubs>>
    BY <1>10 DEF Crash, TypeOK
  <2>2. ASSUME NEW f \in Events \ redone', pubs'[f] > 0, status'[f] = "pending"
        PROVE  \E v \in Workers : Marking(v)' /\ event'[v] = f
    <3>1. PICK v \in Workers : Marking(v) /\ event[v] = f
      BY <2>1, <2>2
    <3>2. v # w
      BY <3>1, <2>1
    <3> QED
      BY <3>1, <3>2, <2>1
  <2> QED
    BY <2>1, <2>2
<1>11. ASSUME UNCHANGED <<status, step, batch, event, pubs, redone>>
       PROVE  OnceInv'
  BY <1>11
<1>12. ASSUME NEW c \in Conns,
             Join(c) \/ Refuse(c) \/ Accept(c) \/ Deliver(c) \/ Expire(c) \/ Disconnect(c)
      PROVE  OnceInv'
  BY <1>11, <1>12 DEF Join, Refuse, Accept, Deliver, Expire, Disconnect
<1>13. CASE UNCHANGED vars
  BY <1>11, <1>13 DEF vars
<1> QED
  BY <1>1, <1>2, <1>3, <1>4, <1>7, <1>8, <1>9, <1>10, <1>12, <1>13 DEF Next, Work

THEOREM OnceInvariant == SafeSpec => []OnceInv
<1>1. Init => OnceInv
  BY OutboxAssumption DEF Init, OnceInv, Held, Marking
<1>2. TypeOK /\ DispatchInv /\ OnceInv /\ [Next]_vars => OnceInv'
  BY OnceInvStep
<1>3. QED
  BY <1>1, <1>2, TypeCorrect, DispatchInvariant, PTL DEF SafeSpec

\* An event that no two executions held and that no dying execution dropped is
\* published at most once.
THEOREM AtMostOnceUndisturbed == SafeSpec => []DuplicateOnlyByOverlapOrCrash
<1>1. TypeOK /\ OnceInv => DuplicateOnlyByOverlapOrCrash
  <2> SUFFICES ASSUME TypeOK, OnceInv, NEW e \in Events, e \notin redone
               PROVE  ~(pubs[e] > 1)
    BY DEF DuplicateOnlyByOverlapOrCrash
  <2>1. pubs[e] <= 1 /\ pubs[e] \in 0 .. 2
    BY DEF OnceInv, TypeOK
  <2> QED
    BY <2>1
<1>2. QED
  BY <1>1, TypeCorrect, OnceInvariant, PTL

-----------------------------------------------------------------------------
(* Why the rows of one request are published in creation order.  They become *)
(* visible together, so whoever fetches the later one also fetches the       *)
(* earlier one if that is still pending, and reaches the earlier one first.  *)

Before(e, f) == RequestOf[e] = RequestOf[f] /\ 0 < created[e] /\ created[e] < created[f]

OrderInv ==
    /\ \A e \in Events :
          created[e] > 0 /\ phase[RequestOf[e]] # "rolledback" => status[e] # "none"
    /\ \A e, f \in Events : Before(e, f) =>
          /\ pubs[f] > 0 => status[e] \in {"dispatched", "failed"}
          /\ \A w \in Workers :
                /\ f \in batch[w] /\ status[e] = "pending" => e \in Held(w)
                /\ Marking(w) /\ event[w] = f => status[e] \in {"dispatched", "failed"}

\* The n oldest of some rows contain every row older than one of them.
LEMMA OldestIsDownward ==
    ASSUME NEW rows, IsFiniteSet(rows), NEW n \in Nat,
           \A e \in rows : created[e] \in Nat,
           NEW f \in Oldest(rows, n), NEW e \in rows, created[e] < created[f]
    PROVE  e \in Oldest(rows, n)
<1> DEFINE older(x) == {g \in rows : created[g] < created[x]}
<1>1. IsFiniteSet(older(f)) /\ IsFiniteSet(older(e))
  BY FS_Subset
<1>2. f \in rows /\ Cardinality(older(f)) < n
  BY DEF Oldest
<1>3. older(e) \subseteq older(f)
  BY <1>2
<1>4. Cardinality(older(e)) <= Cardinality(older(f))
  BY <1>1, <1>3, FS_Subset
<1>5. Cardinality(older(e)) \in Nat /\ Cardinality(older(f)) \in Nat
  BY <1>1, FS_CardinalityType
<1>6. Cardinality(older(e)) < n
  BY <1>2, <1>4, <1>5
<1> QED
  BY <1>6 DEF Oldest

LEMMA OrderInvStep ==
    ASSUME TypeOK, DispatchInv, OrderInv, [Next]_vars
    PROVE  OrderInv'
<1> USE DEF Before, Marking, dbVars, workerVars, connVars
<1>T. \A e \in Events : created[e] \in Nat
  BY DEF TypeOK
<1>1. ASSUME NEW g \in Events, Emit(g)
      PROVE  OrderInv'
  <2>1. ~Visible(g)
    BY <1>1 DEF Emit, Visible
  <2>2. ~(pubs[g] > 0) /\ \A w \in Workers : g \notin Held(w)
    BY <2>1 DEF DispatchInv
  <2>3. /\ created' = [created EXCEPT ![g] = clock + 1]
        /\ status' = [status EXCEPT ![g] = "pending"]
        /\ UNCHANGED <<phase, step, batch, event, pubs>>
    BY <1>1 DEF Emit
  <2>4. \A e \in Events : created[e] < clock + 1
    BY DEF TypeOK
  <2>5. ASSUME NEW e \in Events, NEW f \in Events, Before(e, f)'
        PROVE  f = g \/ (Before(e, f) /\ e # g)
    BY <2>3, <2>4, <2>5, <1>T DEF TypeOK
  <2>6. \A w \in Workers : Held(w)' = Held(w)
    BY <2>3 DEF Held
  <2>7. \A w \in Workers : g \notin batch[w] /\ ~(Marking(w) /\ event[w] = g)
    BY <2>2 DEF Held
  <2>8. \A e \in Events : created'[e] > 0 /\ phase'[RequestOf[e]] # "rolledback" => status'[e] # "none"
    BY <2>3 DEF OrderInv, TypeOK
  <2> QED
    BY <2>2, <2>3, <2>5, <2>6, <2>7, <2>8 DEF OrderInv, TypeOK
<1>2. ASSUME NEW r \in Requests, Commit(r)
      PROVE  OrderInv'
  <2>1. phase' = [phase EXCEPT ![r] = "committed"] /\ phase[r] = "open"
        /\ UNCHANGED <<status, created, step, batch, event, pubs>>
    BY <1>2 DEF Commit
  <2>2. \A e \in Events : phase'[RequestOf[e]] # "rolledback" => phase[RequestOf[e]] # "rolledback"
    BY <2>1, OutboxAssumption DEF TypeOK
  <2> QED
    BY <2>1, <2>2 DEF OrderInv, Held
<1>3. ASSUME NEW r \in Requests, Rollback(r)
      PROVE  OrderInv'
  <2>1. /\ phase' = [phase EXCEPT ![r] = "rolledback"] /\ phase[r] = "open"
        /\ status' = [e \in Events |-> IF RequestOf[e] = r THEN "none" ELSE status[e]]
        /\ UNCHANGED <<created, step, batch, event, pubs>>
    BY <1>3 DEF Rollback
  <2>2. \A e \in Events : Visible(e) => RequestOf[e] # r
    BY <2>1 DEF Visible
  <2>3. \A e \in Events : phase'[RequestOf[e]] # "rolledback"
                            => phase[RequestOf[e]] # "rolledback" /\ RequestOf[e] # r
    BY <2>1, OutboxAssumption DEF TypeOK
  <2>4. \A w \in Workers : Held(w)' = Held(w)
    BY <2>1 DEF Held
  <2>5. ASSUME NEW f \in Events, pubs[f] > 0 \/ \E w \in Workers : f \in Held(w)
        PROVE  RequestOf[f] # r
    BY <2>5, <2>2 DEF DispatchInv
  <2>6. ASSUME NEW w \in Workers, NEW f \in Events, f \in batch[w] \/ (Marking(w) /\ event[w] = f)
        PROVE  f \in Held(w)
    BY <2>6 DEF Held
  <2> QED
    BY <2>1, <2>3, <2>4, <2>5, <2>6 DEF OrderInv
<1>4. ASSUME NEW w \in Workers, Tick(w)
      PROVE  OrderInv'
  <2>1. /\ batch' = [batch EXCEPT ![w] = Oldest(PendingRows, BatchSize)]
        /\ step' = [step EXCEPT ![w] = "send"]
        /\ UNCHANGED <<phase, status, created, event, pubs>>
    BY <1>4 DEF Tick
  <2>2. ASSUME NEW e \in Events, NEW f \in Oldest(PendingRows, BatchSize), Before(e, f),
               status[e] = "pending"
        PROVE  e \in Oldest(PendingRows, BatchSize)
    <3>1. f \in PendingRows /\ e \in PendingRows
      BY <2>2 DEF Oldest, PendingRows, Visible
    <3>2. IsFiniteSet(PendingRows)
      BY FS_Subset, OutboxAssumption DEF PendingRows
    <3>3. \A g \in PendingRows : created[g] \in Nat
      BY <1>T DEF PendingRows
    <3> QED
      BY <3>1, <3>2, <3>3, <2>2, OldestIsDownward, OutboxAssumption
  <2>3. Oldest(PendingRows, BatchSize) \subseteq Held(w)'
    BY <2>1 DEF Held, TypeOK
  <2>4. \A v \in Workers \ {w} : Held(v)' = Held(v) /\ batch'[v] = batch[v] /\ step'[v] = step[v]
    BY <2>1 DEF Held, TypeOK
  <2>5. batch'[w] = Oldest(PendingRows, BatchSize) /\ ~Marking(w)'
    BY <2>1 DEF TypeOK
  <2> QED
    BY <2>1, <2>2, <2>3, <2>4, <2>5 DEF OrderInv
<1>5. ASSUME NEW w \in Workers, NEW g \in Events, Advance(w, g), Marking(w)',
             \A v \in Workers \ {w} : step'[v] = step[v],
             \A f \in Events \ {g} : pubs'[f] = pubs[f]
      PROVE  OrderInv'
  <2>1. /\ \A v \in Workers : Held(v)' = Held(v) /\ batch'[v] \subseteq batch[v]
        /\ \A v \in Workers \ {w} : event'[v] = event[v]
        /\ event'[w] = g
        /\ UNCHANGED <<phase, status, created>>
    BY <1>5 DEF Advance, TypeOK, Held
  <2>2. /\ g \in batch[w] /\ Held(w) = batch[w]
        /\ \A f \in batch[w] : created[g] <= created[f]
    BY <1>5 DEF Advance, Held
  <2>3. ASSUME NEW e \in Events, Before(e, g)
        PROVE  status[e] \in {"dispatched", "failed"}
    <3>1. e \notin Held(w)
      BY <2>2, <2>3, <1>T
    <3>2. status[e] # "pending"
      BY <3>1, <2>2, <2>3 DEF OrderInv
    <3>3. Visible(g)
      BY <2>2 DEF DispatchInv
    <3>4. phase[RequestOf[e]] = "committed"
      BY <3>3, <2>3 DEF Visible
    <3>5. created[e] > 0
      BY <2>3
    <3>6. status[e] # "none"
      BY <3>4, <3>5 DEF OrderInv
    <3> QED
      BY <3>2, <3>6 DEF TypeOK
  <2> QED
    BY <2>1, <2>3, <1>5 DEF OrderInv
<1>6. ASSUME NEW e \in Events, Publish(e)
      PROVE  \A f \in Events \ {e} : pubs'[f] = pubs[f]
  BY <1>6 DEF Publish, TypeOK
<1>7. ASSUME NEW w \in Workers, NEW e \in Events,
             SendSucceeds(w, e) \/ SendTimesOut(w, e)
      PROVE  OrderInv'
  <2>1. /\ Advance(w, e) /\ Publish(e) /\ Marking(w)'
        /\ \A v \in Workers \ {w} : step'[v] = step[v]
    BY <1>7 DEF SendSucceeds, SendTimesOut, TypeOK
  <2> QED
    BY <2>1, <1>5, <1>6
<1>8. ASSUME NEW w \in Workers, NEW e \in Events, SendFails(w, e)
      PROVE  OrderInv'
  <2>1. /\ Advance(w, e) /\ pubs' = pubs /\ Marking(w)'
        /\ \A v \in Workers \ {w} : step'[v] = step[v]
    BY <1>8 DEF SendFails, TypeOK
  <2> QED
    BY <2>1, <1>5
<1>9. ASSUME NEW w \in Workers, MarkDispatched(w) \/ MarkFailed(w)
      PROVE  OrderInv'
  <2>1. PICK result \in {"dispatched", "failed"} : Settle(w, result) /\ Marking(w)
    BY <1>9 DEF MarkDispatched, MarkFailed
  <2>2. /\ status' = [status EXCEPT ![event[w]] = result]
        /\ step' = [step EXCEPT ![w] = IF batch[w] = {} THEN "idle" ELSE "send"]
        /\ event' = [event EXCEPT ![w] = NoEvent]
        /\ UNCHANGED <<phase, created, batch, pubs>>
    BY <2>1 DEF Settle
  <2>3. /\ event[w] \in Events
        /\ status \in [Events -> {"pending", "dispatched", "failed", "none"}]
        /\ step \in [Workers -> {"idle", "send", "sent", "raised"}]
        /\ event \in [Workers -> Events \cup {NoEvent}]
    BY <2>1 DEF TypeOK
  <2>4. \A e \in Events : status'[e] = IF e = event[w] THEN result ELSE status[e]
    BY <2>2, <2>3
  <2>5. \A v \in Workers : Marking(v)' => v # w /\ Marking(v) /\ event'[v] = event[v]
    BY <2>2, <2>3
  <2>6. \A v \in Workers : \A e \in Held(v) : e # event[w] => e \in Held(v)'
    BY <2>2, <2>3 DEF Held
  <2> QED
    BY <2>2, <2>4, <2>5, <2>6 DEF OrderInv
<1>10. ASSUME NEW w \in Workers, Crash(w)
       PROVE  OrderInv'
  <2>1. /\ batch'[w] = {} /\ ~Marking(w)'
        /\ \A v \in Workers \ {w} : /\ Held(v)' = Held(v) /\ event'[v] = event[v]
                                    /\ batch'[v] = batch[v] /\ step'[v] = step[v]
        /\ UNCHANGED <<phase, status, created, pubs>>
    BY <1>10 DEF Crash, TypeOK, Held
  <2> QED
    BY <2>1 DEF OrderInv
<1>11. ASSUME UNCHANGED <<phase, status, created, step, batch, event, pubs>>
       PROVE  OrderInv'
  BY <1>11 DEF OrderInv, Held
<1>12. ASSUME NEW c \in Conns,
             Join(c) \/ Refuse(c) \/ Accept(c) \/ Deliver(c) \/ Expire(c) \/ Disconnect(c)
      PROVE  OrderInv'
  BY <1>11, <1>12 DEF Join, Refuse, Accept, Deliver, Expire, Disconnect
<1>13. CASE UNCHANGED vars
  BY <1>11, <1>13 DEF vars
<1> QED
  BY <1>1, <1>2, <1>3, <1>4, <1>7, <1>8, <1>9, <1>10, <1>12, <1>13 DEF Next, Work

\* However many executions share the backlog, the events of one request are put on
\* their groups in creation order, the failed ones left out.
THEOREM CreationOrder == SafeSpec => []SettledInCreationOrder
<1>1. Init => OrderInv
  BY OutboxAssumption DEF Init, OrderInv, Before, Marking
<1>2. TypeOK /\ DispatchInv /\ OrderInv /\ [Next]_vars => OrderInv'
  BY OrderInvStep
<1>3. OrderInv => SettledInCreationOrder
  BY DEF OrderInv, SettledInCreationOrder, Before
<1>4. QED
  BY <1>1, <1>2, <1>3, TypeCorrect, DispatchInvariant, PTL DEF SafeSpec

-----------------------------------------------------------------------------
(* The refinement.                                                           *)

\* The outbox implements the safety part of EventDelivery: an event is stored at
\* its commit, published only once stored, and settled only once stored.
THEOREM RefinesDelivery == SafeSpec => Promise!SafeSpec
<1>1. Init => Promise!Init
  BY DEF Init, Promise!Init, Stored, Published, Outcome, Visible
<1>2. TypeOK /\ DispatchInv /\ DispatchInv' /\ [Next]_vars => [Promise!Next]_(Promise!vars)
  <2> SUFFICES ASSUME TypeOK, DispatchInv, DispatchInv', [Next]_vars
               PROVE  [Promise!Next]_(Promise!vars)
    OBVIOUS
  <2> USE DEF Promise!vars, dbVars, workerVars, connVars
  <2>1. ASSUME UNCHANGED <<phase, status, pubs>>
        PROVE  UNCHANGED <<Stored, Published, Outcome>>
    BY <2>1 DEF Stored, Published, Outcome, Visible
  <2>2. ASSUME NEW e \in Events, Emit(e)
        PROVE  UNCHANGED <<Stored, Published, Outcome>>
    <3>1. /\ status' = [status EXCEPT ![e] = "pending"] /\ phase[RequestOf[e]] = "open"
          /\ UNCHANGED <<phase, pubs>>
      BY <2>2 DEF Emit
    <3>2. status[e] \notin {"dispatched", "failed"}
      BY <3>1 DEF DispatchInv, Visible
    <3>3. Stored' = Stored
      BY <3>1 DEF Stored, Visible, TypeOK
    <3>4. Outcome' = Outcome
      BY <3>1, <3>2 DEF Outcome, TypeOK
    <3> QED
      BY <3>1, <3>3, <3>4 DEF Published
  <2>3. ASSUME NEW r \in Requests, Commit(r)
        PROVE  Promise!Next
    <3> DEFINE S == {e \in Events : RequestOf[e] = r /\ status[e] # "none"}
    <3>1. phase[r] = "open" /\ phase' = [phase EXCEPT ![r] = "committed"] /\ UNCHANGED <<status, pubs>>
      BY <2>3 DEF Commit
    <3>2. S \subseteq Events \ Stored
      BY <3>1 DEF Stored, Visible
    <3>3. Stored' = Stored \cup S
      BY <3>1, OutboxAssumption DEF Stored, Visible, TypeOK
    <3>4. UNCHANGED <<Published, Outcome>>
      BY <3>1 DEF Published, Outcome
    <3>5. Promise!Store(S)
      BY <3>2, <3>3, <3>4 DEF Promise!Store
    <3> QED
      BY <3>2, <3>5 DEF Promise!Next
  <2>4. ASSUME NEW r \in Requests, Rollback(r)
        PROVE  UNCHANGED <<Stored, Published, Outcome>>
    <3>1. /\ phase[r] = "open" /\ phase' = [phase EXCEPT ![r] = "rolledback"]
          /\ status' = [e \in Events |-> IF RequestOf[e] = r THEN "none" ELSE status[e]]
          /\ UNCHANGED pubs
      BY <2>4 DEF Rollback
    <3>2. Stored' = Stored
      BY <3>1, OutboxAssumption DEF Stored, Visible, TypeOK
    <3>3. \A e \in Events : RequestOf[e] = r => status[e] \notin {"dispatched", "failed"}
      BY <3>1 DEF DispatchInv, Visible
    <3>4. Outcome' = Outcome
      BY <3>1, <3>3 DEF Outcome
    <3> QED
      BY <3>1, <3>2, <3>4 DEF Published
  <2>5. ASSUME NEW w \in Workers, NEW e \in Events, SendSucceeds(w, e) \/ SendTimesOut(w, e)
        PROVE  Promise!Next
    <3>1. /\ e \in batch[w] /\ UNCHANGED <<phase, status>>
          /\ pubs' = [pubs EXCEPT ![e] = IF @ = 0 THEN 1 ELSE 2]
      BY <2>5 DEF SendSucceeds, SendTimesOut, Advance, Publish
    <3>2. e \in Stored
      BY <3>1 DEF DispatchInv, Held, Stored
    <3>3. Published' = Published \cup {e}
      BY <3>1, PubsCount DEF Published, TypeOK
    <3>4. UNCHANGED <<Stored, Outcome>>
      BY <3>1 DEF Stored, Outcome, Visible
    <3>5. Promise!Publish(e)
      BY <3>2, <3>3, <3>4 DEF Promise!Publish
    <3> QED
      BY <3>5 DEF Promise!Next
  <2>6. ASSUME NEW w \in Workers, NEW result \in {"dispatched", "failed"}, Settle(w, result),
               event[w] \in Events, event[w] \in Held(w)
        PROVE  Promise!Next
    <3>1. status' = [status EXCEPT ![event[w]] = result] /\ UNCHANGED <<phase, pubs>>
      BY <2>6 DEF Settle
    <3>2. event[w] \in Stored
      BY <2>6 DEF DispatchInv, Stored
    <3>3. result = "dispatched" => event[w] \in Published
      BY <2>6, <3>1 DEF DispatchInv, Published, TypeOK
    <3>4. Outcome' = [Outcome EXCEPT ![event[w]] = result]
      BY <2>6, <3>1 DEF Outcome, TypeOK
    <3>5. UNCHANGED <<Stored, Published>>
      BY <2>6, <3>1, <3>2 DEF Stored, Published, Visible, TypeOK
    <3>6. Promise!Settle(event[w], result)
      BY <3>2, <3>3, <3>4, <3>5 DEF Promise!Settle
    <3> QED
      BY <2>6, <3>6 DEF Promise!Next
  <2>7. ASSUME NEW w \in Workers, MarkDispatched(w) \/ MarkFailed(w)
        PROVE  Promise!Next
    <3>1. event[w] \in Events /\ event[w] \in Held(w)
      BY <2>7 DEF MarkDispatched, MarkFailed, Held, TypeOK
    <3> QED
      BY <2>6, <2>7, <3>1 DEF MarkDispatched, MarkFailed
  <2>8. ASSUME NEW w \in Workers, NEW e \in Events, SendFails(w, e)
        PROVE  UNCHANGED <<phase, status, pubs>>
    BY <2>8 DEF SendFails, Advance
  <2>9. ASSUME NEW w \in Workers, Tick(w) \/ Crash(w)
        PROVE  UNCHANGED <<phase, status, pubs>>
    BY <2>9 DEF Tick, Crash
  <2>10. ASSUME NEW c \in Conns,
             Join(c) \/ Refuse(c) \/ Accept(c) \/ Deliver(c) \/ Expire(c) \/ Disconnect(c)
         PROVE  UNCHANGED <<phase, status, pubs>>
    BY <2>10 DEF Join, Refuse, Accept, Deliver, Expire, Disconnect
  <2>11. CASE UNCHANGED vars
    BY <2>1, <2>11 DEF vars
  <2> QED
    BY <2>1, <2>2, <2>3, <2>4, <2>5, <2>7, <2>8, <2>9, <2>10, <2>11 DEF Next, Work
<1>3. QED
  BY <1>1, <1>2, TypeCorrect, DispatchInvariant, PTL DEF SafeSpec, Promise!SafeSpec

-----------------------------------------------------------------------------
(* Why nobody gets what is not meant for them.  A message reaches a socket   *)
(* through the queue of its channel, so the invariant says of what is queued *)
(* what the property says of what is delivered, and of whoever is in a group *)
(* that the consumer let them in.                                            *)

Meant(c, e) == c \in Authorized /\ Target[e] = GroupOf[c] /\ pubs[e] > 0

AddressInv ==
    /\ \A c \in Conns : conn[c] \in {"joined", "open"} => c \in Authorized
    /\ \A c \in Conns : \A i \in 1 .. Len(inbox[c]) : Meant(c, inbox[c][i])
    /\ \A c \in Conns : \A e \in received[c] : Meant(c, e)

\* Publishing an event queues it for the members of its group and for nobody else.
LEMMA PublishAddressed ==
  ASSUME NEW e \in Events, TypeOK, AddressInv, Publish(e)
  PROVE  AddressInv'
<1> USE OutboxAssumption DEF TypeOK
<1>1. \A f \in Events : pubs[f] > 0 => pubs'[f] > 0
  BY DEF Publish
<1>2. pubs'[e] > 0
  BY DEF Publish
<1>3. \A c \in Conns, f \in Events : Meant(c, f) => Meant(c, f)'
  BY <1>1 DEF Meant
<1>4. UNCHANGED <<conn, received>>
  BY DEF Publish
<1>5. ASSUME NEW c \in Conns, NEW i \in 1 .. Len(inbox'[c])
      PROVE  Meant(c, inbox[c][i])'
  <2>1. CASE c \in Members(Target[e]) /\ Len(inbox[c]) < Capacity
    <3>1. inbox'[c] = Append(inbox[c], e) /\ inbox[c] \in Seq(Events)
      BY <2>1 DEF Publish
    <3>2. CASE i \in 1 .. Len(inbox[c])
      <4>1. inbox'[c][i] = inbox[c][i] /\ inbox[c][i] \in Events
        BY <3>1, <3>2
      <4> QED
        BY <4>1, <3>2, <1>3 DEF AddressInv
    <3>3. CASE i \notin 1 .. Len(inbox[c])
      <4>1. inbox'[c][i] = e
        BY <3>1, <3>3, <1>5
      <4>2. c \in Authorized /\ Target[e] = GroupOf[c]
        BY <2>1 DEF Members, AddressInv
      <4> QED
        BY <4>1, <4>2, <1>2 DEF Meant
    <3> QED
      BY <3>2, <3>3
  <2>2. CASE ~(c \in Members(Target[e]) /\ Len(inbox[c]) < Capacity)
    <3>1. inbox'[c] = inbox[c] /\ inbox[c] \in Seq(Events)
      BY <2>2 DEF Publish
    <3>2. inbox[c][i] \in Events /\ i \in 1 .. Len(inbox[c])
      BY <3>1, <1>5
    <3> QED
      BY <3>1, <3>2, <1>3 DEF AddressInv
  <2> QED
    BY <2>1, <2>2
<1>6. ASSUME NEW c \in Conns, NEW f \in received'[c]
      PROVE  Meant(c, f)'
  <2>1. f \in received[c] /\ f \in Events
    BY <1>4
  <2> QED
    BY <2>1, <1>3 DEF AddressInv
<1>7. \A c \in Conns : conn'[c] \in {"joined", "open"} => c \in Authorized
  BY <1>4 DEF AddressInv
<1> QED
  BY <1>5, <1>6, <1>7 DEF AddressInv

\* Steps of requests and of the tables say nothing to any connection.
LEMMA UnaddressedStep ==
  ASSUME AddressInv, UNCHANGED <<connVars, pubs>>
  PROVE  AddressInv'
BY DEF AddressInv, Meant, connVars

\* A message leaves the head of its queue.
LEMMA DequeueAddressed ==
  ASSUME NEW c \in Conns, TypeOK, AddressInv, inbox[c] # <<>>,
         inbox' = [inbox EXCEPT ![c] = Tail(@)], UNCHANGED pubs
  PROVE  /\ \A d \in Conns : \A i \in 1 .. Len(inbox'[d]) : Meant(d, inbox[d][i])'
         /\ Meant(c, Head(inbox[c]))
<1> USE DEF TypeOK
<1>1. inbox[c] \in Seq(Events) /\ Len(inbox[c]) > 0
  OBVIOUS
<1>2. Meant(c, Head(inbox[c]))
  BY <1>1 DEF AddressInv
<1>3. ASSUME NEW d \in Conns, NEW i \in 1 .. Len(inbox'[d])
      PROVE  Meant(d, inbox[d][i])'
  <2>1. CASE d = c
    <3>1. inbox'[c][i] = inbox[c][i + 1] /\ i + 1 \in 1 .. Len(inbox[c])
      BY <1>1, <1>3, <2>1
    <3> QED
      BY <3>1, <2>1 DEF AddressInv, Meant
  <2>2. CASE d # c
    BY <2>2, <1>3 DEF AddressInv, Meant
  <2> QED
    BY <2>1, <2>2
<1> QED
  BY <1>2, <1>3

LEMMA AddressStep == TypeOK /\ AddressInv /\ [Next]_vars => AddressInv'
<1> SUFFICES ASSUME TypeOK, AddressInv, [Next]_vars
             PROVE  AddressInv'
  OBVIOUS
<1>1. ASSUME NEW e \in Events, Emit(e)
      PROVE  AddressInv'
  BY <1>1, UnaddressedStep DEF Emit
<1>2. ASSUME NEW r \in Requests, Commit(r) \/ Rollback(r)
      PROVE  AddressInv'
  BY <1>2, UnaddressedStep DEF Commit, Rollback
<1>3. ASSUME NEW w \in Workers, Tick(w) \/ MarkDispatched(w) \/ MarkFailed(w) \/ Crash(w)
      PROVE  AddressInv'
  BY <1>3, UnaddressedStep DEF Tick, MarkDispatched, MarkFailed, Settle, Crash
<1>4. ASSUME NEW w \in Workers, NEW e \in Events, SendSucceeds(w, e) \/ SendTimesOut(w, e)
      PROVE  AddressInv'
  BY <1>4, PublishAddressed DEF SendSucceeds, SendTimesOut
<1>5. ASSUME NEW w \in Workers, NEW e \in Events, SendFails(w, e)
      PROVE  AddressInv'
  BY <1>5, UnaddressedStep DEF SendFails
<1>6. ASSUME NEW c \in Conns, Join(c) \/ Refuse(c) \/ Accept(c)
      PROVE  AddressInv'
  <2>1. UNCHANGED <<inbox, received, pubs>>
    BY <1>6 DEF Join, Refuse, Accept
  <2>2. \A d \in Conns : conn'[d] \in {"joined", "open"} => d \in Authorized
    BY <1>6 DEF Join, Refuse, Accept, TypeOK, AddressInv
  <2>3. \A d \in Conns, f \in Events : Meant(d, f) => Meant(d, f)'
    BY <2>1 DEF Meant
  <2> QED
    BY <2>1, <2>2, <2>3 DEF AddressInv, Meant
<1>7. ASSUME NEW c \in Conns, Deliver(c)
      PROVE  AddressInv'
  <2>1. /\ \A d \in Conns : \A i \in 1 .. Len(inbox'[d]) : Meant(d, inbox[d][i])'
        /\ Meant(c, Head(inbox[c]))
    BY <1>7, DequeueAddressed DEF Deliver
  <2>2. \A d \in Conns : \A e \in received'[d] : Meant(d, e)'
    BY <1>7, <2>1 DEF Deliver, TypeOK, AddressInv, Meant
  <2> QED
    BY <1>7, <2>1, <2>2 DEF Deliver, AddressInv
<1>8. ASSUME NEW c \in Conns, Expire(c)
      PROVE  AddressInv'
  <2>1. \A d \in Conns : \A i \in 1 .. Len(inbox'[d]) : Meant(d, inbox[d][i])'
    BY <1>8, DequeueAddressed DEF Expire
  <2> QED
    BY <1>8, <2>1 DEF Expire, AddressInv, Meant
<1>9. ASSUME NEW c \in Conns, Disconnect(c)
      PROVE  AddressInv'
  BY <1>9 DEF Disconnect, TypeOK, AddressInv, Meant
<1>10. CASE UNCHANGED vars
  BY <1>10, UnaddressedStep DEF vars, connVars
<1> QED
  BY <1>1, <1>2, <1>3, <1>4, <1>5, <1>6, <1>7, <1>8, <1>9, <1>10 DEF Next, Work

\* A socket is sent only what was published on the group of its connection, and only
\* after the consumer let the connection in.
THEOREM DeliveredToAddressees == SafeSpec => []DeliveredAsAddressed
<1>1. Init => AddressInv
  BY DEF Init, AddressInv
<1>2. TypeOK /\ AddressInv => DeliveredAsAddressed
  BY DEF TypeOK, AddressInv, Meant, DeliveredAsAddressed
<1>3. QED
  BY <1>1, <1>2, AddressStep, TypeCorrect, PTL DEF SafeSpec

=============================================================================
