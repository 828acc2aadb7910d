---------------------------- MODULE LinksProofs -----------------------------
(***************************************************************************)
(* Theorems about logging in by QR code and about download links: a token  *)
(* gives one session and a link is honoured for its window only.           *)
(***************************************************************************)
EXTENDS QRLogin, Downloads, FiniteSetTheorems, TLAPS

(***************************************************************************)
(* QR login hands out one session per token, for any number of tokens,     *)
(* phones and calls.                                                       *)
(*                                                                         *)
(* A call acts on what it read.  The invariant therefore says, of every    *)
(* call under way, what it can have read and what the token can have       *)
(* become since; and of every token that no two calls clashed over, what   *)
(* has been told and handed out at each of its statuses.                   *)
(***************************************************************************)

\* A confirmation has read a pending token, a poll that mints an approved one.
CallsRead ==
    \A c \in Calls :
        /\ stage[c] = "approve" => call[c].status = "PENDING" /\ call[c].by \in Phones
        /\ stage[c] = "mint" =>
               /\ call[c].status = "APPROVED" /\ call[c].user \in Phones
               /\ status[call[c].token] \in {"APPROVED", "CONSUMED", "deleted"}
               /\ (call[c].token \notin clash /\ status[call[c].token] = "APPROVED") =>
                      call[c].user = holder[call[c].token]

\* What has been told and handed out of a token no two calls clashed over.
Orderly(t) ==
    /\ confirmed[t] \subseteq {holder[t]}
    /\ status[t] \in {"absent", "PENDING"} => confirmed[t] = {}
    /\ status[t] = "APPROVED" => confirmed[t] = {holder[t]}
    /\ status[t] \in {"absent", "PENDING", "APPROVED"} => \A s \in sessions : s.token # t
    /\ \A s \in sessions : s.token = t => s.user \in confirmed[t]
    /\ \A s1, s2 \in sessions : s1.token = t /\ s2.token = t => s1 = s2

QRInv ==
    /\ QRTypeOK
    /\ CallsRead
    /\ \A t \in Tokens \ clash : Orderly(t)

-----------------------------------------------------------------------------
(* Types.                                                                  *)

LEMMA QRTypeInit == QRInit => QRTypeOK
  BY QRAssumption DEF QRInit, QRTypeOK, Statuses, Call

\* What Read leaves behind, whoever calls it with a next stage.
LEMMA ReadTyped ==
  ASSUME QRTypeOK, NEW c \in Calls, NEW t \in Tokens, NEW by \in Phones \cup {NoOne},
         NEW next \in {"drop", "approve", "mint"}, Read(c, t, by, next)
  PROVE  /\ QRTypeOK'
         /\ stage' = [stage EXCEPT ![c] = next]
         /\ call'[c] = [token |-> t, by |-> by, status |-> status[t], user |-> holder[t]]
         /\ \A d \in Calls \ {c} : call'[d] = call[d] /\ stage'[d] = stage[d]
         /\ stage'[c] = next
         /\ UNCHANGED <<status, holder, stale, sessions, confirmed, clash>>
  <1>1. [token |-> t, by |-> by, status |-> status[t], user |-> holder[t]] \in Call
    BY DEF QRTypeOK, Call
  <1>2. /\ stage' = [stage EXCEPT ![c] = next]
        /\ call' = [call EXCEPT ![c] =
               [token |-> t, by |-> by, status |-> status[t], user |-> holder[t]]]
        /\ UNCHANGED <<status, holder, stale, sessions, confirmed, clash>>
    BY DEF Read
  <1>3. stage' \in [Calls -> {"new", "drop", "approve", "mint", "done"}]
    BY <1>2 DEF QRTypeOK
  <1>4. call' \in [Calls -> Call \cup {NoOne}]
    BY <1>1, <1>2 DEF QRTypeOK
  <1>5. /\ call'[c] = [token |-> t, by |-> by, status |-> status[t], user |-> holder[t]]
        /\ stage'[c] = next
        /\ \A d \in Calls \ {c} : call'[d] = call[d] /\ stage'[d] = stage[d]
    BY <1>2 DEF QRTypeOK
  <1>6. \A d \in Calls : stage'[d] \in {"drop", "approve", "mint"} => call'[d] \in Call
    BY <1>1, <1>5 DEF QRTypeOK
  <1> QED BY <1>2, <1>3, <1>4, <1>5, <1>6 DEF QRTypeOK

-----------------------------------------------------------------------------
(* The invariant, action by action.                                        *)

LEMMA QRInitially == QRInit => QRInv
  <1> SUFFICES ASSUME QRInit PROVE QRInv
    OBVIOUS
  <1>1. CallsRead
    BY DEF QRInit, CallsRead
  <1>2. \A t \in Tokens \ clash : Orderly(t)
    BY DEF QRInit, Orderly
  <1> QED BY <1>1, <1>2, QRTypeInit DEF QRInv

LEMMA InitiateStep ==
  ASSUME QRInv, NEW t \in Tokens, Initiate(t)
  PROVE  QRInv'
  <1>1. QRTypeOK'
    BY DEF Initiate, QRInv, QRTypeOK, Statuses
  <1>2. CallsRead'
    BY DEF Initiate, QRInv, QRTypeOK, CallsRead, Call
  <1>3. ASSUME NEW x \in Tokens \ clash
        PROVE  Orderly(x)'
    <2>1. Orderly(x)
      BY DEF QRInv
    <2> QED BY <2>1 DEF Initiate, QRInv, QRTypeOK, Orderly
  <1> QED BY <1>1, <1>2, <1>3 DEF QRInv, Initiate

LEMMA ExpireStep ==
  ASSUME QRInv, NEW t \in Tokens, Expire(t)
  PROVE  QRInv'
  <1>1. QRTypeOK'
    BY DEF Expire, QRInv, QRTypeOK
  <1> QED BY <1>1 DEF Expire, QRInv, CallsRead, Orderly

\* A read changes nothing but the call, and the call fits the token as it is.
LEMMA ReadStep ==
  ASSUME QRInv, NEW c \in Calls, NEW t \in Tokens, NEW by \in Phones \cup {NoOne},
         NEW next \in {"drop", "approve", "mint"}, Read(c, t, by, next),
         next = "approve" => status[t] = "PENDING" /\ by \in Phones,
         next = "mint" => status[t] = "APPROVED"
  PROVE  QRInv'
  <1>1. /\ QRTypeOK'
        /\ call'[c] = [token |-> t, by |-> by, status |-> status[t], user |-> holder[t]]
        /\ \A d \in Calls \ {c} : call'[d] = call[d] /\ stage'[d] = stage[d]
        /\ stage'[c] = next
        /\ UNCHANGED <<status, holder, stale, sessions, confirmed, clash>>
    BY ReadTyped DEF QRInv
  <1>2. next = "mint" => holder[t] \in Phones
    BY DEF QRInv, QRTypeOK
  <1>3. CallsRead'
    <2> SUFFICES ASSUME NEW d \in Calls
                 PROVE  /\ stage'[d] = "approve" =>
                               call'[d].status = "PENDING" /\ call'[d].by \in Phones
                        /\ stage'[d] = "mint" =>
                               /\ call'[d].status = "APPROVED" /\ call'[d].user \in Phones
                               /\ status'[call'[d].token] \in {"APPROVED", "CONSUMED", "deleted"}
                               /\ (call'[d].token \notin clash'
                                    /\ status'[call'[d].token] = "APPROVED") =>
                                      call'[d].user = holder'[call'[d].token]
      BY DEF CallsRead
    <2>1. CASE d = c
      BY <1>1, <1>2, <2>1
    <2>2. CASE d # c
      BY <1>1, <2>2 DEF QRInv, CallsRead
    <2> QED BY <2>1, <2>2
  <1>4. \A x \in Tokens \ clash : Orderly(x)'
    BY <1>1 DEF QRInv, Orderly
  <1> QED BY <1>1, <1>3, <1>4 DEF QRInv

LEMMA DropStep ==
  ASSUME QRInv, NEW c \in Calls, Drop(c)
  PROVE  QRInv'
  <1>1. call[c].token \in Tokens
    BY DEF Drop, QRInv, QRTypeOK, Call
  <1>2. QRTypeOK'
    BY <1>1 DEF Drop, QRInv, QRTypeOK, Statuses
  <1>3. CallsRead'
    <2> SUFFICES ASSUME NEW d \in Calls, stage'[d] \in {"approve", "mint"}
                 PROVE  /\ stage[d] = stage'[d] /\ call[d].token \in Tokens
                        /\ status'[call[d].token] \in {status[call[d].token], "deleted"}
      BY DEF Drop, QRInv, CallsRead
    <2>1. stage[d] = stage'[d] /\ d # c
      BY DEF Drop, QRInv, QRTypeOK
    <2>2. call[d].token \in Tokens
      BY <2>1 DEF QRInv, QRTypeOK, Call
    <2> QED BY <1>1, <2>1, <2>2 DEF Drop, QRInv, QRTypeOK
  <1>4. ASSUME NEW x \in Tokens \ clash
        PROVE  Orderly(x)'
    <2>1. Orderly(x) /\ status'[x] \in {status[x], "deleted"}
      BY <1>1 DEF Drop, QRInv, QRTypeOK
    <2> QED BY <2>1 DEF Drop, Orderly
  <1> QED BY <1>2, <1>3, <1>4 DEF QRInv, Drop

\* A call that found the row as it had read it leaves no clash, any other one does.
LEMMA MarkLemma ==
  ASSUME NEW c \in Calls, clash' = Mark(c)
  PROVE  /\ clash \subseteq clash'
         /\ call[c].token \notin clash' => status[call[c].token] = call[c].status
  BY DEF Mark

LEMMA ApproveStep ==
  ASSUME QRInv, NEW c \in Calls, Approve(c)
  PROVE  QRInv'
  <1> DEFINE t == call[c].token
             u == call[c].by
  <1>1. t \in Tokens /\ u \in Phones /\ call[c].status = "PENDING"
    BY DEF Approve, QRInv, QRTypeOK, Call, CallsRead
  <1>2. /\ clash \subseteq clash' /\ clash' \subseteq Tokens
        /\ t \notin clash' => status[t] = "PENDING"
    BY <1>1, MarkLemma DEF Approve, Mark, QRInv, QRTypeOK
  <1>3. /\ status' = [status EXCEPT ![t] = "APPROVED"]
        /\ holder' = [holder EXCEPT ![t] = u]
        /\ confirmed' = [confirmed EXCEPT ![t] = @ \cup {u}]
        /\ stage' = [stage EXCEPT ![c] = "done"]
        /\ UNCHANGED <<stale, call, sessions>>
    BY DEF Approve
  <1> HIDE DEF t, u
  <1>4. QRTypeOK'
    <2>1. confirmed' \in [Tokens -> SUBSET Phones]
      BY <1>1, <1>3 DEF QRInv, QRTypeOK
    <2> QED BY <1>1, <1>2, <1>3, <2>1, QRAssumption DEF QRInv, QRTypeOK, Statuses
  <1>5. CallsRead'
    <2> SUFFICES ASSUME NEW d \in Calls
                 PROVE  /\ stage'[d] = "approve" =>
                               call[d].status = "PENDING" /\ call[d].by \in Phones
                        /\ stage'[d] = "mint" =>
                               /\ call[d].status = "APPROVED" /\ call[d].user \in Phones
                               /\ status'[call[d].token] \in {"APPROVED", "CONSUMED", "deleted"}
                               /\ (call[d].token \notin clash'
                                    /\ status'[call[d].token] = "APPROVED") =>
                                      call[d].user = holder'[call[d].token]
      BY <1>3 DEF CallsRead
    <2>1. stage'[d] \in {"approve", "mint"} => stage[d] = stage'[d] /\ call[d].token \in Tokens
      BY <1>3 DEF QRInv, QRTypeOK, Call
    <2>2. CASE call[d].token = t
      \* No poll can hold a token that is pending.
      BY <1>1, <1>2, <1>3, <2>1, <2>2 DEF QRInv, QRTypeOK, CallsRead
    <2>3. CASE call[d].token # t
      BY <1>1, <1>2, <1>3, <2>1, <2>3 DEF QRInv, QRTypeOK, CallsRead
    <2> QED BY <2>2, <2>3
  <1>6. ASSUME NEW x \in Tokens \ clash'
        PROVE  Orderly(x)'
    <2>1. Orderly(x)
      BY <1>2 DEF QRInv
    <2>2. CASE x = t
      <3>1. confirmed[t] = {} /\ \A s \in sessions : s.token # t
        BY <1>2, <2>1, <2>2 DEF Orderly
      <3>2. status'[t] = "APPROVED" /\ holder'[t] = u /\ confirmed'[t] = {u}
        BY <1>1, <1>3, <3>1 DEF QRInv, QRTypeOK
      <3> QED BY <1>3, <2>2, <3>1, <3>2 DEF Orderly
    <2>3. CASE x # t
      BY <1>1, <1>3, <2>1, <2>3 DEF QRInv, QRTypeOK, Orderly
    <2> QED BY <2>2, <2>3
  <1> QED BY <1>4, <1>5, <1>6 DEF QRInv

LEMMA MintStep ==
  ASSUME QRInv, NEW c \in Calls, Mint(c)
  PROVE  QRInv'
  <1> DEFINE t == call[c].token
             out == [token |-> t, user |-> call[c].user, poll |-> c]
  <1>1. t \in Tokens /\ call[c].user \in Phones /\ call[c].status = "APPROVED"
    BY DEF Mint, QRInv, QRTypeOK, Call, CallsRead
  <1>2. /\ clash \subseteq clash' /\ clash' \subseteq Tokens
        /\ t \notin clash' => status[t] = "APPROVED" /\ call[c].user = holder[t]
    BY <1>1, MarkLemma DEF Mint, Mark, QRInv, QRTypeOK, CallsRead
  <1>3. /\ status' = [status EXCEPT ![t] = "CONSUMED"]
        /\ sessions' = sessions \cup {out}
        /\ stage' = [stage EXCEPT ![c] = "done"]
        /\ UNCHANGED <<holder, stale, call, confirmed>>
    BY DEF Mint
  <1>4. status[t] \in {"APPROVED", "CONSUMED"} /\ holder[t] # NoOne
    BY <1>1 DEF Mint, QRInv, QRTypeOK, CallsRead
  <1>5. out \in [token : Tokens, user : Phones, poll : Calls] /\ out.token = t /\ out.user = call[c].user
    BY <1>1
  <1> HIDE DEF t, out
  <1>6. QRTypeOK'
    BY <1>1, <1>2, <1>3, <1>4, <1>5 DEF QRInv, QRTypeOK, Statuses
  <1>7. CallsRead'
    <2> SUFFICES ASSUME NEW d \in Calls, stage'[d] \in {"approve", "mint"}
                 PROVE  /\ stage[d] = stage'[d] /\ call[d].token \in Tokens
                        /\ status'[call[d].token] \in {status[call[d].token], "CONSUMED"}
      BY <1>2, <1>3 DEF QRInv, CallsRead
    <2>1. stage[d] = stage'[d] /\ d # c
      BY <1>3 DEF QRInv, QRTypeOK
    <2>2. call[d].token \in Tokens
      BY <2>1 DEF QRInv, QRTypeOK, Call
    <2> QED BY <1>1, <1>3, <2>1, <2>2 DEF QRInv, QRTypeOK
  <1>8. ASSUME NEW x \in Tokens \ clash'
        PROVE  Orderly(x)'
    <2>1. Orderly(x)
      BY <1>2 DEF QRInv
    <2>2. CASE x = t
      <3>1. confirmed[t] = {holder[t]} /\ \A s \in sessions : s.token # t
        BY <1>2, <2>1, <2>2 DEF Orderly
      <3>2. status'[t] = "CONSUMED" /\ out.user \in confirmed[t]
        BY <1>1, <1>2, <1>3, <1>5, <2>2, <3>1 DEF QRInv, QRTypeOK
      <3>3. \A s \in sessions' : s.token = t => s = out
        BY <1>3, <3>1
      <3> QED BY <1>3, <2>2, <3>1, <3>2, <3>3 DEF Orderly
    <2>3. CASE x # t
      <3>1. status'[x] = status[x]
        BY <1>1, <1>3, <2>3 DEF QRInv, QRTypeOK
      <3> QED BY <1>3, <1>5, <2>1, <2>3, <3>1 DEF Orderly
    <2> QED BY <2>2, <2>3
  <1> QED BY <1>6, <1>7, <1>8 DEF QRInv

LEMMA RaiseStep ==
  ASSUME QRInv, NEW c \in Calls, Raise(c)
  PROVE  QRInv'
  <1>1. QRTypeOK'
    BY DEF Raise, QRInv, QRTypeOK
  <1>2. \A d \in Calls : stage'[d] \in {stage[d], "done"}
    BY DEF Raise, QRInv, QRTypeOK
  <1>3. CallsRead'
    BY <1>2 DEF Raise, QRInv, CallsRead
  <1>4. \A x \in Tokens \ clash : Orderly(x)'
    BY DEF Raise, QRInv, Orderly
  <1> QED BY <1>1, <1>3, <1>4 DEF QRInv, Raise

LEMMA QRStep == QRInv /\ [QRNext]_qrVars => QRInv'
  <1> SUFFICES ASSUME QRInv, [QRNext]_qrVars
               PROVE  QRInv'
    OBVIOUS
  <1>1. ASSUME NEW c \in Calls, NEW t \in Tokens, Poll(c, t)
        PROVE  QRInv'
    <2>1. Read(c, t, NoOne, IF t \in stale THEN "drop" ELSE "mint")
      BY <1>1 DEF Poll
    <2>2. t \notin stale => status[t] = "APPROVED"
      BY <1>1 DEF Poll
    <2> QED BY <2>1, <2>2, ReadStep
  <1>2. ASSUME NEW c \in Calls, NEW t \in Tokens, NEW u \in Phones, Confirm(c, t, u)
        PROVE  QRInv'
    BY <1>2, ReadStep DEF Confirm
  <1>3. CASE UNCHANGED qrVars
    BY <1>3 DEF qrVars, QRInv, QRTypeOK, CallsRead, Orderly
  <1> QED BY <1>1, <1>2, <1>3, InitiateStep, ExpireStep, DropStep, ApproveStep, MintStep,
             RaiseStep DEF QRNext

-----------------------------------------------------------------------------
(* The theorems.                                                           *)

\* Whatever calls are under way, the state is well formed, a bound token has a user, and
\* every call holds what it can have read.
THEOREM QRSafe == QRSpec => []QRInv
  BY QRInitially, QRStep, PTL DEF QRSpec

\* A token no two calls clashed over hands out one session at most, to the one user who
\* was told that it is confirmed.
THEOREM OneSession == QRSpec => []OneSessionPerToken
  <1>1. QRInv => OneSessionPerToken
    <2> SUFFICES ASSUME QRInv, NEW t \in Tokens \ clash
                 PROVE  LET out == {s \in sessions : s.token = t} IN
                        /\ Cardinality(out) <= 1
                        /\ Cardinality(confirmed[t]) <= 1
                        /\ \A s \in out : s.user \in confirmed[t]
      BY DEF OneSessionPerToken
    <2> DEFINE out == {s \in sessions : s.token = t}
    <2>1. Orderly(t)
      BY DEF QRInv
    <2>2. out = {} \/ \E s \in out : out = {s}
      BY <2>1 DEF Orderly
    <2>3. confirmed[t] = {} \/ confirmed[t] = {holder[t]}
      BY <2>1 DEF Orderly
    <2>4. \A s \in out : s.user \in confirmed[t]
      BY <2>1 DEF Orderly
    <2> HIDE DEF out
    <2>5. Cardinality(out) \in {0, 1}
      BY <2>2, FS_EmptySet, FS_Singleton
    <2>6. Cardinality(confirmed[t]) \in {0, 1}
      BY <2>3, FS_EmptySet, FS_Singleton
    <2> QED BY <2>4, <2>5, <2>6 DEF out
  <1> QED BY QRSafe, <1>1, PTL

\* No later poll or confirmation reopens a consumed token, except one that was under way.
THEOREM ConsumedStays == QRSpec => ConsumedIsFinal
  <1>1. QRInv /\ [QRNext]_qrVars =>
            [\A t \in Tokens :
                 status[t] = "CONSUMED" =>
                     \/ status'[t] = "CONSUMED"
                     \/ status'[t] = "deleted"
                     \/ t \in clash']_qrVars
    <2> SUFFICES ASSUME QRInv, [QRNext]_qrVars, NEW t \in Tokens, status[t] = "CONSUMED",
                        status'[t] # "CONSUMED"
                 PROVE  status'[t] = "deleted" \/ t \in clash'
      OBVIOUS
    <2>1. ASSUME NEW c \in Calls, Approve(c)
          PROVE  t \in clash'
      <3>1. call[c].token = t
        BY <2>1 DEF Approve, QRInv, QRTypeOK
      <3>2. call[c].status = "PENDING"
        BY <2>1 DEF Approve, QRInv, CallsRead
      <3> QED BY <2>1, <3>1, <3>2 DEF Approve, Mark
    <2>2. ASSUME NEW c \in Calls, Drop(c)
          PROVE  status'[t] = "deleted"
      BY <2>2 DEF Drop, QRInv, QRTypeOK
    <2> QED BY <2>1, <2>2 DEF QRNext, Initiate, Expire, Poll, Confirm, Read, Mint, Raise,
                              QRInv, QRTypeOK, qrVars
  <1> QED BY QRSafe, <1>1, PTL DEF QRSpec, ConsumedIsFinal

-----------------------------------------------------------------------------

(***************************************************************************)
(* The window of a download link opens at its first use and never moves,   *)
(* for any number of links and fetches and any length of the window.       *)
(***************************************************************************)

\* A copy that says used was read from a row that is; a link has a first mark if and
\* only if it is used.
UsedStays ==
    /\ \A f \in Fetches :
           (fetch[f] # Idle /\ fetch[f].used # Never) => firstUsed[fetch[f].link] # Never
    /\ \A l \in Links : anchor[l] = Never <=> firstUsed[l] = Never

Window(l) ==
    /\ firstUsed[l] = anchor[l]
    /\ latest[l] # Never => firstUsed[l] # Never /\ latest[l] <= anchor[l] + LinkHours

DownloadInv ==
    /\ DownloadTypeOK
    /\ UsedStays
    /\ \A l \in Links \ doubled : Window(l)

LEMMA DownloadInitially == DownloadInit => DownloadInv
  BY DownloadAssumption DEF DownloadInit, DownloadInv, DownloadTypeOK, UsedStays, Window,
     Hours, Never

LEMMA HourPassesStep ==
  ASSUME DownloadInv, HourPasses
  PROVE  DownloadInv'
  <1>1. hour' \in Hours
    BY DownloadAssumption DEF HourPasses, DownloadInv, DownloadTypeOK, Hours
  <1> QED BY <1>1 DEF HourPasses, DownloadInv, DownloadTypeOK, UsedStays, Window

LEMMA OpenLinkStep ==
  ASSUME DownloadInv, NEW f \in Fetches, NEW l \in Links, OpenLink(f, l)
  PROVE  DownloadInv'
  <1> DEFINE copy == [link |-> l, used |-> firstUsed[l]]
             seen == IF firstUsed[l] = Never THEN latest[l] ELSE hour
  <1>1. /\ copy \in Copies /\ copy.link = l /\ copy.used = firstUsed[l]
        /\ seen \in Hours \cup {Never}
    BY DEF DownloadInv, DownloadTypeOK, Copies
  <1>2. /\ fetch' = [fetch EXCEPT ![f] = copy]
        /\ latest' = [latest EXCEPT ![l] = seen]
        /\ UNCHANGED <<hour, issued, firstUsed, anchor, doubled>>
    BY DEF OpenLink, DownloadInv, DownloadTypeOK
  <1>3. firstUsed[l] # Never => hour <= firstUsed[l] + LinkHours
    BY DownloadAssumption DEF OpenLink, LinkExpired, DownloadInv, DownloadTypeOK, Hours
  <1> HIDE DEF copy
  <1>4. DownloadTypeOK'
    BY <1>1, <1>2 DEF DownloadInv, DownloadTypeOK
  <1>5. UsedStays'
    <2>1. \A g \in Fetches : fetch'[g] = IF g = f THEN copy ELSE fetch[g]
      BY <1>2 DEF DownloadInv, DownloadTypeOK
    <2> QED BY <1>1, <1>2, <2>1 DEF DownloadInv, UsedStays
  <1>6. ASSUME NEW x \in Links \ doubled
        PROVE  Window(x)'
    <2>1. Window(x)
      BY DEF DownloadInv
    <2>2. latest'[x] = IF x = l THEN seen ELSE latest[x]
      BY <1>2 DEF DownloadInv, DownloadTypeOK
    <2> QED BY <1>2, <1>3, <2>1, <2>2 DEF Window
  <1> QED BY <1>2, <1>4, <1>5, <1>6 DEF DownloadInv

LEMMA MarkUsedStep ==
  ASSUME DownloadInv, NEW f \in Fetches, MarkUsed(f)
  PROVE  DownloadInv'
  <1> DEFINE l == fetch[f].link
             fresh == fetch[f].used = Never
  <1>1. l \in Links /\ hour \in Hours /\ hour # Never
    BY DEF MarkUsed, DownloadInv, DownloadTypeOK, Copies, Hours, Never
  <1>2. /\ fetch' = [fetch EXCEPT ![f] = Idle]
        /\ firstUsed' = IF fresh THEN [firstUsed EXCEPT ![l] = hour] ELSE firstUsed
        /\ anchor' = IF anchor[l] = Never THEN [anchor EXCEPT ![l] = hour] ELSE anchor
        /\ doubled' = IF fresh /\ firstUsed[l] # Never THEN doubled \cup {l} ELSE doubled
        /\ UNCHANGED <<hour, issued, latest>>
    BY DEF MarkUsed
  <1>3. ~fresh => firstUsed[l] # Never
    BY DEF MarkUsed, DownloadInv, UsedStays
  <1> HIDE DEF l, fresh
  <1>4. DownloadTypeOK'
    BY <1>1, <1>2 DEF DownloadInv, DownloadTypeOK
  <1>5. \A x \in Links :
            /\ firstUsed'[x] = IF x = l /\ fresh THEN hour ELSE firstUsed[x]
            /\ anchor'[x] = IF x = l /\ anchor[l] = Never THEN hour ELSE anchor[x]
    BY <1>1, <1>2 DEF DownloadInv, DownloadTypeOK
  <1>6. UsedStays'
    <2>1. \A g \in Fetches : fetch'[g] = IF g = f THEN Idle ELSE fetch[g]
      BY <1>2 DEF DownloadInv, DownloadTypeOK
    <2>2. \A g \in Fetches : fetch[g] # Idle => fetch[g].link \in Links
      BY DEF DownloadInv, DownloadTypeOK, Copies
    <2> QED BY <1>1, <1>3, <1>5, <2>1, <2>2 DEF DownloadInv, UsedStays
  <1>7. ASSUME NEW x \in Links \ doubled'
        PROVE  Window(x)'
    <2>1. Window(x) /\ (anchor[x] = Never <=> firstUsed[x] = Never)
      BY <1>2 DEF DownloadInv, UsedStays
    <2>2. CASE x = l
      \* The copy was unused exactly if the row still is.
      <3>1. fresh <=> firstUsed[l] = Never
        BY <1>2, <1>3, <2>2
      <3>2. firstUsed'[x] = anchor'[x] /\ (firstUsed[x] # Never => anchor'[x] = anchor[x])
        BY <1>1, <1>5, <2>1, <2>2, <3>1 DEF Window
      <3> QED BY <1>2, <2>1, <2>2, <3>1, <3>2, <1>5 DEF Window
    <2>3. CASE x # l
      BY <1>2, <1>5, <2>1, <2>3 DEF Window
    <2> QED BY <2>2, <2>3
  <1> QED BY <1>4, <1>6, <1>7 DEF DownloadInv

LEMMA DownloadStep == DownloadInv /\ [DownloadNext]_downloadVars => DownloadInv'
  <1> SUFFICES ASSUME DownloadInv, [DownloadNext]_downloadVars
               PROVE  DownloadInv'
    OBVIOUS
  <1>1. ASSUME NEW l \in Links, Issue(l)
        PROVE  DownloadInv'
    BY <1>1 DEF Issue, DownloadInv, DownloadTypeOK, UsedStays, Window
  <1>2. ASSUME NEW f \in Fetches, FetchRaises(f)
        PROVE  DownloadInv'
    <2>1. DownloadTypeOK'
      BY <1>2 DEF FetchRaises, DownloadInv, DownloadTypeOK
    <2>2. \A g \in Fetches : fetch'[g] \in {Idle, fetch[g]}
      BY <1>2 DEF FetchRaises, DownloadInv, DownloadTypeOK
    <2> QED BY <1>2, <2>1, <2>2 DEF FetchRaises, DownloadInv, UsedStays, Window
  <1>3. CASE UNCHANGED downloadVars
    BY <1>3 DEF downloadVars, DownloadInv, DownloadTypeOK, UsedStays, Window
  <1> QED BY <1>1, <1>2, <1>3, HourPassesStep, OpenLinkStep, MarkUsedStep DEF DownloadNext

\* No fetch is honoured more than LinkHours after the first use of its link, whatever
\* fetches came between, unless two of them both took themselves for the first.
THEOREM WindowIsKept == DownloadSpec => []WindowFromFirstUse
  <1>1. DownloadInv => WindowFromFirstUse
    BY DEF DownloadInv, WindowFromFirstUse, Window
  <1> QED BY DownloadInitially, DownloadStep, <1>1, PTL DEF DownloadSpec

=============================================================================
