------------------------------ MODULE QRLogin -------------------------------
(***************************************************************************)
(* QR login: a desktop asks for a token, a phone that is signed in confirms*)
(* it, and the desktop polls until it is handed a session.                 *)
(*                                                                         *)
(* A request reads the token's row in one step and acts on it in another,  *)
(* with no lock between them: the save of a row that is gone raises and    *)
(* rolls back, the deletion of a row that is gone does nothing.            *)
(***************************************************************************)
EXTENDS Naturals, FiniteSets

CONSTANTS
    Tokens,
    Phones,     \* signed-in users
    Calls,      \* confirmations and polls
    NoOne

Statuses == {"absent", "PENDING", "APPROVED", "CONSUMED", "deleted"}

ASSUME QRAssumption == NoOne \notin Phones

VARIABLES
    status,     \* status[t]
    holder,     \* holder[t]: the user bound to t
    stale,      \* tokens past their expiry
    stage,      \* stage[c]: where call c stands
    call,       \* call[c]: what it is about and what it read
    sessions,   \* the sessions handed out, by token, user and poll
    confirmed,  \* confirmed[t]: the users told that t is approved
    clash       \* history: tokens a call saved over a status it had not read

qrVars == <<status, holder, stale, stage, call, sessions, confirmed, clash>>

Call == [token : Tokens, by : Phones \cup {NoOne}, status : Statuses,
         user : Phones \cup {NoOne}]

QRTypeOK ==
    /\ status \in [Tokens -> Statuses]
    /\ holder \in [Tokens -> Phones \cup {NoOne}]
    /\ stale \subseteq Tokens
    /\ stage \in [Calls -> {"new", "drop", "approve", "mint", "done"}]
    /\ call \in [Calls -> Call \cup {NoOne}]
    /\ \A c \in Calls : stage[c] \in {"drop", "approve", "mint"} => call[c] \in Call
    /\ sessions \subseteq [token : Tokens, user : Phones, poll : Calls]
    /\ confirmed \in [Tokens -> SUBSET Phones]
    /\ clash \subseteq Tokens
    /\ \A t \in Tokens : status[t] \in {"APPROVED", "CONSUMED"} => holder[t] # NoOne

QRInit ==
    /\ status = [t \in Tokens |-> "absent"]
    /\ holder = [t \in Tokens |-> NoOne]
    /\ stale = {}
    /\ stage = [c \in Calls |-> "new"]
    /\ call = [c \in Calls |-> NoOne]
    /\ sessions = {}
    /\ confirmed = [t \in Tokens |-> {}]
    /\ clash = {}

Initiate(t) ==
    /\ status[t] = "absent"
    /\ status' = [status EXCEPT ![t] = "PENDING"]
    /\ UNCHANGED <<holder, stale, stage, call, sessions, confirmed, clash>>

Expire(t) ==
    /\ status[t] # "absent" /\ t \notin stale
    /\ stale' = stale \cup {t}
    /\ UNCHANGED <<status, holder, stage, call, sessions, confirmed, clash>>

Read(c, t, by, next) ==
    /\ stage[c] = "new"
    /\ stage' = [stage EXCEPT ![c] = next]
    /\ call' = [call EXCEPT ![c] =
           [token |-> t, by |-> by, status |-> status[t], user |-> holder[t]]]
    /\ UNCHANGED <<status, holder, stale, sessions, confirmed, clash>>

\* Mutant: the token is looked up whatever its status.
ConfirmAnyStatus(c, t, u) ==
    /\ status[t] \notin {"absent", "deleted"}
    /\ Read(c, t, u, IF t \in stale THEN "drop" ELSE "approve")

Confirm(c, t, u) ==
    /\ status[t] = "PENDING"
    /\ Read(c, t, u, IF t \in stale THEN "drop" ELSE "approve")

\* Mutant: a consumed token is not refused.
PollAgain(c, t) ==
    /\ status[t] \in {"APPROVED", "CONSUMED"}
    /\ Read(c, t, NoOne, IF t \in stale THEN "drop" ELSE "mint")

\* A poll of a token that is absent, deleted, consumed or still pending changes nothing.
Poll(c, t) ==
    /\ status[t] \in {"PENDING", "APPROVED"}
    /\ status[t] = "PENDING" => t \in stale
    /\ Read(c, t, NoOne, IF t \in stale THEN "drop" ELSE "mint")

Drop(c) ==
    /\ stage[c] = "drop"
    /\ stage' = [stage EXCEPT ![c] = "done"]
    /\ status' = [status EXCEPT ![call[c].token] = "deleted"]
    /\ UNCHANGED <<holder, stale, call, sessions, confirmed, clash>>

Mark(c) ==
    IF status[call[c].token] = call[c].status THEN clash ELSE clash \cup {call[c].token}

Approve(c) ==
    LET t == call[c].token IN
    /\ stage[c] = "approve" /\ status[t] # "deleted"
    /\ stage' = [stage EXCEPT ![c] = "done"]
    /\ status' = [status EXCEPT ![t] = "APPROVED"]
    /\ holder' = [holder EXCEPT ![t] = call[c].by]
    /\ confirmed' = [confirmed EXCEPT ![t] = @ \cup {call[c].by}]
    /\ clash' = Mark(c)
    /\ UNCHANGED <<stale, call, sessions>>

Mint(c) ==
    LET t == call[c].token IN
    /\ stage[c] = "mint" /\ status[t] # "deleted"
    /\ stage' = [stage EXCEPT ![c] = "done"]
    /\ status' = [status EXCEPT ![t] = "CONSUMED"]
    /\ sessions' = sessions \cup {[token |-> t, user |-> call[c].user, poll |-> c]}
    /\ clash' = Mark(c)
    /\ UNCHANGED <<holder, stale, call, confirmed>>

\* The row is gone: the save raises, and no session leaves the rolled back request.
Raise(c) ==
    /\ stage[c] \in {"approve", "mint"} /\ status[call[c].token] = "deleted"
    /\ stage' = [stage EXCEPT ![c] = "done"]
    /\ UNCHANGED <<status, holder, stale, call, sessions, confirmed, clash>>

QRNext ==
    \/ \E t \in Tokens :
           \/ Initiate(t) \/ Expire(t)
           \/ \E c \in Calls : Poll(c, t) \/ \E u \in Phones : Confirm(c, t, u)
    \/ \E c \in Calls : Drop(c) \/ Approve(c) \/ Mint(c) \/ Raise(c)

QRSpec == QRInit /\ [][QRNext]_qrVars

-----------------------------------------------------------------------------
(* Properties.                                                             *)

\* A token hands out one session at most, to the one user who confirmed it, unless two
\* of its calls overlapped: confirm and status read the row and save it with no lock.
OneSessionPerToken ==
    \A t \in Tokens \ clash :
        LET out == {s \in sessions : s.token = t} IN
        /\ Cardinality(out) <= 1
        /\ Cardinality(confirmed[t]) <= 1
        /\ \A s \in out : s.user \in confirmed[t]

\* A consumed token never opens again: no later poll or confirmation finds it pending
\* or approved, unless a confirmation was under way when it was consumed.
ConsumedIsFinal ==
    [][\A t \in Tokens :
           status[t] = "CONSUMED" =>
               \/ status'[t] = "CONSUMED"
               \/ status'[t] = "deleted"
               \/ t \in clash']_qrVars

=============================================================================
