--------------------------- MODULE TelephonySync ---------------------------
(***************************************************************************)
(* The mirror of FreeSWITCH extensions: the provider posts a webhook for   *)
(* each thing it does to an extension, the handlers copy it into the       *)
(* Extension rows, and admins assign the rows to users meanwhile.          *)
(*                                                                         *)
(* Posts arrive in any order and are handled at once.  A handler is one    *)
(* READ COMMITTED transaction: it asks the provider (extension.updated     *)
(* only), reads the row, and saves every column of the row it read, the    *)
(* user column too.  Its save and its commit are one step here: it holds   *)
(* no lock before the save and reads nothing after it.  The tenant exists. *)
(***************************************************************************)
EXTENDS Naturals

CONSTANTS
    Objects,    \* extensions of one tenant, by freeswitch_object_id
    Users,
    Requests,   \* POST users/{id}/extension/ requests
    MaxOps,     \* bound: what the provider does to each extension
    MaxFaults,  \* bound: failed look-ups, exceptions and lost posts
    None

\* What the provider did to an extension, in order, and the webhook it posted of it.
Posts == UNION {[object : {o}, seq : 1 .. MaxOps[o]] : o \in Objects}

\* A row is named by the post that inserted it: its primary key.
Rows == [pk : Posts, version : Nat, user : Users \cup {None}]

Aims == [user : Users, object : Objects, pk : Posts]

ASSUME TelephonyAssumption ==
    /\ MaxOps \in [Objects -> Nat]
    /\ MaxFaults \in Nat
    /\ None \notin Users /\ None \notin Rows /\ None \notin Aims

VARIABLES
    made,     \* made[o]: the version of o at the provider, 0 before it is created
    gone,     \* the extensions the provider has deleted
    hook,     \* hook[p]: where the handling of post p stands
    copy,     \* copy[p]: the version the handler of p has in hand
    seen,     \* seen[p]: the row it has read, None if there was none
    row,      \* row[o]: the committed Extension row of o
    told,     \* told[o]: the version its user has, or was sent an outbox event about
    step,     \* step[a]: where assignment request a stands
    aim,      \* aim[a]: the user and the row it is about
    held,     \* held[a]: the rows it has cleared, locked until it ends
    faults,
    granted,  \* history: whom the last assignment gave o to
    late,     \* history: extensions whose first post was handled after a later one
    raced,    \* history: extensions two of whose posts were handled at once
    missed,   \* history: extensions with a post that was lost or skipped
    crossed   \* history: extensions reassigned while a handler had read the row

providerVars == <<made, gone>>
hookVars == <<hook, copy, seen>>
assignVars == <<step, aim, held>>
history == <<granted, late, raced, missed, crossed>>
rowVars == <<row, told>>
vars == <<providerVars, hookVars, assignVars, rowVars, faults, history>>

TypeOK ==
    /\ made \in [Objects -> Nat]
    /\ \A o \in Objects : made[o] <= MaxOps[o]
    /\ gone \in SUBSET Objects
    /\ hook \in [Posts -> {"unborn", "posted", "fetched", "read", "done", "lost"}]
    /\ copy \in [Posts -> Nat]
    /\ seen \in [Posts -> Rows \cup {None}]
    /\ row \in [Objects -> Rows \cup {None}]
    /\ told \in [Objects -> Nat]
    /\ step \in [Requests -> {"new", "read", "cleared", "done"}]
    /\ aim \in [Requests -> Aims \cup {None}]
    /\ held \in [Requests -> SUBSET Objects]
    /\ faults \in 0 .. MaxFaults
    /\ granted \in [Objects -> Users \cup {None}]
    /\ late \in SUBSET Objects
    /\ raced \in SUBSET Objects
    /\ missed \in SUBSET Objects
    /\ crossed \in SUBSET Objects
    /\ \A o \in Objects : row[o] # None => row[o].version \in 1 .. made[o]
    /\ \A a \in Requests : aim[a] = None <=> step[a] \in {"new", "done"}

Init ==
    /\ made = [o \in Objects |-> 0]
    /\ gone = {}
    /\ hook = [p \in Posts |-> "unborn"]
    /\ copy = [p \in Posts |-> 0]
    /\ seen = [p \in Posts |-> None]
    /\ row = [o \in Objects |-> None]
    /\ told = [o \in Objects |-> 0]
    /\ step = [a \in Requests |-> "new"]
    /\ aim = [a \in Requests |-> None]
    /\ held = [a \in Requests |-> {}]
    /\ faults = 0
    /\ granted = [o \in Objects |-> None]
    /\ late = {}
    /\ raced = {}
    /\ missed = {}
    /\ crossed = {}

-----------------------------------------------------------------------------
(* FreeSWITCH.                                                             *)

Live(o) == made[o] > 0 /\ o \notin gone

Kind(p) ==
    CASE p.seq = 1 -> "created"
      [] p.seq > 1 /\ p.object \in gone /\ p.seq = made[p.object] -> "deleted"
      [] OTHER -> "updated"

Act(o) ==
    /\ made[o] < MaxOps[o]
    /\ made' = [made EXCEPT ![o] = @ + 1]
    /\ hook' = [hook EXCEPT ![[object |-> o, seq |-> made[o] + 1]] = "posted"]
    /\ UNCHANGED <<copy, seen, assignVars, rowVars, faults, history>>

\* The extension is created, or its SIP credentials change.
Provide(o) == o \notin gone /\ Act(o) /\ UNCHANGED gone

Remove(o) == Live(o) /\ Act(o) /\ gone' = gone \cup {o}

-----------------------------------------------------------------------------
(* FreeSwitchWebhookView.post.                                             *)

OpenOn(o) == {p \in Posts : p.object = o /\ hook[p] \in {"fetched", "read"}}

Locked(o) == \E a \in Requests : o \in held[a]

Owners(u) == {o \in Objects : row[o] # None /\ row[o].user = u}

\* The handler of p begins, next to those that are at work on its extension.
Begin(p) ==
    /\ hook[p] = "posted"
    /\ raced' = IF OpenOn(p.object) = {} THEN raced ELSE raced \cup {p.object}
    /\ late' =
         IF p.seq = 1 /\ \E q \in Posts : q.object = p.object /\ q.seq > 1
                                         /\ hook[q] \notin {"unborn", "posted"}
         THEN late \cup {p.object} ELSE late

\* extension.created: the payload has it all, the row is read.
Created(p) ==
    /\ Kind(p) = "created"
    /\ Begin(p)
    /\ hook' = [hook EXCEPT ![p] = "read"]
    /\ copy' = [copy EXCEPT ![p] = 1]
    /\ seen' = [seen EXCEPT ![p] = row[p.object]]
    /\ UNCHANGED <<providerVars, rowVars, assignVars, faults, granted, missed,
                   crossed>>

\* extension.updated: get_resource answers with what the provider has now.
Fetch(p) ==
    /\ Kind(p) = "updated"
    /\ Live(p.object)
    /\ Begin(p)
    /\ hook' = [hook EXCEPT ![p] = "fetched"]
    /\ copy' = [copy EXCEPT ![p] = made[p.object]]
    /\ UNCHANGED <<providerVars, seen, rowVars, assignVars, faults, granted, missed,
                   crossed>>

\* get_resource answers None, for a 404: nothing is synced.
FetchGone(p) ==
    /\ Kind(p) = "updated"
    /\ p.object \in gone
    /\ Begin(p)
    /\ hook' = [hook EXCEPT ![p] = "done"]
    /\ UNCHANGED <<providerVars, copy, seen, rowVars, assignVars, faults, granted, missed,
                   crossed>>

\* Mutation of FetchFailed: the sync goes on with what the post said.
FetchFailedUsesPayload(p) ==
    /\ Kind(p) = "updated"
    /\ faults < MaxFaults
    /\ faults' = faults + 1
    /\ Begin(p)
    /\ hook' = [hook EXCEPT ![p] = "fetched"]
    /\ copy' = [copy EXCEPT ![p] = p.seq]
    /\ UNCHANGED <<providerVars, seen, rowVars, assignVars, granted, missed, crossed>>

\* The same None for a time-out, a refused connection or an error answer.
FetchFailed(p) ==
    /\ Kind(p) = "updated"
    /\ faults < MaxFaults
    /\ faults' = faults + 1
    /\ Begin(p)
    /\ hook' = [hook EXCEPT ![p] = "done"]
    /\ missed' = missed \cup {p.object}
    /\ UNCHANGED <<providerVars, copy, seen, rowVars, assignVars, granted, crossed>>

ReadRow(p) ==
    /\ hook[p] = "fetched"
    /\ hook' = [hook EXCEPT ![p] = "read"]
    /\ seen' = [seen EXCEPT ![p] = row[p.object]]
    /\ UNCHANGED <<providerVars, copy, rowVars, assignVars, faults, history>>

\* The row save() leaves: a new one, or the one that was read with its user.
Saved(p) ==
    IF seen[p] = None
    THEN [pk |-> p, version |-> copy[p], user |-> None]
    ELSE [seen[p] EXCEPT !.version = copy[p]]

\* The rows that have the user of the one to be saved.
Rivals(p) ==
    IF Saved(p).user = None THEN {} ELSE Owners(Saved(p).user) \ {p.object}

\* The unique constraints: one row per object id, one row per user.
Clash(p) ==
    \/ row[p.object] # None /\ row[p.object].pk # Saved(p).pk
    \/ Rivals(p) # {}

\* save() waits for whoever has written the rows it needs.
CanSave(p) ==
    /\ hook[p] = "read"
    /\ \A o \in {p.object} \cup Rivals(p) : ~Locked(o)

\* Mutation of Tell: the event goes with the row's creation.
TellOnInsert(p) ==
    told' = IF Kind(p) # "created" /\ seen[p] = None
            THEN [told EXCEPT ![p.object] = copy[p]] ELSE told

\* The outbox event for the user of the row, if extension.updated found one.
Tell(p) ==
    told' = IF Kind(p) # "created" /\ Saved(p).user # None
            THEN [told EXCEPT ![p.object] = copy[p]] ELSE told

\* Mutation of Save: the handler keeps no user it has not assigned.
SaveUnassigned(p) ==
    /\ CanSave(p)
    /\ ~Clash(p)
    /\ row' = [row EXCEPT ![p.object] = [Saved(p) EXCEPT !.user = None]]
    /\ Tell(p)
    /\ hook' = [hook EXCEPT ![p] = "done"]
    /\ UNCHANGED <<providerVars, copy, seen, assignVars, faults, history>>

\* UPDATE by primary key, INSERT if the row is no longer there; then the outbox
\* event and the WebhookLog, and the commit.
Save(p) ==
    /\ CanSave(p)
    /\ ~Clash(p)
    /\ row' = [row EXCEPT ![p.object] = Saved(p)]
    /\ Tell(p)
    /\ hook' = [hook EXCEPT ![p] = "done"]
    /\ UNCHANGED <<providerVars, copy, seen, assignVars, faults, history>>

\* A 500 or a 400: the transaction is undone, and whether the provider posts again
\* is up to it.
Refused(p) ==
    \/ hook' = [hook EXCEPT ![p] = "posted"] /\ UNCHANGED missed
    \/ hook' = [hook EXCEPT ![p] = "lost"] /\ missed' = missed \cup {p.object}

\* IntegrityError.
SaveRaises(p) ==
    /\ CanSave(p)
    /\ Clash(p)
    /\ Refused(p)
    /\ UNCHANGED <<providerVars, copy, seen, rowVars, assignVars, faults, granted, late,
                   raced, crossed>>

\* extension.deleted: the row is deleted, whatever it holds.
Deleted(p) ==
    /\ Kind(p) = "deleted"
    /\ ~Locked(p.object)
    /\ Begin(p)
    /\ hook' = [hook EXCEPT ![p] = "done"]
    /\ row' = [row EXCEPT ![p.object] = None]
    /\ told' = [told EXCEPT ![p.object] = 0]
    /\ granted' = [granted EXCEPT ![p.object] = None]
    /\ UNCHANGED <<providerVars, copy, seen, assignVars, faults, missed, crossed>>

\* An exception leaves the view before the save: no API key, a taken extension
\* number, the process killed.  Or the post never arrives.
Raise(p) ==
    /\ hook[p] \in {"posted", "fetched", "read"}
    /\ faults < MaxFaults
    /\ faults' = faults + 1
    /\ Refused(p)
    /\ UNCHANGED <<providerVars, copy, seen, rowVars, assignVars, granted, late, raced,
                   crossed>>

Handle(p) ==
    \/ Created(p)
    \/ Fetch(p)
    \/ FetchGone(p)
    \/ FetchFailed(p)
    \/ ReadRow(p)
    \/ Save(p)
    \/ SaveRaises(p)
    \/ Deleted(p)
    \/ Raise(p)

-----------------------------------------------------------------------------
(* UserExtensionView.                                                      *)

\* The extension is looked up by its primary key.
AssignRead(a) ==
    /\ step[a] = "new"
    /\ \E u \in Users, o \in Objects :
         /\ row[o] # None
         /\ aim' = [aim EXCEPT ![a] = [user |-> u, object |-> o, pk |-> row[o].pk]]
    /\ step' = [step EXCEPT ![a] = "read"]
    /\ UNCHANGED <<providerVars, hookVars, held, rowVars, faults, history>>

\* filter(user=target_user).update(user=None).
AssignClear(a) ==
    /\ step[a] = "read"
    /\ \A o \in Owners(aim[a].user) : ~Locked(o)
    /\ step' = [step EXCEPT ![a] = "cleared"]
    /\ held' = [held EXCEPT ![a] = Owners(aim[a].user)]
    /\ UNCHANGED <<providerVars, hookVars, aim, rowVars, faults, history>>

\* What an assignment does to the row of o: those it cleared, then its own.
Reassigned(a, o) ==
    IF o = aim[a].object THEN aim[a].user
    ELSE IF o \in held[a] THEN None
    ELSE IF row[o] # None THEN row[o].user ELSE None

End(a) ==
    /\ step' = [step EXCEPT ![a] = "done"]
    /\ aim' = [aim EXCEPT ![a] = None]
    /\ held' = [held EXCEPT ![a] = {}]
    /\ UNCHANGED <<providerVars, hookVars, faults, late, raced, missed>>

\* The extensions whose row a handler has read and not yet saved.
HalfSynced == {p.object : p \in {q \in Posts : hook[q] = "read"}}

\* Mutation of CanSet: a user column without its unique constraint.
CanSetAnyway(a) ==
    /\ row[aim[a].object] # None
    /\ row[aim[a].object].pk = aim[a].pk

\* Whoever else has cleared the row must end first, and nobody may have the user.
CanSet(a) ==
    /\ row[aim[a].object] # None
    /\ row[aim[a].object].pk = aim[a].pk
    /\ Owners(aim[a].user) \subseteq held[a] \cup {aim[a].object}

MustWait(a) ==
    \E b \in Requests \ {a} :
        ({aim[a].object} \cup Owners(aim[a].user)) \cap held[b] # {}

\* save(update_fields=["user"]) and the commit.
AssignSet(a) ==
    /\ step[a] = "cleared"
    /\ ~MustWait(a)
    /\ CanSet(a)
    /\ row' = [o \in Objects |-> IF row[o] = None THEN None
                                 ELSE [row[o] EXCEPT !.user = Reassigned(a, o)]]
    /\ told' = [told EXCEPT ![aim[a].object] = row[aim[a].object].version]
    /\ LET written == held[a] \cup {aim[a].object}
       IN  /\ granted' = [o \in Objects |->
                            IF o \in written THEN Reassigned(a, o) ELSE granted[o]]
           /\ crossed' = crossed \cup (HalfSynced \cap written)
    /\ End(a)

\* The row is gone (DatabaseError), the user has another one by now
\* (IntegrityError), or the wait is cancelled, as the victim of a deadlock is: all
\* is undone.
AssignRaises(a) ==
    /\ step[a] = "cleared"
    /\ MustWait(a) \/ ~CanSet(a)
    /\ End(a)
    /\ UNCHANGED <<rowVars, granted, crossed>>

\* DELETE users/{id}/extension/.
Unassign(u) ==
    /\ Owners(u) # {}
    /\ \A o \in Owners(u) : ~Locked(o)
    /\ row' = [o \in Objects |-> IF o \in Owners(u) THEN [row[o] EXCEPT !.user = None]
                                 ELSE row[o]]
    /\ granted' = [o \in Objects |-> IF o \in Owners(u) THEN None ELSE granted[o]]
    /\ crossed' = crossed \cup (HalfSynced \cap Owners(u))
    /\ UNCHANGED <<providerVars, hookVars, assignVars, told, faults, late, raced, missed>>

-----------------------------------------------------------------------------

Next ==
    \/ \E o \in Objects : Provide(o) \/ Remove(o)
    \/ \E p \in Posts : Handle(p)
    \/ \E a \in Requests :
         AssignRead(a) \/ AssignClear(a) \/ AssignSet(a) \/ AssignRaises(a)
    \/ \E u \in Users : Unassign(u)

Spec == Init /\ [][Next]_vars

-----------------------------------------------------------------------------
(* Properties.                                                             *)

AtRest(o) == \A p \in Posts : p.object = o => hook[p] \in {"unborn", "done", "lost"}

\* Once every post about an extension is handled, the mirror has what the provider
\* has, in whatever order extension.updated and extension.deleted came: unless the
\* first post was handled after a later one, two were handled at once or one was
\* missed.
MirrorsProvider ==
    \A o \in Objects :
        AtRest(o) /\ o \notin late \cup raced \cup missed =>
            /\ row[o] # None <=> Live(o)
            /\ row[o] # None => row[o].version = made[o]

\* An extension is with the user an admin gave it to, however often it is synced:
\* unless it was reassigned between a handler's read and save, or two handlers
\* were at work on it.
OwnerIsLastAssigned ==
    \A o \in Objects :
        row[o] # None /\ o \notin crossed \cup raced => row[o].user = granted[o]

\* Whoever has an extension has its credentials: the provider may change them any
\* number of times, but the user was given the extension with the present ones or
\* told of them.  Only an extension.created that comes after or next to a later post
\* changes them behind the user's back.
OwnerHoldsCurrentSecret ==
    \A o \in Objects :
        row[o] # None /\ o \notin late \cup raced =>
            row[o].user = None \/ told[o] = row[o].version

\* A user has one extension, though requests and handlers write the user column
\* from what they read earlier.
OneExtensionPerUser == \A u \in Users : \A x, y \in Owners(u) : x = y

\* webhooks/models.py: the provider's timestamp is "Used for ordering/stale-event
\* detection": an extension whose deletion was handled does not come back.
DeletedStaysDeleted ==
    \A p \in Posts :
        Kind(p) = "deleted" /\ hook[p] = "done" => row[p.object] = None

=============================================================================
