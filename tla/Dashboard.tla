----------------------------- MODULE Dashboard ------------------------------
(***************************************************************************)
(* The call dashboard: whose calls a viewer asks about and may see, one    *)
(* call upstream per section and extension, all of them at once, and the   *)
(* sections merged from the answers that arrived.                          *)
(***************************************************************************)
EXTENDS FiniteSets

CONSTANTS
    Exts,       \* extension numbers of the tenant
    NoNumber,   \* the empty extension number
    Everyone,   \* no restriction
    NotYet, Error

ASSUME DashboardAssumption ==
    /\ NoNumber \notin Exts /\ Everyone \notin Exts \cup {NoNumber}
    /\ \A E \in SUBSET (Exts \cup {NoNumber}) : E \notin {Everyone, NotYet, Error}

Names == Exts \cup {NoNumber}
Sections == {"summary", "daily_summary", "hourly_stats"}

\* grants: what resolve_tl_extensions returns, Everyone standing for None.
Viewer == [role : {"superuser", "admin", "user"}, own : Names, grants : SUBSET Exts]
          \cup [role : {"admin"}, own : {NoNumber}, grants : {Everyone}]

VARIABLES
    viewer,
    wanted,     \* the extensions asked for, or Everyone
    fan,        \* the extensions one call each is made for, or Everyone
    reply,      \* reply[s]: by name, how the calls of section s stand
    shown       \* shown[s]: the extensions section s counts, or that it is an error

dashVars == <<viewer, wanted, fan, reply, shown>>

NoCalls == [s \in Sections |-> [x \in {} |-> "waiting"]]

DashInit ==
    /\ viewer \in Viewer
    /\ wanted \in (SUBSET Exts) \cup {Everyone}
    /\ fan = {}
    /\ reply = NoCalls
    /\ shown = [s \in Sections |-> NotYet]

\* An empty set of grants is joined into the empty string, which splits into NoNumber.
Allowed(v) ==
    CASE v.role = "superuser" -> Everyone
      [] v.role = "user" -> IF v.own = NoNumber THEN Everyone ELSE {v.own}
      [] OTHER -> IF v.grants = {} THEN {NoNumber} ELSE v.grants

\* Mutant: the request replaces the scope.
RequestedWins(v, w) == IF w = Everyone THEN Allowed(v) ELSE w

Requested(v, w) ==
    CASE w = Everyone -> Allowed(v)
      [] Allowed(v) = Everyone -> w
      [] OTHER -> w \cap Allowed(v)

\* Everyone is one call without an extension.
Targets(f) == IF f = Everyone THEN {Everyone} ELSE f

FanOut ==
    /\ reply = NoCalls /\ \A s \in Sections : shown[s] = NotYet
    /\ LET f == Requested(viewer, wanted) IN
           /\ fan' = f
           /\ reply' = [s \in Sections |-> [x \in Targets(f) |-> "waiting"]]
           /\ shown' = IF f = {} THEN [s \in Sections |-> Error] ELSE shown
    /\ UNCHANGED <<viewer, wanted>>

Answer(s, x) ==
    /\ reply[s][x] = "waiting"
    /\ \E a \in {"ok", "failed"} : reply' = [reply EXCEPT ![s][x] = a]
    /\ UNCHANGED <<viewer, wanted, fan, shown>>

\* Upstream, an empty extension is no filter.
Counts(x) == IF x \in {Everyone, NoNumber} THEN Exts ELSE {x}

\* A failed call is dropped.
MergeSection(s) ==
    LET ok == {x \in DOMAIN reply[s] : reply[s][x] = "ok"} IN
    /\ shown[s] = NotYet /\ reply # NoCalls
    /\ \A x \in DOMAIN reply[s] : reply[s][x] # "waiting"
    /\ shown' = [shown EXCEPT ![s] = IF ok = {} THEN Error ELSE UNION {Counts(x) : x \in ok}]
    /\ UNCHANGED <<viewer, wanted, fan, reply>>

DashNext ==
    \/ FanOut
    \/ \E s \in Sections : MergeSection(s) \/ \E x \in DOMAIN reply[s] : Answer(s, x)

DashSpec == DashInit /\ [][DashNext]_dashVars

MaySee(v) ==
    CASE v.role = "user" -> {v.own}
      [] v.role = "admin" /\ v.grants # Everyone -> v.grants
      [] OTHER -> Exts

Wants(x) == wanted = Everyone \/ x \in wanted

\* A section counts the extensions that were asked for and that the viewer may see, all
\* of them but those whose call failed, whatever the other sections do, unless what the
\* viewer may see is no extension at all: the restriction is then lost.
DashboardInScope ==
    \A s \in Sections :
        (shown[s] \notin {NotYet, Error} /\ MaySee(viewer) \notin {{}, {NoNumber}}) =>
            shown[s] = {x \in MaySee(viewer) :
                            /\ Wants(x)
                            /\ \A y \in DOMAIN reply[s] :
                                   reply[s][y] = "failed" => x \notin Counts(y)}

=============================================================================
