------------------------------- MODULE Access -------------------------------
(***************************************************************************)
(* Who works which line, and which callers a team lead may look at.        *)
(*                                                                         *)
(* A caller is assigned lines (UserDID) and works them under divisions     *)
(* (UserDIDDivisionAssignment).  A lead is granted groups of entries, each *)
(* of one line or of one department, for one division or for all.  The     *)
(* resolvers of tl_scoping turn the grants into extensions, lines,         *)
(* departments and divisions whenever a list is read: they are operators   *)
(* of the state here, and the requests of admins are its actions.  Every   *)
(* request is one transaction of a few rows that no other one depends on.  *)
(*                                                                         *)
(* Nothing holds a line to departments of its tenant: the admin site saves *)
(* any pair, and a department can be moved while its lines stay.           *)
(*                                                                         *)
(* A caller stands for its extension number.  The department an assignment *)
(* may declare is left out: no resolver reads it.                          *)
(***************************************************************************)
EXTENDS FiniteSets, Naturals

CONSTANTS
    Leads,      \* users with is_team_lead, of one tenant, no superadmin
    Callers,    \* users of the tenant
    Phones,     \* the callers that have an extension
    Lines,      \* DIDs
    Departments,
    Divisions,
    Groups,     \* AccessGroups
    Abroad,     \* lines and departments that may belong to another tenant
    MaxEntries, \* bound on the entries of all groups
    MaxWork,    \* bound on the division assignments
    None

ASSUME AccessAssumption ==
    /\ Phones \subseteq Callers
    /\ Abroad \subseteq Lines \cup Departments
    /\ MaxEntries \in Nat /\ MaxWork \in Nat
    /\ None \notin Lines \cup Departments \cup Divisions

Work == [user : Callers, line : Lines, division : Divisions]

Entry == {e \in [group : Groups, line : Lines \cup {None}, department : Departments \cup {None},
                 division : Divisions \cup {None}] :
              (e.line = None) # (e.department = None)}

VARIABLES
    foreign,    \* lines and departments of another tenant
    department, \* department[n]: DID.department
    holds,      \* UserDID rows
    work,       \* UserDIDDivisionAssignment rows
    groups,     \* AccessGroups there are
    entries,
    grants,     \* TLGroupAccess rows
    loose       \* history: lines that are worked after their assignment was revoked,
                \* or without ever having been assigned

directory == <<foreign, department>>
assignments == <<holds, work, loose>>
accessVars == <<groups, entries, grants>>
vars == <<directory, assignments, accessVars>>

TypeOK ==
    /\ foreign \subseteq Lines \cup Departments
    /\ department \in [Lines -> Departments \cup {None}]
    /\ holds \subseteq Callers \X Lines
    /\ work \subseteq Work
    /\ groups \subseteq Groups
    /\ entries \subseteq Entry
    /\ grants \subseteq Leads \X groups
    /\ \A e \in entries : e.group \in groups
    /\ loose \subseteq Callers \X Lines

\* A line that the provider reports is in no department.
Init ==
    /\ foreign \in SUBSET Abroad
    /\ department = [n \in Lines |-> None]
    /\ holds = {} /\ work = {} /\ loose = {}
    /\ groups = {} /\ entries = {} /\ grants = {}

-----------------------------------------------------------------------------
(* The directory.                                                          *)

\* What may be of another tenant once x was saved with one or the other.
Rehomed(x) == {foreign} \cup (IF x \in Abroad THEN {foreign \cup {x}, foreign \ {x}} ELSE {})

\* A PATCH of a department: its tenant is writable, its lines stay.
MoveDepartment(d) ==
    /\ foreign' \in Rehomed(d)
    /\ UNCHANGED <<department, assignments, accessVars>>

\* The admin site saves a line with any tenant and any department.
SaveLine(n, d) ==
    /\ foreign' \in Rehomed(n)
    /\ department' = [department EXCEPT ![n] = d]
    /\ UNCHANGED <<assignments, accessVars>>

\* Lines outlive their department, its entries do not.
DeleteDepartment(d) ==
    /\ department' = [n \in Lines |-> IF department[n] = d THEN None ELSE department[n]]
    /\ entries' = {e \in entries : e.department # d}
    /\ UNCHANGED <<foreign, assignments, groups, grants>>

-----------------------------------------------------------------------------
(* The assignments of callers.                                             *)

Worked(W) == {<<w.user, w.line>> : w \in W}

\* A line is looked up in the tenant of the caller.
Resolvable(n) == n \in Lines \ foreign

GrantLine(k, n) ==
    /\ Resolvable(n)
    /\ holds' = holds \cup {<<k, n>>}
    /\ loose' = loose \ {<<k, n>>}
    /\ UNCHANGED <<directory, work, accessVars>>

\* The division assignments of the line stay.
RevokeLine(k, n) ==
    /\ holds' = holds \ {<<k, n>>}
    /\ loose' = loose \cup Worked({x \in work : x.user = k /\ x.line = n})
    /\ UNCHANGED <<directory, work, accessVars>>

\* Mutant: the division assignments of unlisted lines stay.
UpdateLinesKeepsWork(k, rows) ==
    /\ \A n \in DOMAIN rows : Resolvable(n)
    /\ holds' = {h \in holds : h[1] # k} \cup {<<k, n>> : n \in DOMAIN rows}
    /\ work' = {w \in work : w.user = k => w.line \notin DOMAIN rows}
               \cup {w \in Work : w.user = k /\ w.line \in DOMAIN rows /\ w.division = rows[w.line]}
    /\ Cardinality(work') <= MaxWork
    /\ UNCHANGED <<directory, loose, accessVars>>

\* did_assignments of a user update: rows gives each listed line its division, if any.
UpdateLines(k, rows) ==
    /\ \A n \in DOMAIN rows : Resolvable(n)
    /\ holds' = {h \in holds : h[1] # k} \cup {<<k, n>> : n \in DOMAIN rows}
    /\ work' = {w \in work : w.user # k}
               \cup {w \in Work : w.user = k /\ w.line \in DOMAIN rows /\ w.division = rows[w.line]}
    /\ loose' = {h \in loose : h[1] # k}
    /\ Cardinality(work') <= MaxWork
    /\ UNCHANGED <<directory, accessVars>>

\* POST division-assignments/ asks neither for the UserDID row nor for the tenant.
AssignWork(w) ==
    /\ work' = work \cup {w}
    /\ Cardinality(work') <= MaxWork
    /\ loose' = loose \cup ({<<w.user, w.line>>} \ holds)
    /\ UNCHANGED <<directory, holds, accessVars>>

UnassignWork(w) ==
    /\ w \in work
    /\ work' = work \ {w}
    /\ loose' = loose \cap Worked(work')
    /\ UNCHANGED <<directory, holds, accessVars>>

-----------------------------------------------------------------------------
(* Groups, entries and grants, and what deletes them along with it.        *)

CreateGroup(g) ==
    /\ g \notin groups
    /\ groups' = groups \cup {g}
    /\ UNCHANGED <<directory, assignments, entries, grants>>

DeleteGroup(g) ==
    /\ g \in groups
    /\ groups' = groups \ {g}
    /\ entries' = {e \in entries : e.group # g}
    /\ grants' = {a \in grants : a[2] # g}
    /\ UNCHANGED <<directory, assignments>>

AddEntry(e) ==
    /\ e.group \in groups
    /\ entries' = entries \cup {e}
    /\ Cardinality(entries') <= MaxEntries
    /\ UNCHANGED <<directory, assignments, groups, grants>>

RemoveEntry(e) ==
    /\ e \in entries
    /\ entries' = entries \ {e}
    /\ UNCHANGED <<directory, assignments, groups, grants>>

GrantAccess(u, g) ==
    /\ g \in groups
    /\ grants' = grants \cup {<<u, g>>}
    /\ UNCHANGED <<directory, assignments, groups, entries>>

RevokeAccess(u, g) ==
    /\ <<u, g>> \in grants
    /\ grants' = grants \ {<<u, g>>}
    /\ UNCHANGED <<directory, assignments, groups, entries>>

\* Mutant: on_delete=SET_NULL for the entries too.
DeleteDivisionUnsets(v) ==
    /\ work' = {w \in work : w.division # v}
    /\ entries' = {IF e.division = v THEN [e EXCEPT !.division = None] ELSE e : e \in entries}
    /\ loose' = loose \cap Worked(work')
    /\ UNCHANGED <<directory, holds, groups, grants>>

DeleteDivision(v) ==
    /\ work' = {w \in work : w.division # v}
    /\ entries' = {e \in entries : e.division # v}
    /\ loose' = loose \cap Worked(work')
    /\ UNCHANGED <<directory, holds, groups, grants>>

-----------------------------------------------------------------------------
(* tl_scoping: what the grants of a lead resolve to.  Where a resolver     *)
(* answers that there is no restriction, the operator gives every id.      *)

Nothing == [line |-> None, department |-> None, division |-> None]

Scope(e) == [line |-> e.line, department |-> e.department, division |-> e.division]

\* A left join: a granted group without entries gives a row of nulls.
Rows(u) ==
    {Scope(e) : e \in {f \in entries : <<u, f.group>> \in grants}}
    \cup {Nothing : g \in {h \in groups : /\ <<u, h>> \in grants
                                          /\ \A e \in entries : e.group # h}}

NamedLines(u) == {x.line : x \in Rows(u)} \ {None}
NamedDepartments(u) == {x.department : x \in Rows(u)} \ {None}
ExpandedLines(u) ==
    LET named == NamedDepartments(u) IN {n \in Lines \ foreign : department[n] \in named}

\* The lines whose assignments of division v (None: of any) the rows select: a
\* department entry adds the lines of all departments named, whatever their division.
Select(u, v) ==
    LET rows == {x \in Rows(u) : x.division = v}
        expanded == IF \E x \in rows : x.department # None THEN ExpandedLines(u) ELSE {}
    IN {n \in Lines : n \in expanded \/ \E x \in rows : x.line = n}

\* Some row leads to a line.
Selects(u) == NamedLines(u) # {} \/ ExpandedLines(u) # {}

\* Mutant: an entry without a division selects nothing.
SelectedInDivision(u, w) == w.line \in Select(u, w.division)

Selected(u, w) == w.line \in Select(u, w.division) \/ w.line \in Select(u, None)

\* Mutant: one entry is enough, whatever its division.
AnyDivision(u, w) ==
    \E v \in Divisions \cup {None} : Selects(u) => w.line \in Select(u, v)

\* An empty filter matches every assignment.
Matches(u, w) == Selects(u) => Selected(u, w)

Scoped(u) == Rows(u) # {}

Extensions(u) ==
    IF ~Scoped(u) THEN Phones
    ELSE IF Rows(u) = {Nothing} THEN {}
    ELSE {w.user : w \in {x \in work : Matches(u, x)}} \cap Phones

LineIds(u) == IF Scoped(u) THEN NamedLines(u) \cup ExpandedLines(u) ELSE Lines

\* Mutant: only the departments named.
DepartmentIdsNamed(u) == IF Scoped(u) THEN NamedDepartments(u) ELSE Departments

DepartmentIds(u) ==
    IF Scoped(u) THEN NamedDepartments(u) \cup ({department[n] : n \in NamedLines(u)} \ {None})
    ELSE Departments

DivisionIds(u) ==
    IF ~Scoped(u) \/ \E x \in Rows(u) : x.division = None THEN Divisions
    ELSE {x.division : x \in Rows(u)}

\* The lists a lead reads, before the filters it may add.
ListedUsers(u) == IF Scoped(u) THEN Extensions(u) ELSE Callers
ListedLines(u) == (Lines \ foreign) \cap LineIds(u)
ListedDepartments(u) == (Departments \ foreign) \cap DepartmentIds(u)
ListedDivisions(u) == Divisions \cap DivisionIds(u)
ListedExtensions(u) == Phones \cap Extensions(u)

\* my-log-access-roster: entry by entry, not scoped to the tenant.
Covers(x, w) ==
    /\ IF x.line # None THEN w.line = x.line
       ELSE department[w.line] # None /\ department[w.line] = x.department
    /\ x.division = None \/ x.division = w.division

Roster(u) == {w \in work : \E e \in entries : <<u, e.group>> \in grants /\ Covers(e, w)}

\* The filters of the lists: ?division_id= and ?did_id= of the users, ?division_id= and
\* ?user_id= of the lines, ?did_id= and ?user_id= of the divisions.
UnrestrictedLeads == {u \in Leads : \E e \in entries : <<u, e.group>> \in grants /\ e.division = None}

UsersOfDivision(v) ==
    {w.user : w \in {x \in work : x.division = v}}
    \cup {u \in Leads : \E e \in entries : <<u, e.group>> \in grants /\ e.division = v}
    \cup UnrestrictedLeads

UsersOfLine(n) ==
    {k \in Callers : <<k, n>> \in holds}
    \cup {u \in Leads : \E e \in entries : <<u, e.group>> \in grants /\ e.line = n}

LinesOfDivision(v) == {w.line : w \in {x \in work : x.division = v}}
LinesOfUser(k) == {n \in Lines : <<k, n>> \in holds}
DivisionsOfLine(n) == {w.division : w \in {x \in work : x.line = n}}
DivisionsOfUser(k) == {w.division : w \in {x \in work : x.user = k}}

\* The divisions in the profile of a user.
ProfileDivisions(k) ==
    DivisionsOfUser(k)
    \cup ({e.division : e \in {f \in entries : <<k, f.group>> \in grants}} \ {None})

-----------------------------------------------------------------------------

AccountsOf(k) ==
    \/ \E n \in Lines : GrantLine(k, n) \/ RevokeLine(k, n)
    \/ \E D \in SUBSET Lines : \E rows \in [D -> Divisions \cup {None}] : UpdateLines(k, rows)

Next ==
    \/ \E k \in Callers : AccountsOf(k)
    \/ \E w \in Work : AssignWork(w) \/ UnassignWork(w)
    \/ \E g \in Groups :
           \/ CreateGroup(g) \/ DeleteGroup(g)
           \/ \E u \in Leads : GrantAccess(u, g) \/ RevokeAccess(u, g)
    \/ \E e \in Entry : AddEntry(e) \/ RemoveEntry(e)
    \/ \E d \in Departments : MoveDepartment(d) \/ DeleteDepartment(d)
    \/ \E n \in Lines, d \in Departments \cup {None} : SaveLine(n, d)
    \/ \E v \in Divisions : DeleteDivision(v)

Spec == Init /\ [][Next]_vars

-----------------------------------------------------------------------------
(* Properties.                                                             *)

\* The line is of another tenant, its department granted: the roster follows the
\* department, the call logs the lines of the lead's tenant.
FromAbroad(u, w) == w.line \in foreign /\ department[w.line] \in NamedDepartments(u)

\* Whom a lead's roster shows, the lead's call logs show: the entry by entry loop of
\* MyLogAccessRosterView never finds a caller that resolve_tl_extensions misses, but for
\* one who works a line of another tenant that is in a granted department.
RosterIsVisible ==
    \A u \in Leads :
        Scoped(u) =>
            \A w \in Roster(u) :
                (w.user \in Phones /\ ~FromAbroad(u, w)) => w.user \in Extensions(u)

OnRoster(u) == {w.user : w \in Roster(u)} \cap Phones

\* The named departments that have lines, each with the divisions it is granted for.
Mixed(u) ==
    \E x, y \in Rows(u) :
        /\ x.department # None /\ y.department # None
        /\ x.department # y.department /\ x.division # y.division

\* Whom the call logs show is on the roster, unless two departments are granted for
\* different divisions (each division then gets the lines of both) or no entry leads
\* to a line (the empty filter then shows every caller).
VisibleIsOnRoster ==
    \A u \in Leads :
        (Scoped(u) /\ ~Mixed(u) /\ (Selects(u) \/ Rows(u) = {Nothing})) =>
            Extensions(u) \subseteq OnRoster(u)

\* The lists of a lead fit together: who is shown works a line that is shown or one of
\* another tenant, unless no line is granted; the department of a line that is shown is
\* shown, unless it is of another tenant; and a lead is found by the divisions it is
\* shown and those it works itself, unless a granted group is empty.
ListsAgree ==
    \A u \in Leads :
        /\ (Scoped(u) /\ Selects(u)) =>
               \A k \in ListedUsers(u) :
                   \E w \in work : w.user = k /\ w.line \in ListedLines(u) \cup foreign
        /\ \A n \in ListedLines(u) :
               department[n] # None => department[n] \in ListedDepartments(u) \cup foreign
        /\ (Scoped(u) /\ Nothing \notin Rows(u)) =>
               \A v \in Divisions :
                   u \in UsersOfDivision(v) <=> v \in ListedDivisions(u) \cup DivisionsOfUser(u)

Removing ==
    /\ Cardinality(entries') <= Cardinality(entries)
    /\ grants' \subseteq grants /\ work' \subseteq work
    /\ \A n \in Lines : department'[n] \in {department[n], None}
    /\ foreign \cap Lines \subseteq foreign'

\* Taking something away never shows a lead more: not an entry, a grant, a group, a
\* department, a division, an assignment, or a line that leaves its department or the
\* tenant, unless the lead has no grant left, which lifts the restriction, or no line is
\* left among its entries.
RemovingNarrows ==
    [][Removing =>
           \A u \in Leads :
               (grants' \cap ({u} \X Groups) # {} /\ (Selects(u)' \/ Rows(u)' = {Nothing})) =>
                   Extensions(u)' \subseteq Extensions(u)]_<<directory, work, accessVars>>

\* A caller works only lines it is assigned, unless the line was revoked by itself or
\* the work was assigned without it: an update of the user brings both back in step.
WorkNeedsLine == \A w \in work : <<w.user, w.line>> \in holds \cup loose

\* The filters, some of which read the lines of a caller and some the divisions it works
\* them under, meet: each division a caller is found by leads over one of its lines back
\* to the caller, unless a line was revoked or worked without being assigned.  Whoever
\* is found by a division has it in the profile, but for leads of all divisions.
FiltersMeet ==
    /\ \A k \in Callers :
           (\A n \in Lines : <<k, n>> \notin loose) =>
               \A v \in DivisionsOfUser(k) :
                   \E n \in LinesOfUser(k) \cap LinesOfDivision(v) :
                       v \in DivisionsOfLine(n) /\ k \in UsersOfLine(n) \cap UsersOfDivision(v)
    /\ \A u \in Callers \cup Leads, v \in Divisions :
           u \in UsersOfDivision(v) <=> v \in ProfileDivisions(u) \/ u \in UnrestrictedLeads

\* "Returns an empty set if the user has grants but they resolve to zero extensions."
EmptyGrantsShowNobody ==
    \A u \in Leads :
        (Scoped(u) /\ ~Selects(u)) => ListedExtensions(u) = {}

=============================================================================
