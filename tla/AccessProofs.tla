---------------------------- MODULE AccessProofs ----------------------------
(***************************************************************************)
(* What a lead is shown, for any number of leads, callers, lines,          *)
(* departments, divisions, groups, entries and assignments.                *)
(*                                                                         *)
(* The lists are functions of the state, so what they show in one state    *)
(* needs few facts about how it came about: that rows are typed, that      *)
(* entries and grants are of groups that exist, and that a caller works    *)
(* the lines it is assigned.  That a line and its department are of one    *)
(* tenant is not among them, since nothing in the code sees to it.  That   *)
(* taking something away shows no more relates two states, and rests on    *)
(* every removal shrinking what the grants resolve to.                     *)
(***************************************************************************)
EXTENDS Access, FiniteSetTheorems, TLAPS

Shape ==
    /\ foreign \subseteq Lines \cup Departments
    /\ department \in [Lines -> Departments \cup {None}]
    /\ work \subseteq Work
    /\ groups \subseteq Groups
    /\ entries \subseteq Entry /\ IsFiniteSet(entries)
    /\ grants \subseteq Leads \X groups
    /\ \A e \in entries : e.group \in groups

Assigned ==
    /\ holds \subseteq Callers \X Lines
    /\ loose \subseteq Callers \X Lines
    /\ WorkNeedsLine

AccessInv == Shape /\ Assigned

-----------------------------------------------------------------------------
(* The invariant, action by action.                                        *)

LEMMA AccessInitially == Init => AccessInv
  <1> SUFFICES ASSUME Init PROVE AccessInv
    OBVIOUS
  <1>1. foreign \subseteq Lines \cup Departments
    BY AccessAssumption DEF Init
  <1>2. IsFiniteSet(entries)
    BY FS_EmptySet DEF Init
  <1>3. Shape
    BY <1>1, <1>2 DEF Init, Shape
  <1>4. Assigned
    BY DEF Init, Assigned, WorkNeedsLine
  <1> QED BY <1>3, <1>4 DEF AccessInv

LEMMA RehomedShape ==
  ASSUME Shape, NEW x \in Lines \cup Departments
  PROVE  \A F \in Rehomed(x) : F \subseteq Lines \cup Departments
  BY DEF Rehomed, Shape

LEMMA DirectorySteps ==
  ASSUME AccessInv, NEW d \in Departments \cup {None},
         (d \in Departments /\ MoveDepartment(d)) \/ \E n \in Lines : SaveLine(n, d)
  PROVE  AccessInv'
  <1>1. foreign' \subseteq Lines \cup Departments
    BY RehomedShape DEF AccessInv, MoveDepartment, SaveLine
  <1>2. department' \in [Lines -> Departments \cup {None}]
    BY DEF AccessInv, Shape, MoveDepartment, SaveLine
  <1> QED BY <1>1, <1>2 DEF MoveDepartment, SaveLine, AccessInv, Shape, Assigned, WorkNeedsLine,
                            assignments, accessVars

LEMMA GrantLineStep ==
  ASSUME AccessInv, NEW k \in Callers, NEW n \in Lines, GrantLine(k, n)
  PROVE  AccessInv'
  <1>1. Shape'
    BY DEF GrantLine, AccessInv, Shape, directory, accessVars
  <1>2. Assigned'
    BY DEF GrantLine, AccessInv, Assigned, WorkNeedsLine
  <1> QED BY <1>1, <1>2 DEF AccessInv

LEMMA RevokeLineStep ==
  ASSUME AccessInv, NEW k \in Callers, NEW n \in Lines, RevokeLine(k, n)
  PROVE  AccessInv'
  <1>1. Shape'
    BY DEF RevokeLine, AccessInv, Shape, directory, accessVars
  <1>2. \A w \in work : w.user \in Callers /\ w.line \in Lines
    BY DEF AccessInv, Shape, Work
  <1>3. holds' \subseteq Callers \X Lines /\ loose' \subseteq Callers \X Lines
    BY <1>2 DEF RevokeLine, AccessInv, Assigned, Worked
  \* Work that loses its line is loose.
  <1>4. ASSUME NEW w \in work
        PROVE  <<w.user, w.line>> \in holds' \cup loose'
    <2>1. CASE w.user = k /\ w.line = n
      BY <2>1 DEF RevokeLine, Worked
    <2>2. CASE ~(w.user = k /\ w.line = n)
      <3>1. <<w.user, w.line>> # <<k, n>>
        BY <2>2
      <3> QED BY <3>1 DEF RevokeLine, AccessInv, Assigned, WorkNeedsLine
    <2> QED BY <2>1, <2>2
  <1>5. Assigned'
    BY <1>3, <1>4 DEF RevokeLine, Assigned, WorkNeedsLine
  <1> QED BY <1>1, <1>5 DEF AccessInv

LEMMA UpdateLinesStep ==
  ASSUME AccessInv, NEW k \in Callers, NEW D \in SUBSET Lines,
         NEW rows \in [D -> Divisions \cup {None}], UpdateLines(k, rows)
  PROVE  AccessInv'
  <1>1. work' \subseteq Work
    BY DEF UpdateLines, AccessInv, Shape
  <1>2. Shape'
    BY <1>1 DEF UpdateLines, AccessInv, Shape, directory, accessVars
  <1>3. holds' \subseteq Callers \X Lines /\ loose' \subseteq Callers \X Lines
    BY DEF UpdateLines, AccessInv, Assigned
  \* The caller's work is of the listed lines, all assigned; other callers keep theirs.
  <1>4. ASSUME NEW w \in work'
        PROVE  <<w.user, w.line>> \in holds' \cup loose'
    <2>1. CASE w.user = k
      <3>1. w.line \in DOMAIN rows
        BY <2>1 DEF UpdateLines
      <3> QED BY <2>1, <3>1 DEF UpdateLines
    <2>2. CASE w.user # k
      <3>1. w \in work
        BY <2>2 DEF UpdateLines
      <3>2. <<w.user, w.line>> \in holds \cup loose /\ <<w.user, w.line>>[1] # k
        BY <2>2, <3>1 DEF AccessInv, Assigned, WorkNeedsLine
      <3> QED BY <3>2 DEF UpdateLines
    <2> QED BY <2>1, <2>2
  <1>5. Assigned'
    BY <1>3, <1>4 DEF Assigned, WorkNeedsLine
  <1> QED BY <1>2, <1>5 DEF AccessInv

LEMMA AssignWorkStep ==
  ASSUME AccessInv, NEW w \in Work, AssignWork(w)
  PROVE  AccessInv'
  <1>1. Shape'
    BY DEF AssignWork, AccessInv, Shape, directory, accessVars
  <1>2. <<w.user, w.line>> \in Callers \X Lines
    BY DEF Work
  <1>3. Assigned'
    BY <1>2 DEF AssignWork, AccessInv, Assigned, WorkNeedsLine
  <1> QED BY <1>1, <1>3 DEF AccessInv

LEMMA UnassignWorkStep ==
  ASSUME AccessInv, NEW w \in Work, UnassignWork(w)
  PROVE  AccessInv'
  BY DEF UnassignWork, AccessInv, Shape, Assigned, WorkNeedsLine, Worked, directory, accessVars

LEMMA GroupSteps ==
  ASSUME AccessInv, NEW g \in Groups, CreateGroup(g) \/ DeleteGroup(g)
  PROVE  AccessInv'
  <1>1. CASE CreateGroup(g)
    BY <1>1 DEF CreateGroup, AccessInv, Shape, Assigned, WorkNeedsLine, directory, assignments
  <1>2. CASE DeleteGroup(g)
    <2>1. entries' \subseteq entries /\ IsFiniteSet(entries')
      BY <1>2, FS_Subset DEF DeleteGroup, AccessInv, Shape
    <2>2. grants' \subseteq Leads \X groups'
      BY <1>2 DEF DeleteGroup, AccessInv, Shape
    <2> QED BY <1>2, <2>1, <2>2 DEF DeleteGroup, AccessInv, Shape, Assigned, WorkNeedsLine,
                                    directory, assignments
  <1> QED BY <1>1, <1>2

LEMMA EntrySteps ==
  ASSUME AccessInv, NEW e \in Entry, AddEntry(e) \/ RemoveEntry(e)
  PROVE  AccessInv'
  <1>1. IsFiniteSet(entries')
    BY FS_AddElement, FS_RemoveElement DEF AddEntry, RemoveEntry, AccessInv, Shape
  <1> QED BY <1>1 DEF AddEntry, RemoveEntry, AccessInv, Shape, Assigned, WorkNeedsLine,
                      directory, assignments

LEMMA GrantSteps ==
  ASSUME AccessInv, NEW u \in Leads, NEW g \in Groups, GrantAccess(u, g) \/ RevokeAccess(u, g)
  PROVE  AccessInv'
  BY DEF GrantAccess, RevokeAccess, AccessInv, Shape, Assigned, WorkNeedsLine,
         directory, assignments

LEMMA DepartmentStep ==
  ASSUME AccessInv, NEW d \in Departments, DeleteDepartment(d)
  PROVE  AccessInv'
  <1>1. IsFiniteSet(entries') /\ entries' \subseteq entries
    BY FS_Subset DEF DeleteDepartment, AccessInv, Shape
  <1>2. /\ department' \in [Lines -> Departments \cup {None}]
        /\ \A n \in Lines : department'[n] \in {department[n], None}
    BY DEF DeleteDepartment, AccessInv, Shape
  <1> QED BY <1>1, <1>2 DEF DeleteDepartment, AccessInv, Shape, Assigned, WorkNeedsLine,
                            assignments

LEMMA DivisionStep ==
  ASSUME AccessInv, NEW v \in Divisions, DeleteDivision(v)
  PROVE  AccessInv'
  <1>1. IsFiniteSet(entries') /\ entries' \subseteq entries
    BY FS_Subset DEF DeleteDivision, AccessInv, Shape
  <1> QED BY <1>1 DEF DeleteDivision, AccessInv, Shape, Assigned, WorkNeedsLine, Worked,
                      directory

LEMMA AccessStep == AccessInv /\ [Next]_vars => AccessInv'
  <1>1. AccessInv /\ UNCHANGED vars => AccessInv'
    BY DEF vars, directory, assignments, accessVars, AccessInv, Shape, Assigned, WorkNeedsLine
  <1> QED BY <1>1, DirectorySteps, GrantLineStep, RevokeLineStep, UpdateLinesStep, AssignWorkStep,
             UnassignWorkStep, GroupSteps, EntrySteps, GrantSteps, DepartmentStep, DivisionStep
             DEF Next, AccountsOf

\* Whatever admins do, rows are typed, entries and grants are of groups that exist, and
\* work is of lines that are assigned, or that were revoked by themselves or never given.
THEOREM AccessSafe == Spec => []AccessInv
  BY AccessInitially, AccessStep, PTL DEF Spec

-----------------------------------------------------------------------------
(* What the grants of a lead resolve to.                                   *)

LEMMA RowOfEntry ==
  ASSUME NEW u, NEW e \in entries, <<u, e.group>> \in grants
  PROVE  Scope(e) \in Rows(u)
  BY DEF Rows

LEMMA RowIsOfEntry ==
  ASSUME NEW u, NEW x \in Rows(u), x # Nothing
  PROVE  \E e \in entries : <<u, e.group>> \in grants /\ x = Scope(e)
  BY DEF Rows

LEMMA ScopeFields ==
  ASSUME NEW e
  PROVE  /\ Scope(e).line = e.line /\ Scope(e).department = e.department
         /\ Scope(e).division = e.division
  BY DEF Scope

LEMMA EntryShape ==
  ASSUME NEW e \in Entry
  PROVE  /\ e.line \in Lines \cup {None} /\ e.department \in Departments \cup {None}
         /\ e.division \in Divisions \cup {None} /\ e.group \in Groups
         /\ (e.line = None) # (e.department = None)
  BY DEF Entry

LEMMA RowShape ==
  ASSUME Shape, NEW u, NEW x \in Rows(u)
  PROVE  /\ x.line \in Lines \cup {None} /\ x.department \in Departments \cup {None}
         /\ x.division \in Divisions \cup {None}
         /\ x # Nothing => (x.line = None) # (x.department = None)
  <1>1. CASE x = Nothing
    BY <1>1 DEF Nothing
  <1>2. CASE x # Nothing
    <2>1. PICK e \in entries : x = Scope(e)
      BY <1>2, RowIsOfEntry
    <2>2. e \in Entry
      BY DEF Shape
    <2> QED BY <2>1, <2>2, EntryShape, ScopeFields
  <1> QED BY <1>1, <1>2

\* A line is selected for a division by a row of that division that names it or names a
\* department, the line then being in some department that is named.
LEMMA SelectMeans ==
  ASSUME NEW u, NEW v, NEW n \in Lines
  PROVE  n \in Select(u, v) <=>
             \E x \in Rows(u) :
                 x.division = v /\ (x.line = n \/ (x.department # None /\ n \in ExpandedLines(u)))
  BY DEF Select

LEMMA ExpandedMeans ==
  ASSUME NEW u, NEW n \in Lines
  PROVE  n \in ExpandedLines(u) <=>
             /\ n \notin foreign /\ department[n] # None
             /\ \E x \in Rows(u) : x.department = department[n]
  BY DEF ExpandedLines, NamedDepartments

LEMMA SelectedLeads ==
  ASSUME NEW u, NEW w, Selected(u, w)
  PROVE  w.line \in Lines /\ w.line \in NamedLines(u) \cup ExpandedLines(u)
  <1>1. PICK v : w.line \in Select(u, v)
    BY DEF Selected
  <1>2. w.line \in Lines
    BY <1>1 DEF Select
  <1> QED BY <1>1, <1>2, SelectMeans, AccessAssumption DEF NamedLines

-----------------------------------------------------------------------------
(* The lists.                                                              *)

\* The filters by line and by division, which read different tables, lead from a caller's
\* work back to the caller.
THEOREM FiltersLeadBack == Spec => []FiltersMeet
  <1>1. ASSUME AccessInv, NEW k \in Callers, \A n \in Lines : <<k, n>> \notin loose,
               NEW v \in DivisionsOfUser(k)
        PROVE  \E n \in LinesOfUser(k) \cap LinesOfDivision(v) :
                   v \in DivisionsOfLine(n) /\ k \in UsersOfLine(n) \cap UsersOfDivision(v)
    <2>1. PICK w \in work : w.user = k /\ w.division = v
      BY <1>1 DEF DivisionsOfUser
    <2>2. w.line \in Lines
      BY <1>1 DEF AccessInv, Shape, Work
    <2>3. <<k, w.line>> \in holds
      BY <1>1, <2>1, <2>2 DEF AccessInv, Assigned, WorkNeedsLine
    <2>4. w.line \in LinesOfUser(k) \cap LinesOfDivision(v)
      BY <2>1, <2>2, <2>3 DEF LinesOfUser, LinesOfDivision
    <2>5. v \in DivisionsOfLine(w.line) /\ k \in UsersOfLine(w.line) \cap UsersOfDivision(v)
      BY <1>1, <2>1, <2>3 DEF DivisionsOfLine, UsersOfLine, UsersOfDivision
    <2> QED BY <2>4, <2>5
  <1>2. ASSUME AccessInv, NEW u \in Callers \cup Leads, NEW v \in Divisions
        PROVE  u \in UsersOfDivision(v) <=> v \in ProfileDivisions(u) \/ u \in UnrestrictedLeads
    <2>1. v # None /\ \A g : <<u, g>> \in grants => u \in Leads
      BY <1>2, AccessAssumption DEF AccessInv, Shape
    <2> QED BY <1>2, <2>1 DEF UsersOfDivision, ProfileDivisions, DivisionsOfUser, UnrestrictedLeads
  <1>3. AccessInv => FiltersMeet
    BY <1>1, <1>2 DEF FiltersMeet
  <1> QED BY AccessSafe, <1>3, PTL

\* The call logs of a lead show everyone its roster shows, but for who works a line of
\* another tenant that is in a granted department.
THEOREM RosterVisible == Spec => []RosterIsVisible
  <1>1. Shape => RosterIsVisible
    <2> SUFFICES ASSUME Shape, NEW u \in Leads, Scoped(u), NEW w \in Roster(u),
                        w.user \in Phones, ~FromAbroad(u, w)
                 PROVE  w.user \in Extensions(u)
      BY DEF RosterIsVisible
    <2>1. PICK e \in entries : <<u, e.group>> \in grants /\ Covers(e, w)
      BY DEF Roster
    <2>2. w \in work /\ w \in Work /\ w.line \in Lines /\ e \in Entry
      BY DEF Roster, Shape, Work
    <2>3. Scope(e) \in Rows(u)
      BY <2>1, RowOfEntry
    \* A department entry adds the line, which is not from abroad.
    <2>4. \/ e.line = w.line
          \/ e.department # None /\ w.line \in ExpandedLines(u)
      <3>1. CASE e.line # None
        BY <2>1, <3>1 DEF Covers
      <3>2. CASE e.line = None
        <4>1. department[w.line] # None /\ department[w.line] = e.department
          BY <2>1, <3>2 DEF Covers
        <4>2. department[w.line] \in NamedDepartments(u)
          BY <2>3, <4>1, ScopeFields DEF NamedDepartments
        <4>3. w.line \notin foreign
          BY <4>2 DEF FromAbroad
        <4> QED BY <2>2, <2>3, <4>1, <4>3, ExpandedMeans, ScopeFields
      <3> QED BY <3>1, <3>2
    <2>5. e.division \in {None, w.division}
      BY <2>1 DEF Covers
    <2>6. w.line \in Select(u, e.division)
      BY <2>2, <2>3, <2>4, SelectMeans, ScopeFields
    <2>7. Matches(u, w)
      BY <2>5, <2>6 DEF Matches, Selected
    <2>8. Rows(u) # {Nothing}
      BY <2>2, <2>3, EntryShape, ScopeFields DEF Nothing
    <2> QED BY <2>2, <2>7, <2>8 DEF Extensions
  <1> QED BY AccessSafe, <1>1, PTL DEF AccessInv

\* The roster of a lead shows everyone its call logs show, unless two departments are
\* granted for different divisions or no entry leads to a line.
THEOREM VisibleOnRoster == Spec => []VisibleIsOnRoster
  <1>1. Shape => VisibleIsOnRoster
    <2> SUFFICES ASSUME Shape, NEW u \in Leads, Scoped(u), ~Mixed(u),
                        Selects(u) \/ Rows(u) = {Nothing}, NEW k \in Extensions(u)
                 PROVE  k \in OnRoster(u)
      BY DEF VisibleIsOnRoster
    <2>1. PICK w \in work : Matches(u, w) /\ w.user = k /\ k \in Phones /\ Rows(u) # {Nothing}
      BY DEF Extensions
    <2>2. w \in Work /\ w.line \in Lines
      BY DEF Shape, Work
    <2>3. PICK x \in Rows(u) :
              /\ x.division \in {None, w.division}
              /\ \/ x.line = w.line
                 \/ x.department # None /\ w.line \in ExpandedLines(u)
      BY <2>1, <2>2, SelectMeans DEF Matches, Selected
    \* Some row of the division names the line or the department the line is in.
    <2>4. \E y \in Rows(u) :
              /\ y.division \in {None, w.division}
              /\ y.line = w.line \/ (department[w.line] # None /\ y.department = department[w.line])
      <3>1. CASE x.line = w.line
        BY <2>3, <3>1
      <3>2. CASE x.line # w.line
        <4>1. PICK y \in Rows(u) : department[w.line] # None /\ y.department = department[w.line]
          BY <2>2, <2>3, <3>2, ExpandedMeans
        <4>2. x.department # y.department => x.division = y.division
          BY <2>3, <3>2, <4>1 DEF Mixed
        <4> QED BY <2>3, <3>2, <4>1, <4>2
      <3> QED BY <3>1, <3>2
    <2>5. PICK y \in Rows(u) :
              /\ y.division \in {None, w.division}
              /\ y.line = w.line \/ (department[w.line] # None /\ y.department = department[w.line])
      BY <2>4
    <2>6. y # Nothing
      BY <2>2, <2>5, AccessAssumption DEF Nothing
    <2>7. PICK e \in entries : <<u, e.group>> \in grants /\ y = Scope(e)
      BY <2>6, RowIsOfEntry
    <2>8. e \in Entry
      BY DEF Shape
    <2>9. Covers(e, w)
      <3>1. /\ e.division \in {None, w.division}
            /\ e.line = w.line \/ (department[w.line] # None /\ e.department = department[w.line])
        BY <2>5, <2>7, ScopeFields
      <3>2. CASE e.line # None
        BY <2>8, <3>1, <3>2, EntryShape DEF Covers
      <3>3. CASE e.line = None
        BY <2>2, <3>1, <3>3, AccessAssumption DEF Covers
      <3> QED BY <3>2, <3>3
    <2> QED BY <2>1, <2>7, <2>9 DEF Roster, OnRoster
  <1> QED BY AccessSafe, <1>1, PTL DEF AccessInv

\* The lists a lead reads fit together.
THEOREM ListsFit == Spec => []ListsAgree
  <1>1. ASSUME Shape, NEW u \in Leads, Scoped(u), Selects(u), NEW k \in ListedUsers(u)
        PROVE  \E w \in work : w.user = k /\ w.line \in ListedLines(u) \cup foreign
    <2>1. PICK w \in work : w.user = k /\ Matches(u, w)
      BY <1>1 DEF ListedUsers, Extensions
    <2>2. w.line \in Lines /\ w.line \in NamedLines(u) \cup ExpandedLines(u)
      BY <1>1, <2>1, SelectedLeads DEF Matches
    <2> QED BY <1>1, <2>1, <2>2 DEF ListedLines, LineIds
  <1>2. ASSUME Shape, NEW u \in Leads, NEW n \in ListedLines(u), department[n] # None
        PROVE  department[n] \in ListedDepartments(u) \cup foreign
    <2>1. n \in Lines /\ n \notin foreign /\ n \in LineIds(u)
      BY <1>2 DEF ListedLines
    <2>2. department[n] \in Departments
      BY <1>2, <2>1 DEF Shape
    <2>3. department[n] \in DepartmentIds(u)
      <3>1. CASE ~Scoped(u)
        BY <2>2, <3>1 DEF DepartmentIds
      <3>2. CASE Scoped(u) /\ n \in NamedLines(u)
        BY <1>2, <3>2 DEF DepartmentIds
      <3>3. CASE Scoped(u) /\ n \in ExpandedLines(u)
        BY <3>3 DEF DepartmentIds, ExpandedLines
      <3> QED BY <2>1, <3>1, <3>2, <3>3 DEF LineIds
    <2> QED BY <2>2, <2>3 DEF ListedDepartments
  <1>3. ASSUME Shape, NEW u \in Leads, Scoped(u), Nothing \notin Rows(u), NEW v \in Divisions
        PROVE  u \in UsersOfDivision(v) <=> v \in ListedDivisions(u) \cup DivisionsOfUser(u)
    <2>1. u \in UsersOfDivision(v) <=>
              \/ v \in DivisionsOfUser(u)
              \/ \E e \in entries : <<u, e.group>> \in grants /\ e.division \in {v, None}
      BY <1>3 DEF UsersOfDivision, DivisionsOfUser, UnrestrictedLeads
    <2>2. v \in ListedDivisions(u) <=> \E x \in Rows(u) : x.division \in {v, None}
      BY <1>3 DEF ListedDivisions, DivisionIds
    <2>3. (\E x \in Rows(u) : x.division \in {v, None}) <=>
              \E e \in entries : <<u, e.group>> \in grants /\ e.division \in {v, None}
      <3>1. ASSUME NEW x \in Rows(u), x.division \in {v, None}
            PROVE  \E e \in entries : <<u, e.group>> \in grants /\ e.division \in {v, None}
        <4>1. PICK e \in entries : <<u, e.group>> \in grants /\ x = Scope(e)
          BY <1>3, RowIsOfEntry
        <4> QED BY <3>1, <4>1, ScopeFields
      <3>2. ASSUME NEW e \in entries, <<u, e.group>> \in grants, e.division \in {v, None}
            PROVE  \E x \in Rows(u) : x.division \in {v, None}
        BY <3>2, RowOfEntry, ScopeFields
      <3> QED BY <3>1, <3>2
    <2> QED BY <2>1, <2>2, <2>3
  <1>4. AccessInv => ListsAgree
    BY <1>1, <1>2, <1>3 DEF AccessInv, ListsAgree
  <1> QED BY AccessSafe, <1>4, PTL

-----------------------------------------------------------------------------
(* Taking away.                                                            *)

\* A step that adds no entry leaves none that was not there.
LEMMA RemovingEntries ==
  ASSUME AccessInv, Next, Removing
  PROVE  entries' \subseteq entries
  <1>1. ASSUME NEW e \in Entry, AddEntry(e)
        PROVE  e \in entries
    <2>1. Cardinality(entries \cup {e}) <= Cardinality(entries)
      BY <1>1 DEF AddEntry, Removing
    <2>2. Cardinality(entries) \in Nat
      BY FS_CardinalityType DEF AccessInv, Shape
    <2>3. Cardinality(entries \cup {e}) =
              IF e \in entries THEN Cardinality(entries) ELSE Cardinality(entries) + 1
      BY FS_AddElement DEF AccessInv, Shape
    <2> QED BY <2>1, <2>2, <2>3
  <1> QED BY <1>1 DEF Next, AccountsOf, MoveDepartment, SaveLine, DeleteDepartment, GrantLine,
                      RevokeLine, UpdateLines, AssignWork, UnassignWork, CreateGroup, DeleteGroup,
                      AddEntry, RemoveEntry, GrantAccess, RevokeAccess, DeleteDivision, accessVars

\* Fewer entries and grants give fewer rows, but for the row of nulls.
LEMMA FewerRows ==
  ASSUME entries' \subseteq entries, grants' \subseteq grants, NEW u, NEW x \in Rows(u)', x # Nothing
  PROVE  x \in Rows(u)
  <1>1. PICK e \in entries' : <<u, e.group>> \in grants' /\ x = Scope(e)
    BY DEF Rows
  <1> QED BY <1>1, RowOfEntry

LEMMA FewerLines ==
  ASSUME AccessInv, Removing, entries' \subseteq entries, NEW u, NEW v,
         NEW n \in Select(u, v)'
  PROVE  n \in Select(u, v) /\ Rows(u) # {Nothing}
  <1>1. n \in Lines /\ n # None
    BY AccessAssumption DEF Select
  <1>2. PICK x \in Rows(u)' :
            x.division = v /\ (x.line = n \/ (x.department # None /\ n \in ExpandedLines(u)'))
    BY <1>1 DEF Select
  <1>3. x # Nothing
    BY <1>1, <1>2 DEF Nothing
  <1>4. x \in Rows(u)
    BY <1>3, FewerRows DEF Removing
  <1>5. n \in ExpandedLines(u)' => n \in ExpandedLines(u)
    <2> SUFFICES ASSUME n \in ExpandedLines(u)' PROVE n \in ExpandedLines(u)
      OBVIOUS
    <2>1. /\ n \notin foreign /\ department'[n] # None
          /\ \E y \in Rows(u)' : y.department = department'[n]
      BY <1>1 DEF ExpandedLines, NamedDepartments, Removing
    <2>2. PICK y \in Rows(u)' : y.department = department'[n]
      BY <2>1
    <2>3. department'[n] = department[n]
      BY <1>1, <2>1 DEF Removing
    <2>4. y # Nothing
      BY <2>1, <2>2 DEF Nothing
    <2>5. y \in Rows(u)
      BY <2>4, FewerRows DEF Removing
    <2> QED BY <1>1, <2>1, <2>2, <2>3, <2>5, ExpandedMeans
  <1> QED BY <1>1, <1>2, <1>3, <1>4, <1>5, SelectMeans

\* No removal shows a lead a caller it did not see, unless it takes the last grant or the
\* last line the grants lead to.
THEOREM RemovalsNarrow == Spec => RemovingNarrows
  <1>1. AccessInv /\ AccessInv' /\ [Next]_vars =>
            [Removing =>
                 \A u \in Leads :
                     (grants' \cap ({u} \X Groups) # {} /\ (Selects(u)' \/ Rows(u)' = {Nothing})) =>
                         Extensions(u)' \subseteq Extensions(u)]_<<directory, work, accessVars>>
    <2> SUFFICES ASSUME AccessInv, AccessInv', [Next]_vars,
                        <<directory, work, accessVars>>' # <<directory, work, accessVars>>,
                        Removing, NEW u \in Leads, grants' \cap ({u} \X Groups) # {},
                        Selects(u)' \/ Rows(u)' = {Nothing}, NEW k \in Extensions(u)'
                 PROVE  k \in Extensions(u)
      OBVIOUS
    <2>1. Next
      BY DEF vars, assignments, directory, accessVars
    <2>2. entries' \subseteq entries
      BY <2>1, RemovingEntries
    \* A grant that is left keeps the lead scoped.
    <2>3. Scoped(u)'
      <3>1. PICK g : <<u, g>> \in grants'
        <4>1. PICK p \in grants' : p \in {u} \X Groups
          BY Zenon
        <4>2. \E g \in Groups : p = <<u, g>>
          BY <4>1
        <4> QED BY <4>1, <4>2
      <3>2. g \in groups'
        BY <3>1 DEF AccessInv, Shape
      <3>3. CASE \E e \in entries' : e.group = g
        BY <3>1, <3>3 DEF Scoped, Rows
      <3>4. CASE \A e \in entries' : e.group # g
        BY <3>1, <3>2, <3>4 DEF Scoped, Rows
      <3> QED BY <3>3, <3>4
    <2>4. k \in Phones /\ Rows(u)' # {Nothing}
          /\ \E w \in work' : w.user = k /\ Matches(u, w)'
      BY <2>3 DEF Extensions
    <2>5. PICK w \in work' : w.user = k /\ Matches(u, w)'
      BY <2>4
    <2>6. w \in work
      BY DEF Removing
    <2>7. PICK v : v \in {w.division, None} /\ w.line \in Select(u, v)'
      BY <2>4, <2>5 DEF Matches, Selected
    <2>8. w.line \in Select(u, v) /\ Rows(u) # {Nothing}
      BY <2>2, <2>7, FewerLines
    <2>9. Matches(u, w)
      BY <2>7, <2>8 DEF Matches, Selected
    <2> QED BY <2>4, <2>5, <2>6, <2>8, <2>9 DEF Extensions
  <1> QED BY AccessSafe, <1>1, PTL DEF Spec, RemovingNarrows

=============================================================================
