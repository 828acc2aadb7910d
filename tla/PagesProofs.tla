---------------------------- MODULE PagesProofs -----------------------------
(***************************************************************************)
(* Theorems about the pages that are read: the labels that are cached, the *)
(* dashboard, the listings of faxes and recordings, and who is on a call.  *)
(***************************************************************************)
EXTENDS Labels, Dashboard, Listings, Presence, FiniteSetTheorems, WellFoundedInduction, TLAPS

(***************************************************************************)
(* The cached labels are current, for any number of changes and readers.   *)
(*                                                                         *)
(* The invariant speaks of what a reader has built and not yet cached too, *)
(* and of the changes that are saved and not yet committed: what a map     *)
(* lacks of either was saved silently or while a map was being built.      *)
(***************************************************************************)

Pending == changed \cup open

Covered(map) == Pending \ map \subseteq silent \cup exposed

LabelsInv ==
    /\ DOMAIN building = Builders
    /\ labelMap # NoMap => Covered(labelMap)
    /\ \A b \in Builders : building[b] # NoMap => Covered(building[b])

LEMMA LabelsInitially == LabelsInit => LabelsInv
  BY DEF LabelsInit, LabelsInv, Covered, Pending

LEMMA LabelsStep == LabelsInv /\ [LabelsNext]_labelVars => LabelsInv'
  <1> SUFFICES ASSUME LabelsInv, [LabelsNext]_labelVars
               PROVE  LabelsInv'
    OBVIOUS
  <1> USE DEF LabelsInv, Covered, Pending
  <1>1. ASSUME NEW c \in Changes, SaveNamed(c)
        PROVE  LabelsInv'
    \* The map is gone, and one that is being built lacks the change.
    <2>1. CASE Building
      BY <1>1, <2>1 DEF SaveNamed
    <2>2. CASE ~Building
      BY <1>1, <2>2 DEF SaveNamed, Building
    <2> QED BY <2>1, <2>2
  <1>2. ASSUME NEW c \in Changes, SaveSilently(c)
        PROVE  LabelsInv'
    BY <1>2 DEF SaveSilently
  <1>3. ASSUME NEW c \in Changes, CommitNames(c)
        PROVE  LabelsInv'
    BY <1>3 DEF CommitNames
  <1>4. ASSUME NEW c \in Changes, RollbackNames(c)
        PROVE  LabelsInv'
    BY <1>4 DEF RollbackNames
  <1>5. ASSUME NEW b \in Builders, Build(b)
        PROVE  LabelsInv'
    \* The new map has all that is committed, and what is open is exposed.
    <2>1. building'[b] = changed /\ \A x \in Builders \ {b} : building'[x] = building[x]
      BY <1>5 DEF Build
    <2>2. Covered(changed)'
      BY <1>5 DEF Build
    <2> QED BY <1>5, <2>1, <2>2 DEF Build
  <1>6. ASSUME NEW b \in Builders, Cache(b)
        PROVE  LabelsInv'
    BY <1>6 DEF Cache
  <1>7. CASE ForgetMap
    BY <1>7 DEF ForgetMap
  <1>8. CASE UNCHANGED labelVars
    BY <1>8 DEF labelVars
  <1> QED BY <1>1, <1>2, <1>3, <1>4, <1>5, <1>6, <1>7, <1>8 DEF LabelsNext

\* However readers and changes interleave, the cached map lacks no committed change but
\* those that dropped nothing and those it was built across.
THEOREM LabelsAreCurrent == LabelsSpec => []LabelsCurrent
  <1>1. LabelsInv => LabelsCurrent
    BY DEF LabelsInv, Covered, Pending, LabelsCurrent
  <1> QED BY LabelsInitially, LabelsStep, <1>1, PTL DEF LabelsSpec

-----------------------------------------------------------------------------

(***************************************************************************)
(* The dashboard shows what its viewer asked for and may see, for any      *)
(* extensions and grants.                                                  *)
(*                                                                         *)
(* Until the calls are out no section is shown; then every section has     *)
(* asked for the extensions of the fan-out, which is what the viewer may   *)
(* see of what was wanted, and one that is shown adds up those that        *)
(* answered.                                                               *)
(***************************************************************************)

Answered(s) == {x \in DOMAIN reply[s] : reply[s][x] = "ok"}

\* A section stands for the calls made, and once it is shown for those that succeeded.
SectionInv(s) ==
    /\ DOMAIN reply[s] = Targets(fan)
    /\ \A x \in DOMAIN reply[s] : reply[s][x] \in {"waiting", "ok", "failed"}
    /\ shown[s] \notin {NotYet, Error} =>
           /\ \A x \in DOMAIN reply[s] : reply[s][x] # "waiting"
           /\ Answered(s) # {}
           /\ shown[s] = UNION {Counts(x) : x \in Answered(s)}

DashInv ==
    /\ viewer \in Viewer
    /\ wanted \in (SUBSET Exts) \cup {Everyone}
    /\ DOMAIN reply = Sections /\ DOMAIN shown = Sections
    /\ reply = [s \in Sections |-> reply[s]]
    /\ shown = [s \in Sections |-> shown[s]]
    /\ IF reply = NoCalls THEN \A s \in Sections : shown[s] \in {NotYet, Error}
       ELSE fan = Requested(viewer, wanted) /\ \A s \in Sections : SectionInv(s)

LEMMA DashInitially == DashInit => DashInv
  BY DEF DashInit, DashInv, NoCalls

LEMMA FanOutStep ==
  ASSUME DashInv, FanOut
  PROVE  DashInv'
  <1>1. /\ fan' = Requested(viewer, wanted)
        /\ reply' = [s \in Sections |-> [x \in Targets(fan') |-> "waiting"]]
        /\ shown' = IF fan' = {} THEN [s \in Sections |-> Error] ELSE shown
        /\ \A s \in Sections : shown[s] = NotYet
        /\ UNCHANGED <<viewer, wanted>>
    BY DEF FanOut
  <1>2. Requested(viewer, wanted)' = Requested(viewer, wanted)
    BY <1>1 DEF Requested, Allowed
  <1>3. \A s \in Sections : shown'[s] \in {NotYet, Error}
    BY <1>1
  <1>4. \A s \in Sections : SectionInv(s)'
    BY <1>1, <1>3 DEF SectionInv
  <1>5. /\ DOMAIN reply' = Sections /\ DOMAIN shown' = Sections
        /\ reply' = [s \in Sections |-> reply'[s]]
        /\ shown' = [s \in Sections |-> shown'[s]]
    BY <1>1 DEF DashInv
  <1> QED BY <1>1, <1>2, <1>3, <1>4, <1>5 DEF DashInv

LEMMA AnswerStep ==
  ASSUME DashInv, NEW s \in Sections, NEW x \in DOMAIN reply[s], Answer(s, x)
  PROVE  DashInv'
  <1>1. PICK a \in {"ok", "failed"} : reply' = [reply EXCEPT ![s][x] = a]
    BY DEF Answer
  <1>2. /\ reply[s][x] = "waiting"
        /\ UNCHANGED <<viewer, wanted, fan, shown>>
    BY DEF Answer
  <1>3. reply # NoCalls
    BY DEF NoCalls
  <1>4. /\ \A t \in Sections \ {s} : reply'[t] = reply[t]
        /\ reply'[s] = [reply[s] EXCEPT ![x] = a]
        /\ DOMAIN reply' = Sections
        /\ reply' = [t \in Sections |-> reply'[t]]
    BY <1>1 DEF DashInv
  <1>5. reply' # NoCalls
    <2>1. DOMAIN reply'[s] # {}
      BY <1>4
    <2> QED BY <2>1 DEF NoCalls
  <1>6. shown[s] \in {NotYet, Error}
    BY <1>2, <1>3 DEF DashInv, SectionInv
  <1>7. SectionInv(s)'
    BY <1>2, <1>3, <1>4, <1>6 DEF DashInv, SectionInv
  <1>8. \A t \in Sections \ {s} : SectionInv(t)'
    BY <1>2, <1>3, <1>4 DEF DashInv, SectionInv, Answered
  <1> QED BY <1>2, <1>3, <1>4, <1>5, <1>7, <1>8 DEF DashInv, Requested, Allowed

LEMMA MergeStep ==
  ASSUME DashInv, NEW s \in Sections, MergeSection(s)
  PROVE  DashInv'
  <1>1. /\ shown' = [shown EXCEPT ![s] = IF Answered(s) = {} THEN Error
                                         ELSE UNION {Counts(x) : x \in Answered(s)}]
        /\ reply # NoCalls
        /\ \A x \in DOMAIN reply[s] : reply[s][x] # "waiting"
        /\ UNCHANGED <<viewer, wanted, fan, reply>>
    BY DEF MergeSection, Answered
  <1>2. \A t \in Sections :
            shown'[t] = IF t # s THEN shown[t]
                        ELSE IF Answered(s) = {} THEN Error
                        ELSE UNION {Counts(x) : x \in Answered(s)}
    BY <1>1 DEF DashInv
  <1>3. \A t \in Sections : SectionInv(t)'
    BY <1>1, <1>2 DEF DashInv, SectionInv, Answered
  <1>4. DOMAIN shown' = Sections /\ shown' = [t \in Sections |-> shown'[t]]
    BY <1>1 DEF DashInv
  <1> QED BY <1>1, <1>3, <1>4 DEF DashInv, Requested, Allowed

LEMMA ViewerIs ==
  ASSUME NEW v \in Viewer
  PROVE  /\ v.role \in {"superuser", "admin", "user"}
         /\ v.own \in Exts \cup {NoNumber}
         /\ (v.grants \subseteq Exts \/ (v.role = "admin" /\ v.grants = Everyone))
  <1>1. CASE v \in [role : {"superuser", "admin", "user"}, own : Exts \cup {NoNumber},
                    grants : SUBSET Exts]
    <2>1. v.grants \in SUBSET Exts
      BY <1>1
    <2>2. v.role \in {"superuser", "admin", "user"} /\ v.own \in Exts \cup {NoNumber}
      BY <1>1
    <2> QED BY <2>1, <2>2
  <1>2. CASE v \in [role : {"admin"}, own : {NoNumber}, grants : {Everyone}]
    BY <1>2
  <1> QED BY <1>1, <1>2 DEF Viewer, Names

\* The calls that are made: one each for what is wanted of what may be seen, or one for all.
LEMMA FanIsScope ==
  ASSUME DashInv, reply # NoCalls, MaySee(viewer) \notin {{}, {NoNumber}}
  PROVE  \/ fan = Everyone /\ wanted = Everyone /\ MaySee(viewer) = Exts
         \/ fan \subseteq Exts /\ \A x : x \in fan <=> x \in MaySee(viewer) /\ Wants(x)
  <1> USE DashboardAssumption
  <1>1. fan = Requested(viewer, wanted) /\ wanted \in (SUBSET Exts) \cup {Everyone}
    BY DEF DashInv
  <1>2. \/ Allowed(viewer) = Everyone /\ MaySee(viewer) = Exts
        \/ Allowed(viewer) = MaySee(viewer) /\ MaySee(viewer) \subseteq Exts
    <2>1. /\ viewer.role \in {"superuser", "admin", "user"}
          /\ viewer.own \in Exts \cup {NoNumber}
          /\ (viewer.grants \subseteq Exts \/ (viewer.role = "admin" /\ viewer.grants = Everyone))
      BY ViewerIs DEF DashInv
    <2>2. CASE viewer.role = "superuser"
      BY <2>2 DEF Allowed, MaySee
    <2>3. CASE viewer.role = "user"
      BY <2>1, <2>3 DEF Allowed, MaySee
    <2>4. CASE viewer.role = "admin"
      <3>1. Everyone # {} /\ Everyone \notin SUBSET Exts
        OBVIOUS
      <3> QED BY <2>1, <2>4, <3>1 DEF Allowed, MaySee
    <2> QED BY <2>1, <2>2, <2>3, <2>4
  <1>3. CASE wanted = Everyone
    BY <1>1, <1>2, <1>3 DEF Requested, Wants
  <1>4. CASE wanted # Everyone
    <2>1. fan = IF Allowed(viewer) = Everyone THEN wanted ELSE wanted \cap Allowed(viewer)
      BY <1>1, <1>4 DEF Requested
    <2>2. \A x : Wants(x) <=> x \in wanted
      BY <1>4 DEF Wants
    <2>3. wanted \subseteq Exts
      BY <1>1, <1>4
    <2>4. fan \subseteq Exts /\ \A x : x \in fan <=> x \in MaySee(viewer) /\ x \in wanted
      BY <1>2, <2>1, <2>3
    <2> QED BY <2>2, <2>4
  <1> QED BY <1>3, <1>4

LEMMA ScopeShown == DashInv => DashboardInScope
  <1> SUFFICES ASSUME DashInv, NEW s \in Sections, shown[s] \notin {NotYet, Error},
                      MaySee(viewer) \notin {{}, {NoNumber}}
               PROVE  shown[s] = {x \in MaySee(viewer) :
                                      /\ Wants(x)
                                      /\ \A y \in DOMAIN reply[s] :
                                             reply[s][y] = "failed" => x \notin Counts(y)}
    BY DEF DashboardInScope
  <1> USE DashboardAssumption
  <1>1. reply # NoCalls /\ SectionInv(s)
    BY DEF DashInv
  <1>2. /\ DOMAIN reply[s] = Targets(fan)
        /\ \A x \in DOMAIN reply[s] : reply[s][x] \in {"ok", "failed"}
        /\ Answered(s) # {}
        /\ shown[s] = UNION {Counts(x) : x \in Answered(s)}
    BY <1>1 DEF SectionInv
  <1>3. CASE fan = Everyone /\ wanted = Everyone /\ MaySee(viewer) = Exts
    <2>1. DOMAIN reply[s] = {Everyone} /\ Answered(s) = {Everyone}
      BY <1>2, <1>3 DEF Targets, Answered
    <2>2. shown[s] = Exts
      BY <1>2, <2>1 DEF Counts
    <2> QED BY <1>3, <2>1, <2>2 DEF Answered, Wants
  <1>4. CASE fan \subseteq Exts /\ \A x : x \in fan <=> x \in MaySee(viewer) /\ Wants(x)
    <2>1. DOMAIN reply[s] = fan /\ \A x \in fan : Counts(x) = {x}
      BY <1>2, <1>4 DEF Targets, Counts
    <2>2. shown[s] = Answered(s)
      BY <1>2, <2>1 DEF Answered
    <2>3. \A x \in MaySee(viewer) :
              (Wants(x) /\ \A y \in fan : reply[s][y] = "failed" => x \notin Counts(y))
                  <=> x \in Answered(s)
      BY <1>2, <1>4, <2>1 DEF Answered
    <2> QED BY <1>4, <2>1, <2>2, <2>3 DEF Answered
  <1> QED BY <1>1, <1>3, <1>4, FanIsScope

\* A section shows what the viewer asked for and may see, whatever calls fail, for any
\* extensions, grants and requests: unless the viewer may see no extension at all.
THEOREM ScopeIsKept == DashSpec => []DashboardInScope
  <1>1. DashInv /\ [DashNext]_dashVars => DashInv'
    <2>1. CASE UNCHANGED dashVars
      BY <2>1 DEF dashVars, DashInv, SectionInv, Answered, Requested, Allowed
    <2> QED BY <2>1, FanOutStep, AnswerStep, MergeStep DEF DashNext
  <1> QED BY DashInitially, <1>1, ScopeShown, PTL DEF DashSpec

-----------------------------------------------------------------------------

(***************************************************************************)
(* Listings of faxes and recordings are complete, for any numbers of rows  *)
(* and of lines.                                                           *)
(*                                                                         *)
(* The pages of faxes are cut by rank: how many rows are newer than a row. *)
(* The invariant says of the pages fetched so far that no row above the    *)
(* next offset is missing as long as none was deleted, and that none is    *)
(* there twice as long as none came. The counting lemmas first say how     *)
(* many rows the newest n are. The recordings of several lines are merged  *)
(* from the newest of each, which loses none of the newest of all.         *)
(***************************************************************************)

\* The n newest rows of S, or all of them if there are fewer.
Top(S, n) == {x \in S : Newer(S, x) < n}

Above(S, x) == {y \in S : y > x}

RowSets == SUBSET (1 .. MaxRow)

LEMMA RowSetsAreFinite ==
  ASSUME NEW S \in RowSets
  PROVE  IsFiniteSet(S)
  <1>1. 1 \in Int /\ MaxRow \in Int /\ S \in SUBSET (1 .. MaxRow)
    BY ListingsAssumption DEF RowSets
  <1>2. IsFiniteSet(1 .. MaxRow)
    BY <1>1, FS_Interval
  <1> QED BY <1>1, <1>2, FS_Subset

LEMMA NewerIsNatural ==
  ASSUME NEW S \in RowSets, NEW x
  PROVE  /\ Newer(S, x) \in Nat
         /\ IsFiniteSet(Above(S, x)) /\ Newer(S, x) = Cardinality(Above(S, x))
  <1>1. IsFiniteSet(S) /\ Above(S, x) \subseteq S
    BY RowSetsAreFinite DEF Above
  <1> QED BY <1>1, FS_Subset, FS_CardinalityType DEF Newer, Above

LEMMA NewerGrows ==
  ASSUME NEW S \in RowSets, NEW T \in RowSets, S \subseteq T, NEW x
  PROVE  Newer(S, x) <= Newer(T, x)
  <1>1. Above(S, x) \subseteq Above(T, x)
    BY DEF Above
  <1> QED BY <1>1, NewerIsNatural, FS_Subset

LEMMA NewerOrders ==
  ASSUME NEW S \in RowSets, NEW x \in S, NEW y \in S, x < y
  PROVE  Newer(S, y) < Newer(S, x)
  <1>1. x \in Nat /\ y \in Nat /\ \A z \in S : z \in Nat
    BY ListingsAssumption DEF RowSets
  <1>2. Above(S, y) \cup {y} \subseteq Above(S, x)
    <2> SUFFICES ASSUME NEW z \in Above(S, y) \cup {y}
                 PROVE  z \in Above(S, x)
      OBVIOUS
    <2>1. z \in S /\ (z > y \/ z = y)
      BY DEF Above
    <2>2. z \in Nat /\ z > x
      BY <1>1, <2>1
    <2> QED BY <2>1, <2>2 DEF Above
  <1>3. y \notin Above(S, y)
    BY <1>1 DEF Above
  <1>4. /\ IsFiniteSet(Above(S, y)) /\ IsFiniteSet(Above(S, x))
        /\ Newer(S, y) = Cardinality(Above(S, y)) /\ Newer(S, x) = Cardinality(Above(S, x))
        /\ Newer(S, y) \in Nat /\ Newer(S, x) \in Nat
    BY NewerIsNatural
  <1>5. Cardinality(Above(S, y) \cup {y}) = Newer(S, y) + 1
    BY <1>3, <1>4, FS_AddElement
  <1>6. Cardinality(Above(S, y) \cup {y}) <= Newer(S, x)
    BY <1>2, <1>4, FS_Subset
  <1> QED BY <1>4, <1>5, <1>6

LEMMA LeastRow ==
  ASSUME NEW S \in RowSets, S # {}
  PROVE  \E x \in S : \A y \in S : x <= y
  <1>1. S \subseteq Nat
    BY ListingsAssumption DEF RowSets
  <1>2. PICK x \in S : \A y \in S : ~ (<<y, x>> \in OpToRel(<, Nat))
    BY <1>1, WFMin, NatLessThanWellFounded
  <1>3. ASSUME NEW y \in S
        PROVE  x <= y
    <2>1. x \in Nat /\ y \in Nat
      BY <1>1
    <2>2. ~(y < x)
      BY <1>2, <2>1 DEF OpToRel
    <2> QED BY <2>1, <2>2
  <1> QED BY <1>3

LEMMA GreatestRow ==
  ASSUME NEW S \in RowSets, S # {}
  PROVE  \E x \in S : \A y \in S : y <= x
  <1> DEFINE T == {n \in Nat : \E x \in S : n = MaxRow - x}
  <1>1. \A x \in S : x \in Nat /\ MaxRow - x \in Nat
    BY ListingsAssumption DEF RowSets
  <1>2. T \subseteq Nat /\ T # {}
    BY <1>1
  <1>3. PICK n \in T : \A m \in T : ~ (<<m, n>> \in OpToRel(<, Nat))
    BY <1>2, WFMin, NatLessThanWellFounded
  <1>4. PICK x \in S : n = MaxRow - x
    BY <1>3
  <1>5. ASSUME NEW y \in S
        PROVE  y <= x
    <2>1. MaxRow - y \in T /\ MaxRow - y \in Nat /\ n \in Nat
      BY <1>1
    <2>2. ~(MaxRow - y < n)
      BY <1>3, <2>1 DEF OpToRel
    <2> QED BY <1>1, <1>4, <2>1, <2>2, ListingsAssumption
  <1> QED BY <1>5

\* The n newest are no more than n.
LEMMA TopAtMost ==
  ASSUME NEW S \in RowSets, NEW n \in Nat
  PROVE  IsFiniteSet(Top(S, n)) /\ Cardinality(Top(S, n)) \in Nat /\ Cardinality(Top(S, n)) <= n
  <1>1. Top(S, n) \in RowSets /\ IsFiniteSet(Top(S, n)) /\ Cardinality(Top(S, n)) \in Nat
    BY RowSetsAreFinite, FS_CardinalityType DEF RowSets, Top
  <1>2. CASE Top(S, n) = {}
    BY <1>1, <1>2, FS_EmptySet
  <1>3. CASE Top(S, n) # {}
    <2>1. PICK x \in Top(S, n) : \A y \in Top(S, n) : x <= y
      BY <1>1, <1>3, LeastRow
    <2>2. x \in S /\ Newer(S, x) < n /\ \A y \in S : y \in Nat
      BY <2>1, ListingsAssumption DEF Top, RowSets
    <2>3. Top(S, n) \subseteq Above(S, x) \cup {x}
      BY <2>1, <2>2 DEF Above, Top
    <2>4. /\ IsFiniteSet(Above(S, x)) /\ Newer(S, x) = Cardinality(Above(S, x))
          /\ Newer(S, x) \in Nat
      BY NewerIsNatural
    <2>5. /\ IsFiniteSet(Above(S, x) \cup {x})
          /\ Cardinality(Above(S, x) \cup {x}) <= Newer(S, x) + 1
          /\ Cardinality(Above(S, x) \cup {x}) \in Nat
      <3>1. /\ IsFiniteSet(Above(S, x) \cup {x})
            /\ Cardinality(Above(S, x) \cup {x})
                   = IF x \in Above(S, x) THEN Cardinality(Above(S, x)) ELSE Cardinality(Above(S, x)) + 1
        BY <2>4, FS_AddElement
      <3>2. Cardinality(Above(S, x) \cup {x}) \in Nat
        BY <3>1, FS_CardinalityType
      <3> QED BY <2>4, <3>1, <3>2
    <2>6. Cardinality(Top(S, n)) <= Cardinality(Above(S, x) \cup {x})
      BY <2>3, <2>5, FS_Subset
    <2> QED BY <1>1, <2>2, <2>4, <2>5, <2>6
  <1> QED BY <1>1, <1>2, <1>3

\* If a row is left over, the n newest are n.
LEMMA TopIsFull ==
  ASSUME NEW S \in RowSets, NEW n \in Nat, NEW x \in S, Newer(S, x) >= n
  PROVE  Cardinality(Top(S, n)) = n
  <1>1. S \ Top(S, n) \in RowSets /\ x \in S \ Top(S, n)
    <2>1. S \ Top(S, n) \in RowSets
      BY DEF RowSets
    <2>2. Newer(S, x) \in Nat
      BY NewerIsNatural
    <2>3. ~(Newer(S, x) < n)
      BY <2>2
    <2> QED BY <2>1, <2>3 DEF Top
  <1>2. PICK m \in S \ Top(S, n) : \A y \in S \ Top(S, n) : y <= m
    BY <1>1, GreatestRow
  <1>3. Newer(S, m) >= n /\ Newer(S, m) \in Nat /\ \A y \in S : y \in Nat /\ Newer(S, y) \in Nat
    BY <1>2, NewerIsNatural, ListingsAssumption DEF Top, RowSets
  <1>4. ASSUME NEW y \in S, y > m
        PROVE  y \in Top(S, n)
    BY <1>2, <1>3, <1>4
  <1>5. Above(S, m) \subseteq Top(S, n)
    BY <1>4 DEF Above
  <1>6. Cardinality(Above(S, m)) <= Cardinality(Top(S, n))
    BY <1>5, TopAtMost, FS_Subset
  <1> QED BY <1>3, <1>6, NewerIsNatural, TopAtMost

\* If a row is left over, the page is full.
LEMMA PageIsFull ==
  ASSUME NEW S \in RowSets, NEW p \in Nat \ {0}, NEW size \in Nat,
         NEW x \in S, Newer(S, x) >= p * size
  PROVE  Cardinality(RowsOfPage(S, p, size)) >= size
  <1>1. PICK q \in Nat : q = p - 1
    OBVIOUS
  <1>2. q * size \in Nat /\ p = q + 1
    BY <1>1
  <1>3. (q + 1) * size = q * size + size
    BY SMT
  <1>4. (p - 1) * size \in Nat /\ p * size \in Nat /\ p * size = (p - 1) * size + size
    BY <1>1, <1>2, <1>3
  <1>5. PICK a \in Nat, b \in Nat : /\ a = (p - 1) * size /\ b = p * size
                                    /\ b = a + size /\ a <= b
    BY <1>4
  <1>6. \A y : Newer(S, y) \in Nat
    BY NewerIsNatural
  <1>7. Top(S, a) \subseteq Top(S, b)
    BY <1>5, <1>6 DEF Top
  <1>8. RowsOfPage(S, p, size) = Top(S, b) \ Top(S, a)
    <2>1. \A y : y \in RowsOfPage(S, p, size) <=> y \in Top(S, b) \ Top(S, a)
      BY <1>5, <1>6 DEF Top, RowsOfPage
    <2> QED BY <2>1
  <1>9. Cardinality(Top(S, b)) = b
    BY <1>5, TopIsFull
  <1>10. /\ IsFiniteSet(Top(S, a)) /\ IsFiniteSet(Top(S, b))
         /\ Cardinality(Top(S, a)) \in Nat /\ Cardinality(Top(S, a)) <= a
    BY TopAtMost
  <1>11. Cardinality(Top(S, b) \ Top(S, a)) = b - Cardinality(Top(S, b) \cap Top(S, a))
    BY <1>9, <1>10, FS_Difference
  <1>12. Top(S, b) \cap Top(S, a) = Top(S, a)
    BY <1>7
  <1>13. Cardinality(RowsOfPage(S, p, size)) = b - Cardinality(Top(S, a))
    BY <1>8, <1>11, <1>12
  <1>14. b = a + size
    BY <1>5
  <1> QED BY ONLY <1>10, <1>13, <1>14, a \in Nat, b \in Nat, size \in Nat

\* A page that is not full is the last.
LEMMA LastPage ==
  ASSUME NEW S \in RowSets, NEW n \in Nat,
         Cardinality(RowsOfPage(S, n + 1, FetchPage)) < FetchPage
  PROVE  \A x \in S : Newer(S, x) < (n + 1) * FetchPage
  <1> SUFFICES ASSUME NEW x \in S, ~(Newer(S, x) < (n + 1) * FetchPage)
               PROVE  FALSE
    OBVIOUS
  <1>1. FetchPage \in Nat /\ Newer(S, x) \in Nat
    BY ListingsAssumption, NewerIsNatural
  <1>2. PICK m \in Nat : m = (n + 1) * FetchPage
    BY <1>1
  <1>3. Newer(S, x) >= (n + 1) * FetchPage
    BY <1>1, <1>2
  <1>4. PICK p \in Nat \ {0} : p = n + 1
    OBVIOUS
  <1>5. Cardinality(RowsOfPage(S, p, FetchPage)) >= FetchPage
    BY <1>1, <1>3, <1>4, PageIsFull
  <1>6. IsFiniteSet(RowsOfPage(S, p, FetchPage))
    BY RowSetsAreFinite, FS_Subset DEF RowsOfPage
  <1>7. Cardinality(RowsOfPage(S, p, FetchPage)) \in Nat
    BY <1>6, FS_CardinalityType
  <1> QED BY <1>1, <1>4, <1>5, <1>7

-----------------------------------------------------------------------------

ListTypeOK ==
    /\ rows \in [Kept -> RowSets] /\ before \in [Kept -> RowSets]
    /\ ever \in 0 .. MaxRow
    /\ fetched \in Seq(RowSets)
    /\ batch \in [Lines -> RowSets \cup {Waiting, Failed}]
    /\ view \in Nat \X Nat
    /\ hidden \in RowSets

\* Each fax there was is on a page or beyond the pages fetched so far.
NoneMissed ==
    \A x \in before[Faxed] :
        /\ x \in rows[Faxed]
        /\ \/ \E i \in DOMAIN fetched : x \in fetched[i]
           \/ Newer(rows[Faxed], x) >= Len(fetched) * FetchPage

AllFound == \A x \in before[Faxed] : \E i \in DOMAIN fetched : x \in fetched[i]

\* What was on a page has not moved to a later one.
NoneTwice ==
    /\ \A i \in DOMAIN fetched : \A x \in fetched[i] : Newer(rows[Faxed], x) < i * FetchPage
    /\ \A i, j \in DOMAIN fetched : i # j => fetched[i] \cap fetched[j] = {}

NewestFetched ==
    /\ rows = before
    /\ \A l \in Lines : batch[l] \in {Waiting, Failed, Top(before[l], FetchLimit)}

ListInv ==
    /\ ListTypeOK
    /\ listed = "no" => fetched = <<>>
    /\ listed = "paging" /\ ~went => NoneMissed
    /\ listed = "listed" /\ ~went => AllFound
    /\ listed \in {"paging", "listed"} /\ ~came => NoneTwice
    /\ listed = "merging" /\ ~came /\ ~went => NewestFetched

LEMMA ListInitially == ListInit => ListInv
  <1> SUFFICES ASSUME ListInit
               PROVE  ListInv
    OBVIOUS
  <1>1. {} \in RowSets /\ <<1, 1>> \in Nat \X Nat /\ 0 \in 0 .. MaxRow /\ <<>> \in Seq(RowSets)
    BY ListingsAssumption DEF RowSets
  <1> QED BY <1>1 DEF ListInit, ListInv, ListTypeOK

LEMMA RowComesStep ==
  ASSUME ListInv, NEW k \in Kept, RowComes(k)
  PROVE  ListInv'
  <1>1. /\ ever' = ever + 1 /\ ever < MaxRow
        /\ rows' = [rows EXCEPT ![k] = @ \cup {ever'}]
        /\ came' = TRUE
        /\ UNCHANGED <<fetched, listed, batch, view, hidden, before, went>>
    BY DEF RowComes
  <1>2. /\ rows[k] \in RowSets /\ rows[Faxed] \in RowSets /\ rows'[Faxed] \in RowSets
        /\ ListTypeOK'
    <2>1. ever' \in 1 .. MaxRow
      BY <1>1, ListingsAssumption DEF ListInv, ListTypeOK
    <2>2. rows[k] \cup {ever'} \in RowSets
      BY <2>1 DEF ListInv, ListTypeOK, RowSets
    <2>3. rows' \in [Kept -> RowSets]
      BY <1>1, <2>2 DEF ListInv, ListTypeOK
    <2> QED BY <1>1, <2>1, <2>3 DEF ListInv, ListTypeOK, Kept
  <1>3. rows[Faxed] \subseteq rows'[Faxed]
    BY <1>1 DEF ListInv, ListTypeOK, Kept
  <1>4. ASSUME listed = "paging", ~went
        PROVE  NoneMissed'
    <2>1. PICK n \in Nat : n = Len(fetched) * FetchPage
      BY ListingsAssumption DEF ListInv, ListTypeOK
    <2>2. \A x : /\ Newer(rows[Faxed], x) <= Newer(rows'[Faxed], x)
                 /\ Newer(rows[Faxed], x) \in Nat /\ Newer(rows'[Faxed], x) \in Nat
      BY <1>2, <1>3, NewerGrows, NewerIsNatural
    <2>3. \A x \in before[Faxed] :
             /\ x \in rows[Faxed]
             /\ (\E i \in DOMAIN fetched : x \in fetched[i]) \/ Newer(rows[Faxed], x) >= n
      BY <1>4, <2>1 DEF ListInv, NoneMissed
    <2>4. \A x \in before[Faxed] :
             /\ x \in rows'[Faxed]
             /\ (\E i \in DOMAIN fetched : x \in fetched[i]) \/ Newer(rows'[Faxed], x) >= n
      BY <1>3, <2>2, <2>3
    <2> QED BY <1>1, <2>1, <2>4 DEF NoneMissed
  <1> QED BY <1>1, <1>2, <1>4 DEF ListInv, AllFound

LEMMA RowGoesStep ==
  ASSUME ListInv, NEW k \in Kept, NEW x \in rows[k], RowGoes(k, x)
  PROVE  ListInv'
  <1>1. /\ rows' = [rows EXCEPT ![k] = @ \ {x}]
        /\ went' = TRUE
        /\ UNCHANGED <<ever, fetched, listed, batch, view, hidden, before, came>>
    BY DEF RowGoes
  <1>2. rows[Faxed] \in RowSets /\ rows'[Faxed] \in RowSets /\ ListTypeOK'
    BY <1>1 DEF ListInv, ListTypeOK, RowSets, Kept
  <1>3. rows'[Faxed] \subseteq rows[Faxed]
    BY <1>1 DEF ListInv, ListTypeOK, Kept
  <1>4. ASSUME listed \in {"paging", "listed"}, ~came
        PROVE  NoneTwice'
    <2>1. NoneTwice /\ \A i \in DOMAIN fetched : i * FetchPage \in Nat
      BY <1>4, ListingsAssumption DEF ListInv, ListTypeOK
    <2>2. \A y : /\ Newer(rows'[Faxed], y) <= Newer(rows[Faxed], y)
                 /\ Newer(rows[Faxed], y) \in Nat /\ Newer(rows'[Faxed], y) \in Nat
      BY <1>2, <1>3, NewerGrows, NewerIsNatural
    <2>3. ASSUME NEW i \in DOMAIN fetched, NEW y \in fetched[i]
          PROVE  Newer(rows'[Faxed], y) < i * FetchPage
      <3>1. PICK n \in Nat : n = i * FetchPage
        BY <2>1
      <3>2. Newer(rows[Faxed], y) < n
        BY <2>1, <3>1 DEF NoneTwice
      <3>3. Newer(rows'[Faxed], y) < n
        BY <2>2, <3>2
      <3> QED BY <3>1, <3>3
    <2> QED BY <1>1, <2>1, <2>3 DEF NoneTwice
  <1> QED BY <1>1, <1>2, <1>4 DEF ListInv, AllFound

LEMMA AskFaxesStep ==
  ASSUME ListInv, AskFaxes
  PROVE  ListInv'
  <1>1. /\ listed = "no" /\ listed' = "paging" /\ fetched = <<>>
        /\ before' = rows /\ UNCHANGED <<rows, ever, fetched, batch, view, hidden>>
    BY DEF AskFaxes, ListInv
  <1>2. ListTypeOK'
    BY <1>1 DEF ListInv, ListTypeOK
  <1>3. Len(fetched) * FetchPage = 0 /\ DOMAIN fetched = {}
    BY <1>1, ListingsAssumption
  <1>4. NoneMissed'
    <2>1. \A x \in rows[Faxed] : Newer(rows[Faxed], x) \in Nat
      BY NewerIsNatural DEF ListInv, ListTypeOK, Kept
    <2> QED BY <1>1, <1>3, <2>1 DEF NoneMissed
  <1>5. NoneTwice'
    BY <1>1, <1>3 DEF NoneTwice
  <1> QED BY <1>1, <1>2, <1>4, <1>5 DEF ListInv

LEMMA FetchFaxesStep ==
  ASSUME ListInv, FetchFaxes
  PROVE  ListInv'
  <1> PICK L \in Nat : L = Len(fetched)
    BY DEF ListInv, ListTypeOK
  <1> PICK S \in RowSets : S = rows[Faxed]
    BY DEF ListInv, ListTypeOK, Kept
  <1> PICK cut \in RowSets : cut = RowsOfPage(S, L + 1, FetchPage)
    BY DEF RowsOfPage, RowSets
  <1>1. /\ listed = "paging" /\ fetched' = Append(fetched, cut)
        /\ listed' = IF Cardinality(cut) < FetchPage THEN "listed" ELSE "paging"
        /\ UNCHANGED <<rows, ever, batch, view, hidden, before, came, went>>
    BY DEF FetchFaxes, FaxPage
  <1>2. /\ fetched' \in Seq(RowSets) /\ Len(fetched') = L + 1 /\ DOMAIN fetched' = 1 .. L + 1
        /\ DOMAIN fetched = 1 .. L
        /\ fetched'[L + 1] = cut /\ \A i \in 1 .. L : fetched'[i] = fetched[i]
    BY <1>1 DEF ListInv, ListTypeOK
  <1>3. ListTypeOK'
    BY <1>1, <1>2 DEF ListInv, ListTypeOK
  <1> PICK lo \in Nat, hi \in Nat : lo = L * FetchPage /\ hi = (L + 1) * FetchPage
    BY ListingsAssumption
  <1>4. \A x : Newer(S, x) \in Nat
    BY NewerIsNatural
  <1>5. \A x : x \in cut <=> x \in S /\ Newer(S, x) >= lo /\ Newer(S, x) < hi
    <2>1. (L + 1) - 1 = L
      OBVIOUS
    <2>2. cut = {x \in S : Newer(S, x) >= lo /\ Newer(S, x) < hi}
      BY <2>1 DEF RowsOfPage
    <2> QED BY <2>2
  <1>6. Cardinality(cut) < FetchPage => \A x \in S : Newer(S, x) < hi
    BY LastPage
  <1>7. ASSUME ~went
        PROVE  /\ \A x \in before[Faxed] :
                      x \in S /\ ((\E i \in DOMAIN fetched' : x \in fetched'[i]) \/ Newer(S, x) >= hi)
    <2> SUFFICES ASSUME NEW x \in before[Faxed], ~(Newer(S, x) >= hi)
                 PROVE  x \in S /\ \E i \in DOMAIN fetched' : x \in fetched'[i]
      BY <1>1, <1>7 DEF ListInv, NoneMissed
    <2>1. x \in S /\ ((\E i \in DOMAIN fetched : x \in fetched[i]) \/ Newer(S, x) >= lo)
      BY <1>1, <1>7 DEF ListInv, NoneMissed
    <2>2. CASE \E i \in DOMAIN fetched : x \in fetched[i]
      BY <1>2, <2>1, <2>2
    <2>3. CASE Newer(S, x) >= lo
      <3>1. x \in cut
        BY <1>4, <1>5, <2>1, <2>3
      <3> QED BY <1>2, <2>1, <3>1
    <2> QED BY <2>1, <2>2, <2>3
  <1>8. ASSUME ~came
        PROVE  NoneTwice'
    <2>1. /\ \A i \in 1 .. L : \A x \in fetched[i] : Newer(S, x) < i * FetchPage
          /\ \A i, j \in 1 .. L : i # j => fetched[i] \cap fetched[j] = {}
      BY <1>1, <1>2, <1>8 DEF ListInv, NoneTwice
    <2>2. ASSUME NEW i \in 1 .. L
          PROVE  fetched[i] \cap cut = {}
      <3>1. i * FetchPage \in Nat /\ i * FetchPage <= lo
        <4>1. PICK d \in Nat : d = L - i
          <5>1. L \in Nat /\ i \in Nat /\ i <= L
            OBVIOUS
          <5>2. L - i \in Nat
            BY ONLY <5>1
          <5> QED BY <5>2
        <4>2. L * FetchPage = i * FetchPage + d * FetchPage /\ d * FetchPage \in Nat
          <5>1. i \in Nat /\ L = i + d
            BY <4>1
          <5> QED BY <5>1, ListingsAssumption, SMT
        <4> QED BY <4>2, ListingsAssumption
      <3>2. PICK n \in Nat : n = i * FetchPage /\ n <= lo
        BY <3>1
      <3>3. \A x \in fetched[i] : Newer(S, x) < n
        BY <2>1, <3>2
      <3>4. \A x \in fetched[i] : ~(Newer(S, x) >= lo)
        BY <1>4, <3>2, <3>3
      <3> QED BY <1>5, <3>4
    <2>3. \A i \in 1 .. L + 1 : \A x \in fetched'[i] : Newer(S, x) < i * FetchPage
      <3> SUFFICES ASSUME NEW i \in 1 .. L + 1, NEW x \in fetched'[i]
                   PROVE  Newer(S, x) < i * FetchPage
        OBVIOUS
      <3>1. CASE i \in 1 .. L
        BY <1>2, <2>1, <3>1
      <3>2. CASE i = L + 1
        BY <1>2, <1>5, <3>2
      <3> QED BY <3>1, <3>2
    <2>4. \A i, j \in 1 .. L + 1 : i # j => fetched'[i] \cap fetched'[j] = {}
      <3> SUFFICES ASSUME NEW i \in 1 .. L + 1, NEW j \in 1 .. L + 1, i # j
                   PROVE  fetched'[i] \cap fetched'[j] = {}
        OBVIOUS
      <3>1. CASE i \in 1 .. L /\ j \in 1 .. L
        BY <1>2, <2>1, <3>1
      <3>2. CASE i = L + 1 /\ j \in 1 .. L
        BY <1>2, <2>2, <3>2
      <3>3. CASE j = L + 1 /\ i \in 1 .. L
        BY <1>2, <2>2, <3>3
      <3> QED BY <3>1, <3>2, <3>3
    <2> QED BY <1>1, <1>2, <2>3, <2>4 DEF NoneTwice
  <1>9. ASSUME listed' = "paging", ~went
        PROVE  NoneMissed'
    BY <1>1, <1>2, <1>7, <1>9 DEF NoneMissed
  <1>10. ASSUME listed' = "listed", ~went
         PROVE  AllFound'
    <2>1. \A x \in S : ~(Newer(S, x) >= hi)
      BY <1>1, <1>4, <1>6, <1>10
    <2> QED BY <1>1, <1>7, <1>10, <2>1 DEF AllFound
  <1> QED BY <1>1, <1>3, <1>8, <1>9, <1>10 DEF ListInv

LEMMA AskRecordingsStep ==
  ASSUME ListInv, NEW p \in 1 .. MaxPage, NEW size \in 1 .. MaxPage,
         NEW blocked \in SUBSET (1 .. MaxRow), AskRecordings(p, size, blocked)
  PROVE  ListInv'
  <1>1. /\ listed' = "merging" /\ batch' = [l \in Lines |-> Waiting] /\ view' = <<p, size>>
        /\ hidden' = blocked /\ before' = rows /\ UNCHANGED <<rows, ever, fetched>>
    BY DEF AskRecordings
  <1>2. ListTypeOK'
    BY <1>1, ListingsAssumption DEF ListInv, ListTypeOK, RowSets
  <1>3. NewestFetched'
    BY <1>1 DEF NewestFetched
  <1> QED BY <1>1, <1>2, <1>3 DEF ListInv

LEMMA FetchRecordingsStep ==
  ASSUME ListInv, NEW l \in Lines, FetchRecordings(l)
  PROVE  ListInv'
  <1>1. PICK got \in {Newest(l), Failed} : batch' = [batch EXCEPT ![l] = got]
    BY DEF FetchRecordings
  <1>2. /\ listed = "merging"
        /\ UNCHANGED <<rows, ever, fetched, listed, view, hidden, before, came, went>>
    BY DEF FetchRecordings
  <1>3. rows[l] \in RowSets
    BY DEF ListInv, ListTypeOK, Kept
  <1>4. Newest(l) = Top(rows[l], FetchLimit) /\ Newest(l) \in RowSets
    <2>1. \A x : Newer(rows[l], x) \in Nat
      BY <1>3, NewerIsNatural
    <2>2. (1 - 1) * FetchLimit = 0 /\ 1 * FetchLimit = FetchLimit
      BY ListingsAssumption
    <2>3. \A x : x \in Newest(l) <=> x \in Top(rows[l], FetchLimit)
      BY <2>1, <2>2 DEF Newest, RowsOfPage, Top
    <2> QED BY <1>3, <2>3 DEF Newest, RowsOfPage, RowSets
  <1>5. ListTypeOK'
    BY <1>1, <1>2, <1>4 DEF ListInv, ListTypeOK
  <1>6. ASSUME ~came, ~went
        PROVE  NewestFetched'
    <2>1. NewestFetched
      BY <1>2, <1>6 DEF ListInv
    <2>2. \A k \in Lines : batch'[k] = IF k = l THEN got ELSE batch[k]
      BY <1>1 DEF ListInv, ListTypeOK
    <2> QED BY <1>1, <1>2, <1>4, <2>1, <2>2 DEF NewestFetched
  <1> QED BY <1>2, <1>5, <1>6 DEF ListInv

LEMMA ListStep == ListInv /\ [ListNext]_listVars => ListInv'
  <1> SUFFICES ASSUME ListInv, [ListNext]_listVars
               PROVE  ListInv'
    OBVIOUS
  <1>1. CASE FaxesFail
    BY <1>1 DEF FaxesFail, ListInv, ListTypeOK
  <1>2. CASE UNCHANGED listVars
    BY <1>2 DEF listVars, ListInv, ListTypeOK, NoneMissed, AllFound, NoneTwice, NewestFetched
  <1> QED BY <1>1, <1>2, RowComesStep, RowGoesStep, AskFaxesStep, FetchFaxesStep,
             AskRecordingsStep, FetchRecordingsStep DEF ListNext

\* However the faxes are paged while rows come and go: one is missed only if another was
\* deleted, and one is listed twice only if another came.
THEOREM FaxListingIsComplete == ListSpec => []FaxListingComplete
  <1>1. ListInv => FaxListingComplete
    BY DEF ListInv, AllFound, NoneTwice, FaxListingComplete
  <1> QED BY ListInitially, ListStep, <1>1, PTL DEF ListSpec

-----------------------------------------------------------------------------

\* The rows of all lines but for H, in B and in what was fetched of B.
All(B, H) == (UNION {B[l] : l \in Lines}) \ H
Gathered(B, F, H) == (UNION {Top(B[l], F) : l \in Lines}) \ H

\* The F newest of each line are all it has or go back as far as N rows of M.
FarBack(B, F, M, N) ==
    \A l \in Lines :
        Cardinality(Top(B[l], F)) < F \/ \E x \in Top(B[l], F) : NoOlder(M, x) >= N

\* Merging the newest F of each line, but for the rows H, loses none of the newest N of all
\* lines, if the fetches go back that far.
LEMMA MergeKeepsNewest ==
  ASSUME NEW B \in [Lines -> RowSets], NEW F \in Nat, NEW N \in Nat, NEW H,
         NEW A \in RowSets, A = All(B, H), NEW M \in RowSets, M = Gathered(B, F, H),
         FarBack(B, F, M, N)
  PROVE  \A x : /\ x \in A /\ Newer(A, x) < N <=> x \in M /\ Newer(M, x) < N
                /\ x \in A /\ Newer(A, x) < N => Newer(A, x) = Newer(M, x)
  <1>1. M \subseteq A /\ \A x \in A : x \in Nat
    BY ListingsAssumption DEF All, Gathered, Top, RowSets
  <1>2. \A x : Newer(A, x) \in Nat /\ Newer(M, x) \in Nat /\ Newer(M, x) <= Newer(A, x)
    BY <1>1, NewerIsNatural, NewerGrows
  \* A row that was not fetched is older than one the fetch goes back to.
  <1>3. ASSUME NEW y \in A, Newer(A, y) < N, y \notin M
        PROVE  FALSE
    <2>1. PICK l \in Lines : y \in B[l] /\ y \notin Top(B[l], F)
      BY <1>3 DEF All, Gathered
    <2>2. B[l] \in RowSets /\ \A z \in B[l] : z \in Nat /\ Newer(B[l], z) \in Nat
      BY NewerIsNatural, ListingsAssumption DEF RowSets
    <2>3. Newer(B[l], y) >= F
      BY <2>1, <2>2 DEF Top
    <2>4. Cardinality(Top(B[l], F)) = F
      BY <2>1, <2>2, <2>3, TopIsFull
    <2>5. PICK x \in Top(B[l], F) : NoOlder(M, x) >= N
      <3>1. ~(Cardinality(Top(B[l], F)) < F)
        BY <2>4
      <3> QED BY <3>1 DEF FarBack
    <2>6. x \in B[l] /\ x \in Nat /\ y \in Nat /\ Newer(B[l], x) < F
      BY <2>1, <2>2 DEF Top
    <2>7. x > y
      <3>1. PICK m \in Nat, n \in Nat : m = Newer(B[l], x) /\ n = Newer(B[l], y)
        BY <2>1, <2>2, <2>6
      <3>2. m < F /\ F <= n
        BY <2>3, <2>6, <3>1
      <3>3. x < y => n < m
        BY <2>1, <2>2, <2>6, <3>1, NewerOrders
      <3>4. x = y => n = m
        BY <3>1
      <3> QED BY <2>6, <3>1, <3>2, <3>3, <3>4
    <2>8. NoOlder(M, x) \in Nat /\ NoOlder(M, x) <= Newer(A, y)
      <3> DEFINE S == {z \in M : z >= x}
      <3>1. ASSUME NEW z \in S
            PROVE  z \in Above(A, y)
        <4>1. z \in A /\ z \in Nat /\ z >= x
          BY <1>1
        <4>2. z > y
          BY <2>6, <2>7, <4>1
        <4> QED BY <4>1, <4>2 DEF Above
      <3>2. S \subseteq Above(A, y)
        BY <3>1
      <3>3. NoOlder(M, x) = Cardinality(S)
        BY DEF NoOlder
      <3> HIDE DEF S
      <3>4. IsFiniteSet(Above(A, y)) /\ Newer(A, y) = Cardinality(Above(A, y))
        BY NewerIsNatural
      <3>5. IsFiniteSet(S) /\ Cardinality(S) <= Cardinality(Above(A, y))
        BY <3>2, <3>4, FS_Subset
      <3>6. Cardinality(S) \in Nat
        BY <3>5, FS_CardinalityType
      <3> QED BY <3>3, <3>4, <3>5, <3>6
    <2>9. PICK m \in Nat, n \in Nat : m = NoOlder(M, x) /\ n = Newer(A, y)
      BY <1>2, <2>8
    <2>10. m >= N /\ m <= n /\ n < N
      BY <1>3, <2>5, <2>8, <2>9
    <2> QED BY <2>10
  <1>4. ASSUME NEW x \in A, Newer(A, x) < N
        PROVE  x \in M /\ Newer(A, x) = Newer(M, x)
    <2>1. ASSUME NEW y \in A, y > x
          PROVE  y \in M
      <3>1. Newer(A, y) < Newer(A, x)
        BY <1>1, <2>1, NewerOrders
      <3>2. PICK m \in Nat, n \in Nat : m = Newer(A, y) /\ n = Newer(A, x)
        BY <1>2
      <3>3. m < n /\ n < N
        BY <1>4, <3>1, <3>2
      <3> QED BY <1>3, <3>2, <3>3
    <2>2. Above(A, x) = Above(M, x)
      BY <1>1, <2>1 DEF Above
    <2> QED BY <1>3, <1>4, <2>2, NewerIsNatural
  <1>5. ASSUME NEW x \in M, Newer(M, x) < N, ~(Newer(A, x) < N)
        PROVE  FALSE
    \* The newest N of all are in M and newer than x.
    <2>1. x \in A /\ Newer(A, x) >= N
      BY <1>1, <1>2, <1>5
    <2>2. Cardinality(Top(A, N)) = N
      BY <2>1, TopIsFull
    <2>3. ASSUME NEW y \in Top(A, N)
          PROVE  y \in Above(M, x)
      <3>1. y \in A /\ Newer(A, y) < N /\ y \in M
        BY <1>3 DEF Top
      <3>2. y # x /\ ~(y < x)
        <4>1. PICK m \in Nat, n \in Nat : m = Newer(A, y) /\ n = Newer(A, x)
          BY <1>2
        <4>2. m < N /\ N <= n
          BY <2>1, <3>1, <4>1
        <4>3. y < x => n < m
          BY <2>1, <3>1, <4>1, NewerOrders
        <4> QED BY <4>1, <4>2, <4>3
      <3> QED BY <1>1, <2>1, <3>1, <3>2 DEF Above
    <2>4. Cardinality(Top(A, N)) <= Newer(M, x)
      BY <2>3, NewerIsNatural, FS_Subset
    <2> QED BY <1>2, <1>5, <2>2, <2>4
  <1> QED BY <1>1, <1>4, <1>5

LEMMA MergedPage ==
  ASSUME ListInv, AllFetched, \A l \in Lines : GoesBack(l)
  PROVE  AsOfAll
  <1>1. PICK H : \A S : Unhidden(S) = S \ H
    BY DEF Unhidden
  <1>2. PICK B \in [Lines -> RowSets] : \A l \in Lines : B[l] = before[l]
    <2>1. [l \in Lines |-> before[l]] \in [Lines -> RowSets]
      BY DEF ListInv, ListTypeOK, Kept
    <2> QED BY <2>1
  <1>3. PICK A \in RowSets : A = (UNION {before[l] : l \in Lines}) \ H
    BY <1>2 DEF RowSets
  <1>4. \A l \in Lines : batch[l] = Top(B[l], FetchLimit) /\ batch[l] # Failed
    BY <1>2 DEF AllFetched, ListInv, NewestFetched
  <1>5. Merged = (UNION {Top(B[l], FetchLimit) : l \in Lines}) \ H
    <2>1. UNION {batch[l] : l \in {k \in Lines : batch[k] # Failed}}
              = UNION {Top(B[l], FetchLimit) : l \in Lines}
      BY <1>4
    <2> QED BY <1>1, <2>1 DEF Merged
  <1>6. PICK M \in RowSets : M = Merged
    BY <1>5 DEF RowSets, Top
  <1>7. PICK n \in Nat : n = view[1] * view[2]
    BY DEF ListInv, ListTypeOK
  <1>8. FarBack(B, FetchLimit, M, n)
    BY <1>4, <1>6, <1>7 DEF GoesBack, FarBack
  <1>9. A = All(B, H) /\ M = Gathered(B, FetchLimit, H) /\ FetchLimit \in Nat
    BY <1>2, <1>3, <1>5, <1>6, ListingsAssumption DEF All, Gathered
  <1>10. \A x : /\ x \in A /\ Newer(A, x) < n <=> x \in M /\ Newer(M, x) < n
                /\ x \in A /\ Newer(A, x) < n => Newer(A, x) = Newer(M, x)
    BY <1>8, <1>9, MergeKeepsNewest
  <1>11. \A x : x \in RowsOfPage(A, view[1], view[2]) <=> x \in RowsOfPage(M, view[1], view[2])
    BY <1>7, <1>10 DEF RowsOfPage
  <1>12. RowsOfPage(A, view[1], view[2]) = RowsOfPage(M, view[1], view[2])
    BY <1>11
  <1> QED BY <1>1, <1>3, <1>6, <1>12 DEF AsOfAll

\* The page of the recordings of several lines is cut from what was fetched of each as it
\* would be from all there are, but for the logs' rows that are left out, as long as no fetch
\* that was cut off ends before the page.
THEOREM RecordingPageIsRight == ListSpec => []RecordingPageRight
  <1>1. ListInv => RecordingPageRight
    BY MergedPage DEF RecordingPageRight
  <1> QED BY ListInitially, ListStep, <1>1, PTL DEF ListSpec

-----------------------------------------------------------------------------

(***************************************************************************)
(* Whom a page shows on a call was on one while it was read, for any       *)
(* number of devices.                                                      *)
(*                                                                         *)
(* The invariant says of what was read of the provider and of the records  *)
(* that each answer was true at some time since the page was asked for, or *)
(* is one of the overlooked.                                               *)
(***************************************************************************)

Fields == {"none", "extension", "caller"}

\* Whom the provider has in a call while a page is read was in one at some time of it.
Witnessed == \A d \in Devices : d \in IF inCall[d] = "none" THEN wasIdle ELSE wasBusy

LiveWitnessed ==
    live \notin {NotRead, Refused} =>
        /\ live \in [Devices -> Fields]
        /\ \A d \in Devices : d \in IF live[d] = "none" THEN wasIdle ELSE wasBusy

BusyWitnessed ==
    busyNumbers # NotRead =>
        \A d \in Devices :
            d \in IF d \in busyNumbers THEN wasBusy ELSE wasIdle \cup overlooked

PresenceInv ==
    /\ inCall \in [Devices -> Fields]
    /\ LiveWitnessed
    /\ BusyWitnessed
    /\ IF page = "none" THEN live = NotRead /\ busyNumbers = NotRead
       ELSE Witnessed /\ \A d \in Devices : display[d] = "nothing"
    /\ PresenceTrue

LEMMA PresenceInitially == PresenceInit => PresenceInv
  BY DEF PresenceInit, PresenceInv, LiveWitnessed, BusyWitnessed, Fields, PresenceTrue

LEMMA PresenceStep == PresenceInv /\ [PresenceNext]_presenceVars => PresenceInv'
  <1> SUFFICES ASSUME PresenceInv, [PresenceNext]_presenceVars
               PROVE  PresenceInv'
    OBVIOUS
  <1> USE DEF PresenceInv, LiveWitnessed, BusyWitnessed, Witnessed, PresenceTrue
  <1>1. ASSUME NEW d \in Devices, Registers(d) \/ RowSynced(d)
        PROVE  PresenceInv'
    BY <1>1 DEF Registers, RowSynced, reading
  <1>2. ASSUME NEW d \in Devices, CallChanges(d)
        PROVE  PresenceInv'
    <2>1. PICK f \in Fields : inCall' = [inCall EXCEPT ![d] = f]
      BY <1>2 DEF CallChanges, Fields
    <2>2. /\ inCall' \in [Devices -> Fields]
          /\ \A x \in Devices : inCall'[x] = IF x = d THEN f ELSE inCall[x]
      BY <2>1
    <2>3. wasBusy \subseteq wasBusy' /\ wasIdle \subseteq wasIdle'
      BY <1>2 DEF CallChanges
    <2>4. page # "none" => d \in IF f = "none" THEN wasIdle' ELSE wasBusy'
      BY <1>2, <2>2 DEF CallChanges
    <2> QED BY <1>2, <2>2, <2>3, <2>4 DEF CallChanges, reading
  <1>3. ASSUME NEW p \in {"registrations", "calls"}, AskPage(p)
        PROVE  PresenceInv'
    BY <1>3 DEF AskPage
  <1>4. CASE ReadOnline
    BY <1>4 DEF ReadOnline
  <1>5. CASE ReadLive
    BY <1>5 DEF ReadLive
  <1>6. CASE ResolveBusy
    \* A device that is not among the busy ones was in no call, or its call is overlooked.
    BY <1>6 DEF ResolveBusy, BusyRows, InField, Fields
  <1>7. CASE ShowRegistrations
    BY <1>7 DEF ShowRegistrations, Close
  <1>8. CASE ShowCalls
    <2>1. CallsOfRows \subseteq wasBusy
      BY <1>8 DEF ShowCalls, CallsOfRows, InField
    <2> QED BY <1>8, <2>1 DEF ShowCalls, Close
  <1>9. CASE UNCHANGED presenceVars
    BY <1>9 DEF presenceVars
  <1> QED BY <1>1, <1>2, <1>3, <1>4, <1>5, <1>6, <1>7, <1>8, <1>9 DEF PresenceNext

\* Whoever a page shows on a call was on one while it was read, and whoever it shows
\* just online was on none at some time, outside the named blind spots: for any number
\* of devices, and however calls and rows change between the reads.
THEOREM PresenceIsTrue == PresenceSpec => []PresenceTrue
  <1>1. PresenceInv => PresenceTrue
    BY DEF PresenceInv
  <1> QED BY PresenceInitially, PresenceStep, <1>1, PTL DEF PresenceSpec

=============================================================================
