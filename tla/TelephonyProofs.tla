-------------------------- MODULE TelephonyProofs --------------------------
(***************************************************************************)
(* Theorems about TelephonySync, for any number of extensions, posts,      *)
(* users, assignment requests and faults.                                  *)
(***************************************************************************)
EXTENDS TelephonySync, TLAPS

LEMMA PostParts ==
    ASSUME NEW p \in Posts
    PROVE  p.object \in Objects /\ p.seq \in Nat \ {0} /\ p.seq <= MaxOps[p.object]
BY TelephonyAssumption DEF Posts

LEMMA NextPost ==
    ASSUME NEW o \in Objects, NEW n \in Nat, n < MaxOps[o]
    PROVE  [object |-> o, seq |-> n + 1] \in Posts
<1>1. n + 1 \in 1 .. MaxOps[o]
  BY TelephonyAssumption
<1>2. [object |-> o, seq |-> n + 1] \in [object : {o}, seq : 1 .. MaxOps[o]]
  BY <1>1
<1> QED
  BY <1>2 DEF Posts

-----------------------------------------------------------------------------
(* Types.  That a row never has a version the provider has not reached rests *)
(* on the handlers: what one has in hand was at the provider before.         *)

CopyInv ==
    /\ \A p \in Posts : hook[p] # "unborn" => p.seq <= made[p.object]
    /\ \A p \in Posts : hook[p] \in {"fetched", "read"} => copy[p] \in 1 .. made[p.object]

\* What save() leaves is a row.
LEMMA SavedIsRow ==
    ASSUME TypeOK, NEW p \in Posts
    PROVE  /\ Saved(p) \in Rows
           /\ Saved(p).version = copy[p]
           /\ Saved(p).user = IF seen[p] = None THEN None ELSE seen[p].user
<1>1. CASE seen[p] = None
  BY <1>1 DEF TypeOK, Saved, Rows
<1>2. CASE seen[p] # None
  BY <1>2 DEF TypeOK, Saved, Rows
<1> QED
  BY <1>1, <1>2

\* What an assignment leaves of a row.
LEMMA ReassignedRow ==
    ASSUME TypeOK, NEW a \in Requests, AssignSet(a), NEW o \in Objects, row[o] # None
    PROVE  /\ row'[o] \in Rows /\ row'[o] # None
           /\ row'[o].version = row[o].version
           /\ row'[o].pk = row[o].pk
           /\ row'[o].user = Reassigned(a, o)
<1>1. aim[a] \in Aims
  BY DEF TypeOK, AssignSet
<1>2. Reassigned(a, o) \in Users \cup {None}
  BY <1>1 DEF TypeOK, Reassigned, Aims, Rows
<1>3. row'[o] = [row[o] EXCEPT !.user = Reassigned(a, o)]
  BY DEF AssignSet
<1> QED
  BY <1>2, <1>3, TelephonyAssumption DEF TypeOK, Rows

LEMMA ProvideStep ==
    ASSUME TypeOK, CopyInv, NEW o \in Objects, Provide(o) \/ Remove(o)
    PROVE  TypeOK' /\ CopyInv'
<1> USE TelephonyAssumption, PostParts DEF TypeOK
<1>1. Act(o) /\ gone' \in SUBSET Objects
  BY DEF Provide, Remove
<1>2. made' = [made EXCEPT ![o] = @ + 1] /\ made[o] < MaxOps[o]
  BY <1>1 DEF Act
<1>3. \A x \in Objects : made'[x] \in Nat /\ made[x] <= made'[x] /\ made'[x] <= MaxOps[x]
  BY <1>2
<1>4. [object |-> o, seq |-> made[o] + 1] \in Posts
  BY <1>2, NextPost
<1>5. hook' \in [Posts -> {"unborn", "posted", "fetched", "read", "done", "lost"}]
  BY <1>1, <1>4 DEF Act
<1>6. \A x \in Objects : \A n \in 1 .. made[x] : n \in 1 .. made'[x]
  BY <1>3
<1>7. TypeOK'
  BY <1>1, <1>2, <1>3, <1>5, <1>6 DEF Act, assignVars, rowVars, history
<1>8. \A p \in Posts : hook'[p] # "unborn" => p.seq <= made'[p.object]
  <2> TAKE p \in Posts
  <2>1. CASE p = [object |-> o, seq |-> made[o] + 1]
    BY <1>2, <2>1
  <2>2. CASE p # [object |-> o, seq |-> made[o] + 1]
    BY <1>1, <1>3, <2>2 DEF Act, CopyInv
  <2> QED
    BY <2>1, <2>2
<1>9. \A p \in Posts :
        hook'[p] \in {"fetched", "read"} => copy'[p] \in 1 .. made'[p.object]
  BY <1>1, <1>4, <1>6 DEF Act, CopyInv
<1> QED
  BY <1>7, <1>8, <1>9 DEF CopyInv

LEMMA HandleStep ==
    ASSUME TypeOK, CopyInv, NEW p \in Posts, Handle(p)
    PROVE  TypeOK' /\ CopyInv'
<1> USE TelephonyAssumption, PostParts DEF TypeOK, CopyInv, providerVars, assignVars, rowVars,
      history
<1>1. CASE Created(p)
  BY <1>1 DEF Created, Begin
<1>2. CASE Fetch(p)
  BY <1>2 DEF Fetch, Begin, Live
<1>3. CASE FetchGone(p) \/ FetchFailed(p)
  BY <1>3 DEF FetchGone, FetchFailed, Begin
<1>4. CASE ReadRow(p)
  BY <1>4 DEF ReadRow
<1>5. CASE Save(p)
  <2>1. row' = [row EXCEPT ![p.object] = Saved(p)] /\ copy[p] \in 1 .. made[p.object]
    BY <1>5 DEF Save, CanSave
  <2>2. row' \in [Objects -> Rows \cup {None}]
    BY <2>1, SavedIsRow
  <2>3. \A o \in Objects : row'[o] # None => row'[o].version \in 1 .. made[o]
    BY <2>1, SavedIsRow
  <2>4. told' \in [Objects -> Nat]
    BY <1>5 DEF Save, Tell
  <2>5. hook' = [hook EXCEPT ![p] = "done"]
    BY <1>5 DEF Save
  <2>6. UNCHANGED <<made, gone, copy, seen, step, aim, held, faults, granted, late, raced,
                    missed, crossed>>
    BY <1>5 DEF Save
  <2>7. CopyInv'
    <3>1. hook[p] = "read"
      BY <1>5 DEF Save, CanSave
    <3>2. \A q \in Posts : hook'[q] # "unborn" => q.seq <= made[q.object]
      BY <2>5, <3>1
    <3>3. \A q \in Posts : hook'[q] \in {"fetched", "read"} => copy[q] \in 1 .. made[q.object]
      BY <2>5
    <3> QED
      BY <2>6, <3>2, <3>3
  <2>8. TypeOK'
    BY <2>2, <2>3, <2>4, <2>5, <2>6
  <2> QED
    BY <2>7, <2>8
<1>6. CASE SaveRaises(p)
  BY <1>6 DEF SaveRaises, Refused, CanSave
<1>7. CASE Deleted(p)
  BY <1>7 DEF Deleted, Begin
<1>8. CASE Raise(p)
  BY <1>8 DEF Raise, Refused
<1> QED
  BY <1>1, <1>2, <1>3, <1>4, <1>5, <1>6, <1>7, <1>8 DEF Handle

LEMMA AssignStep ==
    ASSUME TypeOK, CopyInv, NEW a \in Requests,
           AssignRead(a) \/ AssignClear(a) \/ AssignSet(a) \/ AssignRaises(a)
    PROVE  TypeOK' /\ CopyInv'
<1> USE TelephonyAssumption DEF TypeOK, CopyInv, providerVars, hookVars, rowVars, history
<1>1. CASE AssignRead(a)
  <2>1. PICK u \in Users, o \in Objects :
          /\ row[o] # None
          /\ aim' = [aim EXCEPT ![a] = [user |-> u, object |-> o, pk |-> row[o].pk]]
    BY <1>1 DEF AssignRead
  <2>2. [user |-> u, object |-> o, pk |-> row[o].pk] \in Aims
    BY <2>1 DEF Aims, Rows
  <2> QED
    BY <1>1, <2>1, <2>2 DEF AssignRead
<1>2. CASE AssignClear(a)
  BY <1>2 DEF AssignClear, Owners
<1>3. CASE AssignSet(a)
  <2>1. aim[a] \in Aims
    BY <1>3 DEF AssignSet
  <2>2. \A o \in Objects : row[o] = None => row'[o] = None
    BY <1>3 DEF AssignSet
  <2>3. row' \in [Objects -> Rows \cup {None}]
    BY <1>3, <2>2, ReassignedRow DEF AssignSet
  <2>4. \A o \in Objects : row'[o] # None => row'[o].version \in 1 .. made[o]
    BY <1>3, <2>2, ReassignedRow
  <2>5. told' \in [Objects -> Nat]
    BY <1>3, <2>1 DEF AssignSet, CanSet, Rows, Aims
  <2>6. \A o \in Objects : Reassigned(a, o) \in Users \cup {None}
    BY <2>1 DEF Reassigned, Aims, Rows
  <2>7. granted' \in [Objects -> Users \cup {None}]
    BY <1>3, <2>6 DEF AssignSet
  <2>8. crossed' \in SUBSET Objects
    BY <1>3, <2>1 DEF AssignSet, Aims
  <2> QED
    BY <1>3, <2>3, <2>4, <2>5, <2>7, <2>8 DEF AssignSet, End
<1>4. CASE AssignRaises(a)
  BY <1>4 DEF AssignRaises, End
<1> QED
  BY <1>1, <1>2, <1>3, <1>4

LEMMA UnassignStep ==
    ASSUME TypeOK, CopyInv, NEW u \in Users, Unassign(u)
    PROVE  TypeOK' /\ CopyInv'
<1> USE TelephonyAssumption DEF TypeOK, CopyInv, providerVars, hookVars, assignVars
<1>1. \A o \in Objects :
        /\ row'[o] \in Rows \cup {None}
        /\ row'[o] # None => row'[o].version \in 1 .. made[o]
  <2> TAKE o \in Objects
  <2>1. CASE o \in Owners(u)
    BY <2>1 DEF Unassign, Owners, Rows
  <2>2. CASE o \notin Owners(u)
    BY <2>2 DEF Unassign
  <2> QED
    BY <2>1, <2>2
<1>2. row' \in [Objects -> Rows \cup {None}]
  BY <1>1 DEF Unassign
<1>3. granted' \in [Objects -> Users \cup {None}] /\ crossed' \in SUBSET Objects
  BY DEF Unassign, Owners
<1> QED
  BY <1>1, <1>2, <1>3 DEF Unassign

LEMMA TypeInvariant == Spec => [](TypeOK /\ CopyInv)
<1>1. Init => TypeOK /\ CopyInv
  BY TelephonyAssumption DEF Init, TypeOK, CopyInv
<1>2. TypeOK /\ CopyInv /\ [Next]_vars => TypeOK' /\ CopyInv'
  <2>1. CASE UNCHANGED vars
    BY <2>1 DEF vars, providerVars, hookVars, assignVars, rowVars, history, TypeOK, CopyInv
  <2> QED
    BY <2>1, ProvideStep, HandleStep, AssignStep, UnassignStep DEF Next
<1>3. QED
  BY <1>1, <1>2, PTL DEF Spec

\* Every variable keeps its type: no row is ever ahead of the provider, though the
\* handlers copy what they read or fetched earlier.
THEOREM TypeCorrect == Spec => []TypeOK
BY TypeInvariant, PTL

-----------------------------------------------------------------------------
(* One extension per user.                                                 *)

\* Whatever a step does to the rows, a user who had one extension has one after it.
LEMMA OneStep ==
    ASSUME TypeOK, OneExtensionPerUser, [Next]_vars
    PROVE  OneExtensionPerUser'
<1> USE TelephonyAssumption, PostParts DEF OneExtensionPerUser, Owners
<1>1. ASSUME \A o \in Objects : row'[o] # None => row[o] # None /\ row'[o].user \in {row[o].user, None}
      PROVE  OneExtensionPerUser'
  BY <1>1
<1>2. CASE UNCHANGED row
  BY <1>2
<1>3. ASSUME NEW p \in Posts, Save(p)
      PROVE  OneExtensionPerUser'
  <2>1. row' = [row EXCEPT ![p.object] = Saved(p)] /\ Rivals(p) = {}
    BY <1>3 DEF Save, Clash
  <2>2. \A o \in Objects \ {p.object} : row'[o] = row[o]
    BY <2>1 DEF TypeOK
  <2>3. row'[p.object] = Saved(p)
    BY <2>1 DEF TypeOK
  <2>4. \A o \in Objects \ {p.object} :
          row[o] # None /\ Saved(p).user # None => row[o].user # Saved(p).user
    BY <2>1 DEF Rivals
  <2> QED
    BY <2>2, <2>3, <2>4
<1>4. ASSUME NEW p \in Posts, Deleted(p)
      PROVE  OneExtensionPerUser'
  BY <1>1, <1>4 DEF Deleted, TypeOK
<1>5. ASSUME NEW a \in Requests, AssignSet(a)
      PROVE  OneExtensionPerUser'
  <2>1. aim[a] \in Aims
    BY <1>5 DEF AssignSet, TypeOK
  <2>2. \A o \in Objects : row'[o] # None => row[o] # None /\ row'[o].user = Reassigned(a, o)
    BY <1>5, ReassignedRow DEF AssignSet
  <2>3. \A o \in Objects \ {aim[a].object} :
          row[o] # None /\ Reassigned(a, o) # None =>
              /\ Reassigned(a, o) = row[o].user
              /\ row[o].user # aim[a].user
    BY <1>5, <2>1 DEF Reassigned, AssignSet, CanSet
  <2>4. Reassigned(a, aim[a].object) = aim[a].user /\ aim[a].user \in Users
    BY <2>1 DEF Reassigned, Aims
  <2>5. ASSUME NEW u \in Users, NEW x \in Objects, NEW y \in Objects,
               row'[x] # None, row'[y] # None, row'[x].user = u, row'[y].user = u
        PROVE  x = y
    <3>1. CASE u = aim[a].user
      BY <2>2, <2>3, <2>5, <3>1
    <3>2. CASE u # aim[a].user
      <4>1. x # aim[a].object /\ y # aim[a].object
        BY <2>2, <2>4, <2>5, <3>2
      <4> QED
        BY <2>2, <2>3, <2>5, <4>1
    <3> QED
      BY <3>1, <3>2
  <2> QED
    BY <2>5
<1>6. ASSUME NEW u \in Users, Unassign(u)
      PROVE  OneExtensionPerUser'
  <2>1. \A o \in Objects :
          row'[o] # None => row[o] # None /\ row'[o].user \in {row[o].user, None}
    <3> TAKE o \in Objects
    <3>1. CASE o \in Owners(u)
      BY <1>6, <3>1 DEF Unassign, TypeOK, Rows
    <3>2. CASE o \notin Owners(u)
      BY <1>6, <3>2 DEF Unassign
    <3> QED
      BY <3>1, <3>2
  <2> QED
    BY <1>1, <2>1
<1>7. ASSUME NEW o \in Objects, Provide(o) \/ Remove(o)
      PROVE  UNCHANGED row
  BY <1>7 DEF Provide, Remove, Act, rowVars
<1>8. ASSUME NEW p \in Posts, Handle(p), ~Save(p), ~Deleted(p)
      PROVE  UNCHANGED row
  BY <1>8 DEF Handle, Created, Fetch, FetchGone, FetchFailed, ReadRow, SaveRaises, Raise, rowVars
<1>9. ASSUME NEW a \in Requests, AssignRead(a) \/ AssignClear(a) \/ AssignRaises(a)
      PROVE  UNCHANGED row
  BY <1>9 DEF AssignRead, AssignClear, AssignRaises, rowVars
<1>10. CASE UNCHANGED vars
  BY <1>2, <1>10 DEF vars, rowVars
<1> QED
  BY <1>2, <1>3, <1>4, <1>5, <1>6, <1>7, <1>8, <1>9, <1>10 DEF Next

\* A user never has two extensions, though assignments clear and set in two steps
\* and handlers write back the users they read.
THEOREM OneExtension == Spec => []OneExtensionPerUser
<1>1. Init => OneExtensionPerUser
  BY DEF Init, OneExtensionPerUser, Owners
<1>2. TypeOK /\ OneExtensionPerUser /\ [Next]_vars => OneExtensionPerUser'
  BY OneStep
<1>3. QED
  BY <1>1, <1>2, TypeCorrect, PTL DEF Spec

-----------------------------------------------------------------------------
(* Assignments and syncs.  OwnerIsLastAssigned is not inductive: a handler   *)
(* that has read the row will write back the user in it, so that user has to *)
(* be the one last assigned as long as nobody is recorded as having crossed  *)
(* it; and of two handlers at work on one extension the invariant must know. *)

UserOf(r) == IF r = None THEN None ELSE r.user

RaceInv ==
    \A p, q \in Posts :
        /\ p # q /\ p.object = q.object
        /\ hook[p] \in {"fetched", "read"} /\ hook[q] \in {"fetched", "read"}
        => p.object \in raced

OwnerInv ==
    \A o \in Objects \ (crossed \cup raced) :
        /\ UserOf(row[o]) = granted[o]
        /\ \A p \in Posts :
             p.object = o /\ hook[p] = "read" => UserOf(seen[p]) = granted[o]

LEMMA RaceStep ==
    ASSUME TypeOK, RaceInv, [Next]_vars
    PROVE  RaceInv' /\ raced \subseteq raced'
<1> USE PostParts DEF TypeOK, RaceInv
<1>1. ASSUME NEW p \in Posts, Begin(p), hook' = [hook EXCEPT ![p] = hook'[p]]
      PROVE  RaceInv' /\ raced \subseteq raced'
  BY <1>1 DEF Begin, OpenOn
<1>2. ASSUME NEW p \in Posts, UNCHANGED raced, hook' = [hook EXCEPT ![p] = hook'[p]],
             hook'[p] \in {"fetched", "read"} => hook[p] \in {"fetched", "read"}
      PROVE  RaceInv' /\ raced \subseteq raced'
  BY <1>2
<1>3. CASE UNCHANGED <<hook, raced>>
  BY <1>3
<1>4. ASSUME NEW p \in Posts, Handle(p)
      PROVE  RaceInv' /\ raced \subseteq raced'
  <2>1. CASE Created(p) \/ Fetch(p) \/ FetchGone(p) \/ FetchFailed(p) \/ Deleted(p)
    BY <1>1, <2>1 DEF Created, Fetch, FetchGone, FetchFailed, Deleted
  <2>2. CASE ReadRow(p) \/ Save(p) \/ SaveRaises(p) \/ Raise(p)
    BY <1>2, <2>2 DEF ReadRow, Save, SaveRaises, Raise, Refused, history
  <2> QED
    BY <1>4, <2>1, <2>2 DEF Handle
<1>5. ASSUME NEW o \in Objects, Provide(o) \/ Remove(o)
      PROVE  RaceInv' /\ raced \subseteq raced'
  <2>1. made[o] < MaxOps[o] /\ UNCHANGED raced
        /\ hook' = [hook EXCEPT ![[object |-> o, seq |-> made[o] + 1]] = "posted"]
    BY <1>5 DEF Provide, Remove, Act, history
  <2>2. \A p \in Posts : hook'[p] \in {"fetched", "read"} => hook[p] \in {"fetched", "read"}
    BY <2>1
  <2> QED
    BY <2>1, <2>2
<1>6. ASSUME NEW a \in Requests,
             AssignRead(a) \/ AssignClear(a) \/ AssignSet(a) \/ AssignRaises(a)
      PROVE  UNCHANGED <<hook, raced>>
  BY <1>6 DEF AssignRead, AssignClear, AssignSet, AssignRaises, End, hookVars, history
<1>7. ASSUME NEW u \in Users, Unassign(u)
      PROVE  UNCHANGED <<hook, raced>>
  BY <1>7 DEF Unassign, hookVars
<1>8. CASE UNCHANGED vars
  BY <1>3, <1>8 DEF vars, hookVars, history
<1> QED
  BY <1>3, <1>4, <1>5, <1>6, <1>7, <1>8 DEF Next

LEMMA OwnerStep ==
    ASSUME TypeOK, RaceInv, OwnerInv, [Next]_vars
    PROVE  OwnerInv'
<1> USE PostParts, TelephonyAssumption DEF TypeOK
<1>1. RaceInv' /\ raced \subseteq raced'
  BY RaceStep
\* Nothing of what is read and assigned changes.
<1>2. ASSUME UNCHANGED <<row, seen, granted, crossed>>,
             \A p \in Posts : hook'[p] = "read" => hook[p] = "read"
      PROVE  OwnerInv'
  BY <1>1, <1>2 DEF OwnerInv, UserOf
\* A handler reads the row.
<1>3. ASSUME NEW p \in Posts, UNCHANGED <<row, granted, crossed>>,
             hook' = [hook EXCEPT ![p] = "read"],
             seen' = [seen EXCEPT ![p] = row[p.object]]
      PROVE  OwnerInv'
  BY <1>1, <1>3 DEF OwnerInv, UserOf
<1>4. ASSUME NEW p \in Posts, Created(p) \/ ReadRow(p)
      PROVE  OwnerInv'
  BY <1>3, <1>4 DEF Created, ReadRow, rowVars, history
<1>5. ASSUME NEW p \in Posts,
             Fetch(p) \/ FetchGone(p) \/ FetchFailed(p) \/ SaveRaises(p) \/ Raise(p)
      PROVE  OwnerInv'
  BY <1>2, <1>5 DEF Fetch, FetchGone, FetchFailed, SaveRaises, Raise, Refused, rowVars
<1>6. ASSUME NEW p \in Posts, Save(p)
      PROVE  OwnerInv'
  <2>1. /\ UNCHANGED <<seen, granted, crossed, raced>>
        /\ hook[p] = "read"
        /\ hook' = [hook EXCEPT ![p] = "done"]
        /\ row' = [row EXCEPT ![p.object] = Saved(p)]
    BY <1>6 DEF Save, CanSave, history
  <2>2. Saved(p) # None /\ UserOf(Saved(p)) = UserOf(seen[p])
    BY SavedIsRow DEF UserOf
  <2>3. ASSUME NEW o \in Objects \ (crossed' \cup raced')
        PROVE  UserOf(row'[o]) = granted'[o]
    <3>1. CASE o = p.object
      BY <2>1, <2>2, <2>3, <3>1 DEF OwnerInv
    <3>2. CASE o # p.object
      BY <2>1, <2>3, <3>2 DEF OwnerInv
    <3> QED
      BY <3>1, <3>2
  <2>4. ASSUME NEW o \in Objects \ (crossed' \cup raced'), NEW q \in Posts,
               q.object = o, hook'[q] = "read"
        PROVE  UserOf(seen'[q]) = granted'[o]
    BY <2>1, <2>4 DEF OwnerInv, UserOf
  <2> QED
    BY <2>3, <2>4 DEF OwnerInv
<1>7. ASSUME NEW p \in Posts, Deleted(p)
      PROVE  OwnerInv'
  <2>1. /\ UNCHANGED <<seen, crossed>>
        /\ hook' = [hook EXCEPT ![p] = "done"]
        /\ row' = [row EXCEPT ![p.object] = None]
        /\ granted' = [granted EXCEPT ![p.object] = None]
        /\ OpenOn(p.object) # {} => p.object \in raced'
    BY <1>7 DEF Deleted, Begin
  <2>2. ASSUME NEW o \in Objects \ (crossed' \cup raced')
        PROVE  UserOf(row'[o]) = granted'[o]
    BY <1>1, <2>1, <2>2 DEF OwnerInv, UserOf
  <2>3. ASSUME NEW o \in Objects \ (crossed' \cup raced'), NEW q \in Posts,
               q.object = o, hook'[q] = "read"
        PROVE  UserOf(seen'[q]) = granted'[o]
    <3>1. hook[q] = "read" /\ q # p
      BY <2>1, <2>3
    <3>2. o # p.object
      BY <2>1, <2>3, <3>1 DEF OpenOn
    <3> QED
      BY <1>1, <2>1, <2>3, <3>1, <3>2 DEF OwnerInv, UserOf
  <2> QED
    BY <2>2, <2>3 DEF OwnerInv
<1>8. ASSUME NEW a \in Requests, AssignSet(a)
      PROVE  OwnerInv'
  <2> DEFINE written == held[a] \cup {aim[a].object}
  <2>1. /\ UNCHANGED <<seen, hook, raced>>
        /\ crossed' = crossed \cup (HalfSynced \cap written)
        /\ granted' = [o \in Objects |->
                         IF o \in written THEN Reassigned(a, o) ELSE granted[o]]
        /\ row[aim[a].object] # None
        /\ aim[a] \in Aims
    BY <1>8 DEF AssignSet, CanSet, End, hookVars
  <2>2. \A o \in Objects : row[o] = None => row'[o] = None
    BY <1>8 DEF AssignSet
  <2>3. \A o \in Objects : UserOf(row'[o]) = IF row[o] = None THEN None ELSE Reassigned(a, o)
    BY <1>8, <2>2, ReassignedRow DEF UserOf
  <2>4. ASSUME NEW o \in Objects \ (crossed' \cup raced')
        PROVE  UserOf(row'[o]) = granted'[o]
    <3>1. CASE o \in written
      BY <2>1, <2>3, <3>1 DEF Reassigned
    <3>2. CASE o \notin written
      <4>1. UserOf(row[o]) = granted[o] /\ granted'[o] = granted[o]
        BY <2>1, <2>4, <3>2 DEF OwnerInv
      <4>2. row[o] # None => Reassigned(a, o) = row[o].user
        BY <3>2 DEF Reassigned
      <4> QED
        BY <2>3, <4>1, <4>2 DEF UserOf
    <3> QED
      BY <3>1, <3>2
  <2>5. ASSUME NEW o \in Objects \ (crossed' \cup raced'), NEW q \in Posts,
               q.object = o, hook'[q] = "read"
        PROVE  UserOf(seen'[q]) = granted'[o]
    <3>1. o \in HalfSynced
      BY <2>1, <2>5 DEF HalfSynced
    <3>2. o \notin written
      BY <2>1, <2>5, <3>1
    <3> QED
      BY <2>1, <2>5, <3>2 DEF OwnerInv, UserOf
  <2> QED
    BY <2>4, <2>5 DEF OwnerInv
<1>9. ASSUME NEW u \in Users, Unassign(u)
      PROVE  OwnerInv'
  <2>1. /\ UNCHANGED <<seen, hook, raced>>
        /\ crossed' = crossed \cup (HalfSynced \cap Owners(u))
        /\ granted' = [o \in Objects |-> IF o \in Owners(u) THEN None ELSE granted[o]]
        /\ row' = [o \in Objects |-> IF o \in Owners(u) THEN [row[o] EXCEPT !.user = None]
                                     ELSE row[o]]
    BY <1>9 DEF Unassign, hookVars
  <2>2. ASSUME NEW o \in Objects \ (crossed' \cup raced')
        PROVE  UserOf(row'[o]) = granted'[o]
    <3>1. CASE o \in Owners(u)
      BY <2>1, <3>1 DEF Owners, Rows, UserOf
    <3>2. CASE o \notin Owners(u)
      BY <2>1, <2>2, <3>2 DEF OwnerInv
    <3> QED
      BY <3>1, <3>2
  <2>3. ASSUME NEW o \in Objects \ (crossed' \cup raced'), NEW q \in Posts,
               q.object = o, hook'[q] = "read"
        PROVE  UserOf(seen'[q]) = granted'[o]
    <3>1. o \in HalfSynced
      BY <2>1, <2>3 DEF HalfSynced
    <3>2. o \notin Owners(u)
      BY <2>1, <2>3, <3>1
    <3> QED
      BY <2>1, <2>3, <3>2 DEF OwnerInv, UserOf
  <2> QED
    BY <2>2, <2>3 DEF OwnerInv
<1>10. ASSUME NEW o \in Objects, Provide(o) \/ Remove(o)
       PROVE  OwnerInv'
  BY <1>2, <1>10 DEF Provide, Remove, Act, rowVars, history
<1>11. ASSUME NEW a \in Requests, AssignRead(a) \/ AssignClear(a) \/ AssignRaises(a)
       PROVE  OwnerInv'
  BY <1>2, <1>11 DEF AssignRead, AssignClear, AssignRaises, End, hookVars, rowVars, history
<1>12. CASE UNCHANGED vars
  BY <1>2, <1>12 DEF vars, hookVars, rowVars, history
<1> QED
  BY <1>4, <1>5, <1>6, <1>7, <1>8, <1>9, <1>10, <1>11, <1>12 DEF Next, Handle

\* However often an extension is synced, it stays with whom it was assigned to:
\* only a reassignment or another handler between a read and its save can undo it.
THEOREM OwnerStays == Spec => []OwnerIsLastAssigned
<1>1. Init => RaceInv /\ OwnerInv
  BY DEF Init, RaceInv, OwnerInv, UserOf
<1>2. TypeOK /\ RaceInv /\ OwnerInv /\ [Next]_vars => RaceInv' /\ OwnerInv'
  BY RaceStep, OwnerStep
<1>3. OwnerInv => OwnerIsLastAssigned
  BY DEF OwnerInv, OwnerIsLastAssigned, UserOf
<1>4. QED
  BY <1>1, <1>2, <1>3, TypeCorrect, PTL DEF Spec

-----------------------------------------------------------------------------
(* Credentials and the mirror.  Both rest on the order in which posts are    *)
(* handled: what a handler does next to or after another one is recorded in  *)
(* raced and late, and these histories only grow.                            *)

LEMMA PostIs ==
    ASSUME NEW p \in Posts, NEW q \in Posts, p.object = q.object, p.seq = q.seq
    PROVE  p = q
BY DEF Posts

\* A row stays what it is but for its user.
SameRows ==
    \A o \in Objects :
        /\ row'[o] # None <=> row[o] # None
        /\ row'[o] # None => row'[o].version = row[o].version

LEMMA BeginMeans ==
    ASSUME TypeOK, NEW p \in Posts, Begin(p)
    PROVE  /\ hook[p] = "posted"
           /\ OpenOn(p.object) # {} => p.object \in raced'
           /\ \A q \in Posts :
                  (p.seq = 1 /\ q.object = p.object /\ q.seq > 1
                   /\ hook[q] \notin {"unborn", "posted"}) => p.object \in late'
           /\ late \subseteq late' /\ raced \subseteq raced'
BY DEF Begin

\* What requests do to rows and posts.
LEMMA RequestStep ==
    ASSUME TypeOK,
           \/ \E a \in Requests :
                AssignRead(a) \/ AssignClear(a) \/ AssignSet(a) \/ AssignRaises(a)
           \/ \E u \in Users : Unassign(u)
    PROVE  /\ UNCHANGED <<providerVars, hookVars, late, raced, missed>>
           /\ SameRows
           /\ \A o \in Objects : row'[o] # None =>
                  \/ row'[o].user = None
                  \/ row'[o].user = row[o].user /\ told'[o] = told[o]
                  \/ told'[o] = row'[o].version
<1> USE TelephonyAssumption
<1>1. ASSUME NEW a \in Requests, AssignRead(a) \/ AssignClear(a) \/ AssignRaises(a)
      PROVE  UNCHANGED <<providerVars, hookVars, row, told, late, raced, missed>>
  BY <1>1 DEF AssignRead, AssignClear, AssignRaises, End, rowVars, history
<1>2. ASSUME NEW a \in Requests, AssignSet(a)
      PROVE  /\ UNCHANGED <<providerVars, hookVars, late, raced, missed>>
             /\ SameRows
             /\ \A o \in Objects : row'[o] # None =>
                    \/ row'[o].user = None
                    \/ row'[o].user = row[o].user /\ told'[o] = told[o]
                    \/ told'[o] = row'[o].version
  <2>1. UNCHANGED <<providerVars, hookVars, late, raced, missed>>
    BY <1>2 DEF AssignSet, End
  <2>2. \A o \in Objects : row[o] = None => row'[o] = None
    BY <1>2 DEF AssignSet
  <2>3. \A o \in Objects : row[o] # None =>
           row'[o] # None /\ row'[o].version = row[o].version /\ row'[o].user = Reassigned(a, o)
    BY <1>2, ReassignedRow
  <2>4. told' = [told EXCEPT ![aim[a].object] = row[aim[a].object].version]
    BY <1>2 DEF AssignSet
  <2>5. \A o \in Objects : row'[o] # None =>
           \/ row'[o].user = None
           \/ row'[o].user = row[o].user /\ told'[o] = told[o]
           \/ told'[o] = row'[o].version
    BY <2>2, <2>3, <2>4 DEF Reassigned, TypeOK
  <2> QED
    BY <2>1, <2>2, <2>3, <2>5 DEF SameRows
<1>3. ASSUME NEW u \in Users, Unassign(u)
      PROVE  /\ UNCHANGED <<providerVars, hookVars, late, raced, missed, told>>
             /\ SameRows
             /\ \A o \in Objects : row'[o] # None => row'[o].user \in {None, row[o].user}
  <2>1. ASSUME NEW o \in Objects
        PROVE  /\ row'[o] # None <=> row[o] # None
               /\ row'[o] # None =>
                      /\ row'[o].version = row[o].version
                      /\ row'[o].user \in {None, row[o].user}
    <3>1. CASE o \in Owners(u)
      BY <1>3, <3>1 DEF Unassign, Owners, TypeOK, Rows
    <3>2. CASE o \notin Owners(u)
      BY <1>3, <3>2 DEF Unassign
    <3> QED
      BY <3>1, <3>2
  <2> QED
    BY <1>3, <2>1 DEF Unassign, SameRows
<1> QED
  BY <1>1, <1>2, <1>3 DEF SameRows

\* OwnerHoldsCurrentSecret is about rows that handlers of extension.created may have
\* read: outside the two histories such a handler has found none, as whoever inserted
\* one has handled a later post.
SecretInv ==
    /\ \A p \in Posts : p.seq = 1 => hook[p] # "fetched"
    /\ \A o \in Objects : row[o] # None => \E q \in Posts : q.object = o /\ hook[q] = "done"
    /\ \A p \in Posts :
           (p.seq = 1 /\ hook[p] = "read" /\ p.object \notin late \cup raced) => seen[p] = None
    /\ OwnerHoldsCurrentSecret

LEMMA SecretStep ==
    ASSUME TypeOK, CopyInv, SecretInv, [Next]_vars
    PROVE  SecretInv'
<1> USE TelephonyAssumption, PostParts
\* Rows, what was told and what was read stay; the posts go on.
<1>1. ASSUME UNCHANGED <<row, told, seen>>, late \subseteq late', raced \subseteq raced',
             \A p \in Posts : /\ hook[p] = "done" => hook'[p] = "done"
                              /\ hook'[p] = "read" => hook[p] = "read"
                              /\ (p.seq = 1 /\ hook'[p] = "fetched") => hook[p] = "fetched"
      PROVE  SecretInv'
  BY <1>1 DEF SecretInv, OwnerHoldsCurrentSecret
<1>2. ASSUME NEW o \in Objects, Provide(o) \/ Remove(o)
      PROVE  SecretInv'
  <2>1. /\ hook' = [hook EXCEPT ![[object |-> o, seq |-> made[o] + 1]] = "posted"]
        /\ made[o] < MaxOps[o]
        /\ UNCHANGED <<row, told, seen, late, raced>>
    BY <1>2 DEF Provide, Remove, Act, rowVars, history
  <2>2. [object |-> o, seq |-> made[o] + 1] \in Posts
    BY <2>1, NextPost DEF TypeOK
  <2>3. hook[[object |-> o, seq |-> made[o] + 1]] = "unborn"
    BY <2>2 DEF CopyInv, TypeOK
  <2> QED
    BY <1>1, <2>1, <2>3 DEF TypeOK
<1>3. ASSUME NEW p \in Posts, Created(p)
      PROVE  SecretInv'
  <2>1. /\ hook' = [hook EXCEPT ![p] = "read"] /\ hook[p] = "posted"
        /\ seen' = [seen EXCEPT ![p] = row[p.object]]
        /\ UNCHANGED <<row, told>>
        /\ late \subseteq late' /\ raced \subseteq raced'
        /\ p.seq = 1
    BY <1>3, BeginMeans DEF Created, rowVars, Kind
  <2>2. row[p.object] # None => p.object \in late'
    <3> SUFFICES ASSUME row[p.object] # None
                 PROVE  p.object \in late'
      OBVIOUS
    <3>1. PICK q \in Posts : q.object = p.object /\ hook[q] = "done"
      BY DEF SecretInv
    <3>2. q.seq > 1
      BY <2>1, <3>1, PostIs
    <3> QED
      BY <1>3, <2>1, <3>1, <3>2, BeginMeans DEF Created
  <2>3. \A q \in Posts :
          (q.seq = 1 /\ hook'[q] = "read" /\ q.object \notin late' \cup raced') => seen'[q] = None
    BY <2>1, <2>2 DEF SecretInv, TypeOK
  <2> QED
    BY <2>1, <2>3 DEF SecretInv, OwnerHoldsCurrentSecret, TypeOK
<1>4. ASSUME NEW p \in Posts, Fetch(p) \/ FetchGone(p) \/ FetchFailed(p)
      PROVE  SecretInv'
  <2>1. /\ UNCHANGED <<row, told, seen>> /\ hook[p] = "posted"
        /\ late \subseteq late' /\ raced \subseteq raced'
        /\ p.seq # 1
        /\ hook' = [hook EXCEPT ![p] = hook'[p]] /\ hook'[p] \in {"fetched", "done"}
    BY <1>4, BeginMeans DEF Fetch, FetchGone, FetchFailed, rowVars, Kind, TypeOK
  <2> QED
    BY <1>1, <2>1 DEF TypeOK
<1>5. ASSUME NEW p \in Posts, ReadRow(p)
      PROVE  SecretInv'
  <2>1. /\ hook' = [hook EXCEPT ![p] = "read"] /\ hook[p] = "fetched"
        /\ seen' = [seen EXCEPT ![p] = row[p.object]]
        /\ UNCHANGED <<row, told, late, raced>>
    BY <1>5 DEF ReadRow, rowVars, history
  <2> QED
    BY <2>1 DEF SecretInv, OwnerHoldsCurrentSecret, TypeOK
<1>6. ASSUME NEW p \in Posts, SaveRaises(p) \/ Raise(p)
      PROVE  SecretInv'
  <2>1. /\ UNCHANGED <<row, told, seen, late, raced>>
        /\ hook[p] \in {"posted", "fetched", "read"}
        /\ hook' = [hook EXCEPT ![p] = hook'[p]] /\ hook'[p] \in {"posted", "lost"}
    BY <1>6 DEF SaveRaises, Raise, Refused, CanSave, rowVars, TypeOK
  <2> QED
    BY <1>1, <2>1 DEF TypeOK
<1>7. ASSUME NEW p \in Posts, Save(p)
      PROVE  SecretInv'
  <2>1. /\ hook' = [hook EXCEPT ![p] = "done"] /\ hook[p] = "read"
        /\ row' = [row EXCEPT ![p.object] = Saved(p)]
        /\ UNCHANGED <<seen, late, raced>>
    BY <1>7 DEF Save, CanSave, history, hookVars
  <2>2. /\ Saved(p) \in Rows /\ Saved(p).version = copy[p]
        /\ Saved(p).user = IF seen[p] = None THEN None ELSE seen[p].user
    BY SavedIsRow
  <2>3. /\ \A o \in Objects \ {p.object} : told'[o] = told[o] /\ row'[o] = row[o]
        /\ Kind(p) # "created" /\ Saved(p).user # None => told'[p.object] = copy[p]
        /\ row'[p.object] = Saved(p)
    BY <1>7, <2>1 DEF Save, Tell, TypeOK
  <2>4. Kind(p) = "created" => p.seq = 1
    BY DEF Kind
  <2>5. OwnerHoldsCurrentSecret'
    BY <2>1, <2>2, <2>3, <2>4 DEF SecretInv, OwnerHoldsCurrentSecret
  <2>6. \A o \in Objects : row'[o] # None => \E q \in Posts : q.object = o /\ hook'[q] = "done"
    <3> TAKE o \in Objects
    <3>1. CASE o = p.object
      BY <2>1, <3>1 DEF TypeOK
    <3>2. CASE o # p.object
      BY <2>1, <2>3, <3>2 DEF SecretInv, TypeOK
    <3> QED
      BY <3>1, <3>2
  <2> QED
    BY <2>1, <2>5, <2>6 DEF SecretInv, TypeOK
<1>8. ASSUME NEW p \in Posts, Deleted(p)
      PROVE  SecretInv'
  <2>1. /\ hook' = [hook EXCEPT ![p] = "done"] /\ hook[p] = "posted"
        /\ row' = [row EXCEPT ![p.object] = None]
        /\ told' = [told EXCEPT ![p.object] = 0]
        /\ UNCHANGED seen
        /\ late \subseteq late' /\ raced \subseteq raced'
    BY <1>8, BeginMeans DEF Deleted, history, hookVars
  <2>2. OwnerHoldsCurrentSecret'
    BY <2>1 DEF SecretInv, OwnerHoldsCurrentSecret, TypeOK
  <2>3. \A o \in Objects : row'[o] # None => \E q \in Posts : q.object = o /\ hook'[q] = "done"
    BY <2>1 DEF SecretInv, TypeOK
  <2> QED
    BY <2>1, <2>2, <2>3 DEF SecretInv, TypeOK
<1>9. ASSUME \/ \E a \in Requests :
                   AssignRead(a) \/ AssignClear(a) \/ AssignSet(a) \/ AssignRaises(a)
             \/ \E u \in Users : Unassign(u)
      PROVE  SecretInv'
  <2>1. UNCHANGED <<hook, seen, late, raced>>
    BY <1>9, RequestStep DEF hookVars
  <2>2. OwnerHoldsCurrentSecret'
    BY <1>9, <2>1, RequestStep DEF SecretInv, OwnerHoldsCurrentSecret, SameRows
  <2>3. \A o \in Objects : row'[o] # None => row[o] # None
    BY <1>9, RequestStep DEF SameRows
  <2> QED
    BY <2>1, <2>2, <2>3 DEF SecretInv
<1>10. CASE UNCHANGED vars
  BY <1>1, <1>10 DEF vars, hookVars, rowVars, history
<1> QED
  BY <1>2, <1>3, <1>4, <1>5, <1>6, <1>7, <1>8, <1>9, <1>10 DEF Next, Handle

\* Whoever has an extension was given or told its present credentials, unless its
\* first post was handled after or next to another one.
THEOREM OwnerHoldsSecret == Spec => []OwnerHoldsCurrentSecret
<1>1. Init => SecretInv
  BY DEF Init, SecretInv, OwnerHoldsCurrentSecret
<1>2. SecretInv => OwnerHoldsCurrentSecret
  BY DEF SecretInv
<1>3. QED
  BY <1>1, <1>2, SecretStep, TypeInvariant, PTL DEF Spec

-----------------------------------------------------------------------------
(* The mirror.  The post that decides is the provider's last one: once it is *)
(* handled the mirror is right, and whoever is still at work on the          *)
(* extension has in hand what the provider has now.                          *)

\* Posts are made in order, a lost one is recorded, and a deletion is not the first.
BornInv ==
    /\ \A p \in Posts : p.seq <= made[p.object] => hook[p] # "unborn"
    /\ \A p \in Posts : hook[p] = "lost" => p.object \in missed
    /\ \A o \in gone : made[o] > 1

Top(o) == [object |-> o, seq |-> made[o]]

Mirrored(o) ==
    /\ hook[Top(o)] = "done" =>
           IF o \in gone THEN row[o] = None /\ OpenOn(o) = {}
           ELSE /\ row[o] # None /\ row[o].version = made[o]
                /\ \A q \in OpenOn(o) : copy[q] = made[o]
    /\ hook[Top(o)] \in {"fetched", "read"} => copy[Top(o)] = made[o] /\ o \notin gone

MirrorInv ==
    \A o \in Objects \ (late \cup raced \cup missed) : made[o] > 0 => Mirrored(o)

LEMMA TopIsPost ==
    ASSUME TypeOK, NEW o \in Objects, made[o] > 0
    PROVE  Top(o) \in Posts
<1>1. Top(o) \in [object : {o}, seq : 1 .. MaxOps[o]]
  BY TelephonyAssumption DEF TypeOK, Top
<1> QED
  BY <1>1 DEF Posts

LEMMA BornStep ==
    ASSUME TypeOK, CopyInv, BornInv, [Next]_vars
    PROVE  BornInv' /\ missed \subseteq missed'
<1> USE TelephonyAssumption, PostParts
<1>1. ASSUME NEW o \in Objects, Provide(o) \/ Remove(o)
      PROVE  BornInv' /\ missed \subseteq missed'
  <2>1. /\ hook' = [hook EXCEPT ![[object |-> o, seq |-> made[o] + 1]] = "posted"]
        /\ made' = [made EXCEPT ![o] = @ + 1]
        /\ UNCHANGED missed
    BY <1>1 DEF Provide, Remove, Act, history
  <2>2. gone' = gone \/ (gone' = gone \cup {o} /\ made[o] > 0)
    BY <1>1 DEF Provide, Remove, Live
  <2>3. \A p \in Posts : p.seq <= made'[p.object] => hook'[p] # "unborn"
    <3> SUFFICES ASSUME NEW p \in Posts, p.seq <= made'[p.object]
                 PROVE  hook'[p] # "unborn"
      OBVIOUS
    <3>1. CASE p = [object |-> o, seq |-> made[o] + 1]
      BY <2>1, <3>1 DEF TypeOK
    <3>2. CASE p # [object |-> o, seq |-> made[o] + 1]
      <4>1. hook'[p] = hook[p]
        BY <2>1, <3>2 DEF TypeOK
      <4>2. p.seq <= made[p.object]
        <5>1. ~(p.object = o /\ p.seq = made[o] + 1)
          BY <3>2 DEF Posts
        <5>2. p.object \in Objects /\ p.seq \in Nat /\ made[p.object] \in Nat
          BY DEF TypeOK
        <5>3. CASE p.object = o
          <6>1. made'[o] = made[o] + 1
            BY <2>1 DEF TypeOK
          <6>2. p.seq # made[o] + 1 /\ p.seq <= made[o] + 1 /\ made[o] \in Nat
            BY <5>1, <5>2, <5>3, <6>1
          <6> QED
            BY <5>2, <5>3, <6>2
        <5>4. CASE p.object # o
          BY <2>1, <5>2, <5>4 DEF TypeOK
        <5> QED
          BY <5>3, <5>4
      <4> QED
        BY <4>1, <4>2 DEF BornInv
    <3> QED
      BY <3>1, <3>2
  <2>4. \A x \in gone' : made'[x] > 1
    BY <2>1, <2>2 DEF TypeOK, BornInv
  <2>5. \A p \in Posts : hook'[p] = "lost" => p.object \in missed'
    BY <2>1 DEF TypeOK, BornInv
  <2> QED
    BY <2>1, <2>3, <2>4, <2>5 DEF BornInv
<1>2. ASSUME NEW p \in Posts, Handle(p)
      PROVE  BornInv' /\ missed \subseteq missed'
  <2>1. /\ UNCHANGED providerVars
        /\ hook' = [hook EXCEPT ![p] = hook'[p]] /\ hook'[p] # "unborn"
        /\ hook'[p] = "lost" => p.object \in missed'
        /\ missed \subseteq missed'
    BY <1>2 DEF Handle, Created, Fetch, FetchGone, FetchFailed, ReadRow, Save, SaveRaises,
       Deleted, Raise, Refused, Begin, TypeOK, history
  <2> QED
    BY <2>1 DEF BornInv, TypeOK, providerVars
<1>3. ASSUME \/ \E a \in Requests :
                   AssignRead(a) \/ AssignClear(a) \/ AssignSet(a) \/ AssignRaises(a)
             \/ \E u \in Users : Unassign(u)
      PROVE  BornInv' /\ missed \subseteq missed'
  BY <1>3, RequestStep DEF BornInv, providerVars, hookVars
<1>4. CASE UNCHANGED vars
  BY <1>4 DEF BornInv, vars, providerVars, hookVars, history
<1> QED
  BY <1>1, <1>2, <1>3, <1>4 DEF Next

LEMMA MirrorStep ==
    ASSUME TypeOK, CopyInv, RaceInv, BornInv, MirrorInv, [Next]_vars
    PROVE  MirrorInv'
<1> USE TelephonyAssumption, PostParts
<1>1. raced \subseteq raced' /\ missed \subseteq missed'
  BY RaceStep, BornStep
\* Rows stay, and one post goes back or on without ending.
<1>2. ASSUME NEW o \in Objects, made[o] > 0, Mirrored(o), UNCHANGED <<made, gone, copy>>,
             row'[o] # None <=> row[o] # None,
             row'[o] # None => row'[o].version = row[o].version,
             \A q \in Posts : q.object = o =>
                 /\ hook'[q] \in {"fetched", "read"} => hook[q] \in {"fetched", "read"}
                 /\ hook'[q] = "done" => hook[q] = "done"
      PROVE  Mirrored(o)'
  <2>1. Top(o) \in Posts /\ Top(o).object = o /\ Top(o)' = Top(o)
    BY <1>2, TopIsPost DEF Top
  <2>2. OpenOn(o)' \subseteq OpenOn(o)
    BY <1>2 DEF OpenOn
  <2> QED
    BY <1>2, <2>1, <2>2 DEF Mirrored, TypeOK
\* The last post of another extension.
<1>3. ASSUME NEW o \in Objects, made[o] > 0, Mirrored(o), made'[o] = made[o],
             o \in gone' <=> o \in gone, row'[o] = row[o],
             \A q \in Posts : q.object = o => hook'[q] = hook[q] /\ copy'[q] = copy[q]
      PROVE  Mirrored(o)'
  <2>1. Top(o) \in Posts /\ Top(o).object = o /\ Top(o)' = Top(o)
    BY <1>3, TopIsPost DEF Top
  <2>2. OpenOn(o)' = OpenOn(o)
    BY <1>3 DEF OpenOn
  <2> QED
    BY <1>3, <2>1, <2>2 DEF Mirrored, OpenOn
<1>4. ASSUME NEW x \in Objects, Provide(x) \/ Remove(x)
      PROVE  MirrorInv'
  <2>1. /\ hook' = [hook EXCEPT ![[object |-> x, seq |-> made[x] + 1]] = "posted"]
        /\ made' = [made EXCEPT ![x] = @ + 1] /\ made[x] < MaxOps[x]
        /\ UNCHANGED <<copy, row, late, raced, missed>>
        /\ gone' \in {gone, gone \cup {x}}
    BY <1>4 DEF Provide, Remove, Act, rowVars, history
  <2>2. [object |-> x, seq |-> made[x] + 1] \in Posts
    BY <2>1, NextPost DEF TypeOK
  <2>3. hook'[Top(x)'] = "posted"
    BY <2>1, <2>2 DEF Top, TypeOK
  <2>4. Mirrored(x)'
    BY <2>3 DEF Mirrored
  <2>5. ASSUME NEW o \in Objects \ (late' \cup raced' \cup missed'), made'[o] > 0, o # x
        PROVE  Mirrored(o)'
    <3>1. made[o] > 0 /\ Mirrored(o)
      BY <2>1, <2>5 DEF MirrorInv, TypeOK
    <3> QED
      BY <1>3, <2>1, <2>5, <3>1 DEF TypeOK
  <2> QED
    BY <2>4, <2>5 DEF MirrorInv
<1>5. ASSUME NEW p \in Posts, Handle(p)
      PROVE  MirrorInv'
  <2>1. /\ UNCHANGED <<made, gone>>
        /\ \A q \in Posts : q # p => hook'[q] = hook[q] /\ copy'[q] = copy[q]
        /\ \A o \in Objects : o # p.object => row'[o] = row[o]
        /\ late \subseteq late'
    <3> USE DEF TypeOK, providerVars, rowVars, history
    <3>1. CASE Created(p)
      BY <3>1, BeginMeans DEF Created
    <3>2. CASE Fetch(p)
      BY <3>2, BeginMeans DEF Fetch
    <3>3. CASE FetchGone(p) \/ FetchFailed(p)
      BY <3>3, BeginMeans DEF FetchGone, FetchFailed
    <3>4. CASE ReadRow(p)
      BY <3>4 DEF ReadRow
    <3>5. CASE Save(p)
      BY <3>5 DEF Save
    <3>6. CASE SaveRaises(p) \/ Raise(p)
      BY <3>6 DEF SaveRaises, Raise, Refused
    <3>7. CASE Deleted(p)
      BY <3>7, BeginMeans DEF Deleted
    <3> QED
      BY <1>5, <3>1, <3>2, <3>3, <3>4, <3>5, <3>6, <3>7 DEF Handle
  <2>2. ASSUME NEW o \in Objects \ (late' \cup raced' \cup missed'), made'[o] > 0,
               o # p.object
        PROVE  Mirrored(o)'
    <3>1. made[o] > 0 /\ Mirrored(o)
      BY <1>1, <2>1, <2>2 DEF MirrorInv
    <3> QED
      BY <1>3, <2>1, <2>2, <3>1
  <2>3. ASSUME p.object \notin late' \cup raced' \cup missed'
        PROVE  Mirrored(p.object)'
    <3> DEFINE o == p.object
               top == Top(o)
    <3>1. /\ o \in Objects \ (late \cup raced \cup missed)
          /\ hook[p] # "unborn"
      BY <1>1, <1>5, <2>1, <2>3 DEF Handle, Created, Fetch, FetchGone, FetchFailed, ReadRow,
         Save, SaveRaises, Deleted, Raise, Begin, CanSave
    <3>2. made[o] > 0 /\ p.seq <= made[o]
      BY <3>1 DEF CopyInv, TypeOK
    <3>3. Mirrored(o)
      BY <3>1, <3>2 DEF MirrorInv
    <3>4. top \in Posts /\ top.object = o /\ top.seq = made[o] /\ Top(o)' = top
      BY <2>1, <3>2, TopIsPost DEF Top
    <3>5. p # top => p.seq < made[o]
      <4>1. p.seq \in Nat /\ made[o] \in Nat
        BY <3>1 DEF TypeOK
      <4>2. p.seq = made[o] => p = top
        BY <3>4, PostIs
      <4> QED
        BY <3>2, <4>1, <4>2
    <3>6. CASE Created(p)
      <4>1. /\ p.seq = 1 /\ OpenOn(o) = {} /\ hook[p] = "posted"
            /\ hook' = [hook EXCEPT ![p] = "read"]
            /\ copy' = [copy EXCEPT ![p] = 1]
        BY <2>3, <3>6, BeginMeans DEF Created, Kind
      <4>2. CASE p = top
        <5>1. o \notin gone /\ made[o] = 1
          BY <3>4, <4>1, <4>2 DEF BornInv
        <5> QED
          BY <2>1, <3>4, <4>1, <4>2, <5>1 DEF Mirrored, TypeOK
      <4>3. CASE p # top
        <5>1. hook[top] \in {"unborn", "posted"}
          BY <2>3, <3>4, <3>5, <3>6, <4>1, <4>3, BeginMeans DEF Created
        <5>2. hook'[Top(o)'] \in {"unborn", "posted"}
          BY <2>1, <3>4, <4>3, <5>1
        <5> QED
          BY <5>2 DEF Mirrored
      <4> QED
        BY <4>2, <4>3
    <3>7. CASE Fetch(p)
      <4>1. /\ OpenOn(o) = {} /\ hook[p] = "posted" /\ o \notin gone
            /\ hook' = [hook EXCEPT ![p] = "fetched"]
            /\ copy' = [copy EXCEPT ![p] = made[o]]
            /\ UNCHANGED row
        BY <2>3, <3>7, BeginMeans DEF Fetch, Live, rowVars
      <4>2. OpenOn(o)' = {p}
        BY <4>1 DEF OpenOn, TypeOK
      <4> QED
        BY <2>1, <3>3, <3>4, <4>1, <4>2 DEF Mirrored, TypeOK
    <3>8. CASE FetchGone(p)
      <4>1. /\ hook[p] = "posted" /\ o \in gone /\ p # top
            /\ hook' = [hook EXCEPT ![p] = "done"]
            /\ UNCHANGED <<row, copy>>
        BY <3>4, <3>8, BeginMeans DEF FetchGone, Kind, rowVars, BornInv
      <4>2. OpenOn(o)' = OpenOn(o)
        BY <4>1 DEF OpenOn, TypeOK
      <4> QED
        BY <2>1, <3>3, <3>4, <4>1, <4>2 DEF Mirrored, TypeOK
    <3>9. CASE FetchFailed(p)
      BY <2>3, <3>9 DEF FetchFailed
    <3>10. CASE ReadRow(p)
      <4>1. /\ hook[p] = "fetched"
            /\ hook' = [hook EXCEPT ![p] = "read"]
            /\ UNCHANGED <<row, copy>>
        BY <3>10 DEF ReadRow, rowVars
      <4> QED
        BY <1>2, <2>1, <3>2, <3>3, <4>1 DEF TypeOK
    <3>11. CASE SaveRaises(p) \/ Raise(p)
      <4>1. /\ hook' = [hook EXCEPT ![p] = hook'[p]] /\ hook'[p] \in {"posted", "lost"}
            /\ UNCHANGED <<row, copy>>
        BY <3>11 DEF SaveRaises, Raise, Refused, rowVars, TypeOK
      <4> QED
        BY <1>2, <2>1, <3>2, <3>3, <4>1 DEF TypeOK
    <3>12. CASE Save(p)
      <4>1. /\ hook[p] = "read" /\ hook' = [hook EXCEPT ![p] = "done"]
            /\ row' = [row EXCEPT ![o] = Saved(p)]
            /\ UNCHANGED copy
        BY <3>12 DEF Save, CanSave
      <4>2. row'[o] = Saved(p) /\ Saved(p) # None /\ Saved(p).version = copy[p]
        BY <4>1, SavedIsRow DEF TypeOK
      <4>3. p \in OpenOn(o) /\ OpenOn(o)' \subseteq OpenOn(o)
        BY <4>1 DEF OpenOn, TypeOK
      <4>4. CASE p = top
        <5>1. OpenOn(o)' = {}
          BY <3>1, <4>1 DEF OpenOn, RaceInv, TypeOK
        <5>2. o \notin gone /\ copy[p] = made[o]
          BY <3>3, <4>1, <4>4 DEF Mirrored
        <5> QED
          BY <2>1, <3>3, <3>4, <4>1, <4>2, <4>4, <5>1, <5>2 DEF Mirrored, TypeOK
      <4>5. CASE p # top
        BY <2>1, <3>3, <3>4, <4>1, <4>2, <4>3, <4>5 DEF Mirrored, TypeOK
      <4> QED
        BY <4>4, <4>5
    <3>13. CASE Deleted(p)
      <4>1. /\ p = top /\ o \in gone /\ OpenOn(o) = {} /\ hook[p] = "posted"
            /\ hook' = [hook EXCEPT ![p] = "done"]
            /\ row' = [row EXCEPT ![o] = None]
        BY <2>3, <3>4, <3>13, PostIs, BeginMeans DEF Deleted, Kind
      <4>2. OpenOn(o)' = {}
        BY <4>1 DEF OpenOn, TypeOK
      <4> QED
        BY <2>1, <3>4, <4>1, <4>2 DEF Mirrored, TypeOK
    <3> QED
      BY <1>5, <3>6, <3>7, <3>8, <3>9, <3>10, <3>11, <3>12, <3>13 DEF Handle
  <2> QED
    BY <2>2, <2>3 DEF MirrorInv
<1>6. ASSUME \/ \E a \in Requests :
                   AssignRead(a) \/ AssignClear(a) \/ AssignSet(a) \/ AssignRaises(a)
             \/ \E u \in Users : Unassign(u)
      PROVE  MirrorInv'
  <2>1. UNCHANGED <<made, gone, copy, hook, late, raced, missed>> /\ SameRows
    BY <1>6, RequestStep DEF providerVars, hookVars
  <2>2. ASSUME NEW o \in Objects \ (late' \cup raced' \cup missed'), made'[o] > 0
        PROVE  Mirrored(o)'
    BY <1>2, <2>1, <2>2 DEF MirrorInv, SameRows
  <2> QED
    BY <2>2 DEF MirrorInv
<1>7. CASE UNCHANGED vars
  <2>1. UNCHANGED <<made, gone, copy, hook, row, late, raced, missed>>
    BY <1>7 DEF vars, providerVars, hookVars, rowVars, history
  <2>2. ASSUME NEW o \in Objects \ (late' \cup raced' \cup missed'), made'[o] > 0
        PROVE  Mirrored(o)'
    BY <1>2, <2>1, <2>2 DEF MirrorInv
  <2> QED
    BY <2>2 DEF MirrorInv
<1> QED
  BY <1>4, <1>5, <1>6, <1>7 DEF Next

\* At rest the mirror has what the provider has, outside the three histories.
LEMMA MirrorMeans ==
    ASSUME TypeOK, BornInv, MirrorInv
    PROVE  MirrorsProvider
<1> USE TelephonyAssumption, PostParts
<1> SUFFICES ASSUME NEW o \in Objects, AtRest(o), o \notin late \cup raced \cup missed
             PROVE  /\ row[o] # None <=> Live(o)
                    /\ row[o] # None => row[o].version = made[o]
  BY DEF MirrorsProvider
<1>1. CASE made[o] = 0
  BY <1>1 DEF TypeOK, Live
<1>2. CASE made[o] > 0
  <2>1. Top(o) \in Posts /\ Top(o).object = o /\ Top(o).seq = made[o]
    BY <1>2, TopIsPost DEF Top
  <2>2. hook[Top(o)] = "done"
    BY <2>1 DEF AtRest, BornInv, TypeOK
  <2> QED
    BY <1>2, <2>2 DEF MirrorInv, Mirrored, Live
<1> QED
  BY <1>1, <1>2 DEF TypeOK

\* However many posts the provider makes and however they arrive, the mirror ends as
\* the provider has it, unless the first was late, two overlapped or one was missed.
THEOREM MirrorsAtRest == Spec => []MirrorsProvider
<1>1. Init => RaceInv /\ BornInv /\ MirrorInv
  BY PostParts DEF Init, RaceInv, BornInv, MirrorInv
<1>2. TypeOK /\ CopyInv /\ RaceInv /\ BornInv /\ MirrorInv /\ [Next]_vars
        => RaceInv' /\ BornInv' /\ MirrorInv'
  BY RaceStep, BornStep, MirrorStep
<1>3. QED
  BY <1>1, <1>2, MirrorMeans, TypeInvariant, PTL DEF Spec

=============================================================================
