--------------------------- MODULE RecordsProofs ----------------------------
(***************************************************************************)
(* Theorems about the rows that several requests write: contacts, the      *)
(* triage of faxes, the status of messages, and tenants with their lines.  *)
(***************************************************************************)
EXTENDS Contacts, FaxTriage, MessageStatus, Provisioning, FiniteSetTheorems, TLAPS

(***************************************************************************)
(* Contacts stay usable, for any number of contacts, lines, users and      *)
(* updates.                                                                *)
(*                                                                         *)
(* An update deletes the numbers and writes the new ones in steps of its   *)
(* own. The invariant says how far each update under way has come with its *)
(* contact, that two of them are never in flight for one contact, and of a *)
(* contact that is there that it has the numbers of one request and an     *)
(* owner who is not removed.                                               *)
(***************************************************************************)

Change == [of : Contacts, row : ContactRow, drop : SUBSET Updates, add : SUBSET Updates]

UnderWay(r) == doing[r] \in {"read", "saved", "replaced"}

ChangeOK(r) ==
    UnderWay(r) =>
        /\ change[r] \in Change
        /\ change[r].add \in {{}, {r}}
        /\ contact[change[r].of] # NoContact
        /\ change[r].drop =
               IF doing[r] = "replaced" THEN numbers[change[r].of] ELSE {}
        /\ InFlight(r) => change[r].row.owner \notin removed

\* A contact has one list of numbers, and its owner is there.
Kept(c) ==
    Present(c) =>
        /\ c \in revived \/ \E l : numbers[c] = {l}
        /\ contact[c].owner \notin removed
        /\ contact[c] = [kind |-> "personal", owner |-> NoOwner] => c \in orphaned

ContactInv ==
    /\ ContactTypeOK
    /\ DOMAIN change = Updates
    /\ \A r \in Updates : ChangeOK(r)
    /\ \A q, r \in Updates : InFlight(q) /\ InFlight(r) /\ change[q].of = change[r].of => q = r
    /\ \A c \in Contacts : Kept(c)

LEMMA RowPresent ==
  ASSUME NEW c \in Contacts, contact[c] \in ContactRow
  PROVE  Present(c)
  BY ContactsAssumption DEF Present

LEMMA ContactInitially == ContactInit => ContactInv
  BY DEF ContactInit, ContactInv, ContactTypeOK, ChangeOK, UnderWay, InFlight, Kept, Present

LEMMA AddContactStep ==
  ASSUME ContactInv, NEW r \in Updates, NEW c \in Contacts, NEW u \in Owners,
         NEW k \in DirectoryType, AddContact(r, c, u, k)
  PROVE  ContactInv'
  <1> DEFINE row == [kind |-> k, owner |-> IF k = "personal" THEN u ELSE NoOwner]
  <1>1. /\ doing[r] = "new" /\ contact[c] = NoContact /\ u \notin removed
        /\ doing' = [doing EXCEPT ![r] = "done"]
        /\ contact' = [contact EXCEPT ![c] = row]
        /\ numbers' = [numbers EXCEPT ![c] = {r}]
        /\ UNCHANGED <<removed, change, revived, orphaned>>
    BY DEF AddContact
  <1>2. /\ row \in ContactRow /\ row.owner \notin removed
        /\ row # [kind |-> "personal", owner |-> NoOwner]
    BY <1>1, ContactsAssumption DEF ContactRow, ContactInv, ContactTypeOK
  <1> HIDE DEF row
  <1>3. /\ \A x \in Contacts : contact'[x] = IF x = c THEN row ELSE contact[x]
        /\ \A x \in Contacts : numbers'[x] = IF x = c THEN {r} ELSE numbers[x]
        /\ \A q \in Updates : doing'[q] = IF q = r THEN "done" ELSE doing[q]
    BY <1>1 DEF ContactInv, ContactTypeOK
  <1>4. ContactTypeOK'
    BY <1>1, <1>2, <1>3, ContactsAssumption DEF ContactInv, ContactTypeOK, Present
  <1>5. ASSUME NEW q \in Updates, UnderWay(q)'
        PROVE  ChangeOK(q)'
    <2>1. q # r /\ UnderWay(q) /\ ChangeOK(q) /\ change[q].of \in Contacts
      BY <1>3, <1>5 DEF UnderWay, ContactInv, ChangeOK, Change
    <2>2. change[q].of # c
      BY <1>1, <2>1 DEF ChangeOK
    <2> QED BY <1>1, <1>3, <2>1, <2>2 DEF ChangeOK, InFlight, UnderWay
  <1>6. ASSUME NEW x \in Contacts
        PROVE  Kept(x)'
    <2>1. CASE x = c
      <3>1. contact'[x] = row /\ numbers'[x] = {r}
        BY <1>3, <2>1
      <3> QED BY <1>1, <1>2, <3>1 DEF Kept
    <2>2. CASE x # c
      <3>1. Kept(x) /\ contact'[x] = contact[x] /\ numbers'[x] = numbers[x]
        BY <1>3, <2>2 DEF ContactInv
      <3> QED BY <1>1, <3>1 DEF Kept, Present
    <2> QED BY <2>1, <2>2
  <1>7. \A q \in Updates : InFlight(q)' => InFlight(q)
    BY <1>3 DEF InFlight
  <1>8. \A q \in Updates : ChangeOK(q)'
    BY <1>5 DEF ChangeOK
  <1> QED BY <1>1, <1>4, <1>6, <1>7, <1>8 DEF ContactInv

LEMMA ReadContactStep ==
  ASSUME ContactInv, NEW r \in Updates, NEW c \in Contacts, NEW u \in Owners,
         NEW k \in DirectoryType, ReadContact(r, c, u, k)
  PROVE  ContactInv'
  <1>1. PICK lists \in {{}, {r}} :
            change' = [change EXCEPT ![r] =
               [of |-> c, row |-> [contact[c] EXCEPT !.kind = k], drop |-> {}, add |-> lists]]
    BY DEF ReadContact
  <1>2. /\ doing[r] = "new" /\ Present(c)
        /\ doing' = [doing EXCEPT ![r] = "read"]
        /\ UNCHANGED <<contact, numbers, removed, revived, orphaned>>
    BY DEF ReadContact, MayWrite, Shown
  <1>3. contact[c] \in ContactRow /\ contact[c] # NoContact
    BY <1>2 DEF Present, ContactInv, ContactTypeOK
  <1>4. /\ change'[r] \in Change /\ change'[r].of = c /\ change'[r].drop = {}
        /\ change'[r].add \in {{}, {r}}
    BY <1>1, <1>3 DEF Change, ContactRow, ContactInv
  <1>5. /\ \A q \in Updates : doing'[q] = IF q = r THEN "read" ELSE doing[q]
        /\ \A q \in Updates \ {r} : change'[q] = change[q]
        /\ DOMAIN change' = Updates
    BY <1>1, <1>2 DEF ContactInv, ContactTypeOK
  <1>6. ContactTypeOK'
    BY <1>2 DEF ContactInv, ContactTypeOK, Present
  <1>7. ASSUME NEW q \in Updates
        PROVE  ChangeOK(q)'
    BY <1>2, <1>3, <1>4, <1>5 DEF ContactInv, ChangeOK, UnderWay, InFlight
  <1>8. \A x \in Contacts : Kept(x)'
    BY <1>2 DEF ContactInv, Kept, Present
  <1> QED BY <1>5, <1>6, <1>7, <1>8 DEF ContactInv, InFlight

LEMMA SaveContactStep ==
  ASSUME ContactInv, NEW r \in Updates, SaveContact(r)
  PROVE  ContactInv'
  <1>1. /\ doing[r] = "read" /\ ~Locked(change[r].of) /\ change[r].row.owner \notin removed
        /\ doing' = [doing EXCEPT ![r] = "saved"]
        /\ UNCHANGED <<contact, numbers, removed, change, revived, orphaned>>
    BY DEF SaveContact
  <1>2. \A q \in Updates : doing'[q] = IF q = r THEN "saved" ELSE doing[q]
    BY <1>1 DEF ContactInv, ContactTypeOK
  <1>3. \A q \in Updates : ChangeOK(q)'
    BY <1>1, <1>2 DEF ContactInv, ChangeOK, UnderWay, InFlight
  <1>4. ContactTypeOK' /\ \A x \in Contacts : Kept(x)'
    BY <1>1 DEF ContactInv, ContactTypeOK, Kept, Present
  <1> QED BY <1>1, <1>2, <1>3, <1>4 DEF ContactInv, InFlight, Locked

LEMMA ReplaceNumbersStep ==
  ASSUME ContactInv, NEW r \in Updates, ReplaceNumbers(r)
  PROVE  ContactInv'
  <1>1. /\ doing[r] = "saved"
        /\ doing' = [doing EXCEPT ![r] = "replaced"]
        /\ change' = [change EXCEPT ![r].drop = numbers[change[r].of]]
        /\ UNCHANGED <<contact, numbers, removed, revived, orphaned>>
    BY DEF ReplaceNumbers
  <1>2. ChangeOK(r) /\ change[r] \in Change
    BY <1>1 DEF ContactInv, ChangeOK, UnderWay
  <1>3. numbers[change[r].of] \in SUBSET Updates
    BY <1>2 DEF Change, ContactInv, ContactTypeOK
  <1>4. /\ change'[r] \in Change /\ change'[r].of = change[r].of /\ change'[r].add = change[r].add
        /\ change'[r].row = change[r].row /\ change'[r].drop = numbers[change[r].of]
    BY <1>1, <1>2, <1>3 DEF Change, ContactInv
  <1>5. /\ \A q \in Updates : doing'[q] = IF q = r THEN "replaced" ELSE doing[q]
        /\ \A q \in Updates \ {r} : change'[q] = change[q]
        /\ DOMAIN change' = Updates
    BY <1>1 DEF ContactInv, ContactTypeOK
  <1>6. \A q \in Updates : ChangeOK(q)'
    BY <1>1, <1>2, <1>4, <1>5 DEF ContactInv, ChangeOK, UnderWay, InFlight
  <1>7. ContactTypeOK' /\ \A x \in Contacts : Kept(x)'
    BY <1>1 DEF ContactInv, ContactTypeOK, Kept, Present
  <1> QED BY <1>1, <1>4, <1>5, <1>6, <1>7 DEF ContactInv, InFlight

LEMMA CommitContactStep ==
  ASSUME ContactInv, NEW r \in Updates, CommitContact(r)
  PROVE  ContactInv'
  <1>0. ChangeOK(r) /\ change[r] \in Change
    BY DEF CommitContact, ContactInv, ChangeOK, UnderWay, InFlight
  <1> PICK c \in Contacts, row \in ContactRow : c = change[r].of /\ row = change[r].row
    BY <1>0 DEF Change
  <1> PICK fresh \in SUBSET Updates :
           fresh = (numbers[c] \ change[r].drop) \cup change[r].add
    BY <1>0 DEF Change, ContactInv, ContactTypeOK
  <1>1. /\ InFlight(r)
        /\ doing[r] = "replaced" <=> change[r].add # {}
        /\ doing' = [doing EXCEPT ![r] = "done"]
        /\ contact' = [contact EXCEPT ![c] = row]
        /\ numbers' = [numbers EXCEPT ![c] = fresh]
        /\ revived' = IF Present(c) THEN revived ELSE revived \cup {c}
        /\ orphaned' = IF row = [kind |-> "personal", owner |-> NoOwner]
                       THEN orphaned \cup {c} ELSE orphaned
        /\ UNCHANGED <<removed, change>>
    BY DEF CommitContact
  <1>2. row.owner \notin removed
    BY <1>0, <1>1 DEF ChangeOK, UnderWay, InFlight
  \* The numbers it dropped are those there are: they cannot change under it.
  <1>3. fresh = IF change[r].add = {} THEN numbers[c] ELSE {r}
    BY <1>0, <1>1 DEF ChangeOK, UnderWay, InFlight
  <1>4. /\ \A x \in Contacts : contact'[x] = IF x = c THEN row ELSE contact[x]
        /\ \A x \in Contacts : numbers'[x] = IF x = c THEN fresh ELSE numbers[x]
        /\ \A q \in Updates : doing'[q] = IF q = r THEN "done" ELSE doing[q]
    BY <1>1 DEF ContactInv, ContactTypeOK
  <1>5. Present(c)'
    BY <1>4, ContactsAssumption DEF Present
  <1>6. ContactTypeOK'
    BY <1>1, <1>2, <1>4, <1>5 DEF ContactInv, ContactTypeOK, Present
  <1>7. ASSUME NEW q \in Updates, UnderWay(q)'
        PROVE  ChangeOK(q)'
    <2>1. q # r /\ UnderWay(q) /\ ChangeOK(q) /\ change[q].of \in Contacts
      BY <1>4, <1>7 DEF UnderWay, ContactInv, ChangeOK, Change
    <2>2. doing[q] = "replaced" => change[q].of # c
      BY <1>1, <2>1 DEF ContactInv, InFlight
    <2>3. row # NoContact
      BY ContactsAssumption
    <2> QED BY <1>1, <1>4, <2>1, <2>2, <2>3 DEF ChangeOK, InFlight, UnderWay
  <1>8. ASSUME NEW x \in Contacts
        PROVE  Kept(x)'
    <2>1. CASE x = c
      <3>1. c \in revived' \/ \E l : fresh = {l}
        <4>1. ~Present(c) => c \in revived'
          BY <1>1
        <4>2. Present(c) => c \in revived' \/ \E l : numbers[c] = {l}
          BY <1>1 DEF ContactInv, Kept
        <4>3. fresh = numbers[c] \/ fresh = {r}
          BY <1>3
        <4> QED BY <4>1, <4>2, <4>3
      <3>2. /\ contact'[x] = row /\ numbers'[x] = fresh /\ removed' = removed
            /\ row = [kind |-> "personal", owner |-> NoOwner] => x \in orphaned'
        BY <1>1, <1>4, <2>1
      <3> QED BY <1>2, <2>1, <3>1, <3>2 DEF Kept
    <2>2. CASE x # c
      <3>1. Kept(x) /\ contact'[x] = contact[x] /\ numbers'[x] = numbers[x]
        BY <1>4, <2>2 DEF ContactInv
      <3>2. /\ revived \subseteq revived' /\ orphaned \subseteq orphaned'
            /\ UNCHANGED removed
        BY <1>1
      <3> QED BY <3>1, <3>2 DEF Kept, Present
    <2> QED BY <2>1, <2>2
  <1>9. \A q \in Updates : InFlight(q)' => InFlight(q)
    BY <1>4 DEF InFlight
  <1>10. \A q \in Updates : ChangeOK(q)'
    BY <1>7 DEF ChangeOK
  <1> QED BY <1>1, <1>6, <1>8, <1>9, <1>10 DEF ContactInv

\* Contacts are erased only when no save holds them.
LEMMA EraseStep ==
  ASSUME ContactInv, NEW C \in SUBSET Contacts, Erase(C), NEW gone \in SUBSET Owners,
         removed' = removed \cup gone,
         \A c \in Contacts \ C : Present(c) => contact[c].owner \notin gone,
         \A r \in Updates : InFlight(r) => change[r].row.owner \notin gone,
         \A c \in C : contact[c] # NoContact,
         UNCHANGED <<doing, change, revived, orphaned>>
  PROVE  ContactInv'
  <1>1. \A c \in Contacts : /\ contact'[c] = IF c \in C THEN Deleted ELSE contact[c]
                            /\ numbers'[c] = IF c \in C THEN {} ELSE numbers[c]
    BY DEF Erase
  <1>2. ContactTypeOK'
    BY <1>1 DEF Erase, ContactInv, ContactTypeOK, Present
  <1>3. ASSUME NEW r \in Updates, UnderWay(r)
        PROVE  ChangeOK(r)'
    <2>1. ChangeOK(r) /\ change[r].of \in Contacts
      BY <1>3 DEF ContactInv, ChangeOK, Change
    <2>2. doing[r] = "replaced" => change[r].of \notin C
      BY DEF Erase, Locked, InFlight
    <2> QED BY <1>1, <1>3, <2>1, <2>2, ContactsAssumption DEF ChangeOK, UnderWay, InFlight
  <1>4. \A c \in Contacts : Kept(c)'
    BY <1>1 DEF ContactInv, Kept, Present
  <1>5. \A r \in Updates : ChangeOK(r)'
    BY <1>3 DEF ChangeOK, UnderWay
  <1> QED BY <1>2, <1>4, <1>5 DEF ContactInv, InFlight

LEMMA ContactStep == ContactInv /\ [ContactNext]_contactVars => ContactInv'
  <1> SUFFICES ASSUME ContactInv, [ContactNext]_contactVars
               PROVE  ContactInv'
    OBVIOUS
  <1>1. ASSUME NEW r \in Updates, UpdateRaises(r)
        PROVE  ContactInv'
    <2>1. /\ \A q \in Updates : doing'[q] = IF q = r THEN "done" ELSE doing[q]
          /\ UNCHANGED <<contact, numbers, removed, change, revived, orphaned>>
      BY <1>1 DEF UpdateRaises, ContactInv, ContactTypeOK
    <2>2. ContactTypeOK'
      BY <1>1 DEF UpdateRaises, ContactInv, ContactTypeOK, Present
    <2> QED BY <2>1, <2>2 DEF ContactInv, ChangeOK, UnderWay, InFlight, Kept, Present
  <1>2. ASSUME NEW c \in Contacts, NEW u \in Owners, DeleteContact(u, c)
        PROVE  ContactInv'
    <2>1. Present(c) /\ Erase({c}) /\ UNCHANGED <<removed, doing, change, revived, orphaned>>
      BY <1>2 DEF DeleteContact, MayWrite, Shown
    <2>2. removed' = removed \cup {} /\ \A x \in {c} : contact[x] # NoContact
      BY <2>1 DEF Present
    <2>3. {c} \in SUBSET Contacts /\ {} \in SUBSET Owners
      OBVIOUS
    <2>4. /\ \A x \in Contacts \ {c} : Present(x) => contact[x].owner \notin {}
          /\ \A r \in Updates : InFlight(r) => change[r].row.owner \notin {}
      OBVIOUS
    <2> QED BY <2>1, <2>2, <2>3, <2>4, EraseStep
  <1>3. ASSUME NEW u \in Owners, RemoveOwner(u)
        PROVE  ContactInv'
    <2> PICK C \in SUBSET Contacts :
             C = {c \in Contacts : Present(c) /\ contact[c].owner = u}
      OBVIOUS
    <2>1. /\ Erase(C) /\ removed' = removed \cup {u}
          /\ \A r \in Updates : InFlight(r) => change[r].row.owner # u
          /\ UNCHANGED <<doing, change, revived, orphaned>>
      BY <1>3 DEF RemoveOwner
    <2>2. \A c \in C : contact[c] # NoContact
      BY DEF Present
    <2>3. /\ \A c \in Contacts \ C : Present(c) => contact[c].owner \notin {u}
          /\ \A r \in Updates : InFlight(r) => change[r].row.owner \notin {u}
      BY <2>1
    <2>4. {u} \in SUBSET Owners
      OBVIOUS
    <2> QED BY <2>1, <2>2, <2>3, <2>4, EraseStep
  <1>4. CASE UNCHANGED contactVars
    BY <1>4 DEF contactVars, ContactInv, ContactTypeOK, ChangeOK, UnderWay, InFlight, Kept,
       Present
  <1> QED BY <1>1, <1>2, <1>3, <1>4, AddContactStep, ReadContactStep, SaveContactStep,
             ReplaceNumbersStep, CommitContactStep DEF ContactNext

LEMMA ContactMeans == ContactInv => ContactUsable
  <1> SUFFICES ASSUME ContactInv
               PROVE  ContactUsable
    OBVIOUS
  <1>1. ASSUME NEW c \in Contacts, Present(c)
        PROVE  /\ c \in revived \/ Cardinality(numbers[c]) = 1
               /\ (contact[c].kind = "personal" /\ c \notin orphaned) =>
                      \E u \in Owners \ removed : Shown(u, c)
    <2>1. Kept(c) /\ contact[c] \in ContactRow
      BY <1>1 DEF ContactInv, ContactTypeOK, Present
    <2>2. c \in revived \/ Cardinality(numbers[c]) = 1
      BY <1>1, <2>1, FS_Singleton DEF Kept
    <2>3. ASSUME contact[c].kind = "personal", c \notin orphaned
          PROVE  \E u \in Owners \ removed : Shown(u, c)
      <3>1. contact[c].owner # NoOwner
        BY <1>1, <2>1, <2>3 DEF Kept, ContactRow
      <3>2. contact[c].owner \in Owners \ removed
        BY <1>1, <2>1, <3>1 DEF Kept, ContactRow
      <3> QED BY <1>1, <3>2 DEF Shown
    <2> QED BY <2>2, <2>3
  <1>2. \A l \in Updates : \A c \in SavedAs(l) : Present(c)
    BY DEF SavedAs, ContactInv, ContactTypeOK
  <1> QED BY <1>1, <1>2 DEF ContactUsable

\* However updates, deletions and departures of users overlap, a contact has the numbers
\* of one request and an owner who sees it, and nothing is marked with one that is gone.
THEOREM ContactsAreUsable == ContactSpec => []ContactUsable
  BY ContactInitially, ContactStep, ContactMeans, PTL DEF ContactSpec

-----------------------------------------------------------------------------

(***************************************************************************)
(* The row of a fax is what the users asked for, for any number of faxes,  *)
(* users and calls.                                                        *)
(*                                                                         *)
(* A call saves named columns into the row it finds, so that the invariant *)
(* need only say that a call under way is well formed and that each column *)
(* of a row, once there, is the last one wished for: the first reader too, *)
(* unless two calls found the fax unread.                                  *)
(***************************************************************************)

\* What a request asks: a triage, or the read of a download.
Asks ==
    [assigned_to : Staff] \cup [status : FaxTagStatus]
    \cup [assigned_to : Staff, status : FaxTagStatus]
    \cup [read_by : Staff, read : {TRUE}]

Running(c) == tagStage[c] \in {"made", "got"}

\* The row of a fax is the one its requests asked for, but for who read it first.
Follows(f) ==
    /\ tag[f] = NoTag <=> wished[f] = NoTag
    /\ tag[f] # NoTag =>
           /\ tag[f].assigned_to = wished[f].assigned_to
           /\ tag[f].status = wished[f].status
           /\ tag[f].read = wished[f].read
           /\ f \in rushed \/ tag[f].read_by = wished[f].read_by

FaxInv ==
    /\ TagTypeOK
    /\ DOMAIN tagCall = TagCalls
    /\ \A c \in TagCalls :
           Running(c) => tagCall[c] \in [fax : Faxes, by : Staff, ask : Asks, row : TagRow]
    /\ \A f \in Faxes : Follows(f)

LEMMA TriageAsks ==
  ASSUME NEW u \in Staff, NEW a \in Triage(u) \cup {Download(u)}
  PROVE  a \in Asks
  <1>1. MayAssign(u) \ left \subseteq Staff
    BY FaxTriageAssumption DEF MayAssign
  <1>2. CASE a \in Assigning(u)
    BY <1>1, <1>2 DEF Assigning, Asks
  <1>3. CASE a \in Reviewing(u)
    BY <1>3 DEF Reviewing, Asks
  <1>4. ASSUME NEW x \in Assigning(u), NEW y \in Reviewing(u),
               a = [assigned_to |-> x.assigned_to, status |-> y.status]
        PROVE  a \in Asks
    <2>1. x.assigned_to \in Staff /\ y.status \in FaxTagStatus
      BY <1>1 DEF Assigning, Reviewing
    <2> QED BY <1>4, <2>1 DEF Asks
  <1>5. CASE a = Download(u)
    BY <1>5 DEF Download, Asks
  <1> QED BY <1>2, <1>3, <1>4, <1>5 DEF Triage

\* A save sets the columns that were asked for and leaves the others.
LEMMA PutRow ==
  ASSUME NEW row \in TagRow, NEW c \in TagCalls, tagCall[c].ask \in Asks,
         tagCall[c].row \in TagRow
  PROVE  /\ Put(row, c) \in TagRow
         /\ Put(row, c).assigned_to = IF "assigned_to" \in Asked(c)
                                      THEN tagCall[c].ask.assigned_to ELSE row.assigned_to
         /\ Put(row, c).status = IF "status" \in Asked(c)
                                 THEN tagCall[c].ask.status ELSE row.status
         /\ Put(row, c).read = IF "read" \in Asked(c) THEN TRUE ELSE row.read
         /\ Put(row, c).read_by = IF "read" \in Asked(c)
                                  THEN tagCall[c].ask.read_by ELSE row.read_by
         /\ "read" \in Asked(c) => {"assigned_to", "status"} \cap Asked(c) = {}
  <1> DEFINE ask == tagCall[c].ask
  <1>1. /\ Asked(c) \subseteq DOMAIN ask
        /\ DOMAIN ask \subseteq {"assigned_to", "status"} \/ DOMAIN ask = {"read_by", "read"}
        /\ "assigned_to" \in DOMAIN ask => ask.assigned_to \in Staff
        /\ "status" \in DOMAIN ask => ask.status \in FaxTagStatus
        /\ "read" \in DOMAIN ask => ask.read = TRUE /\ ask.read_by \in Staff
    BY DEF Asked, Asks
  <1>2. Asked(c) \in {{}, DOMAIN ask}
    BY DEF Asked
  <1>3. DOMAIN row = {"assigned_to", "status", "read_by", "read"}
    BY DEF TagRow
  <1>4. Put(row, c) = [assigned_to |-> IF "assigned_to" \in Asked(c) THEN ask.assigned_to
                                       ELSE row.assigned_to,
                       status |-> IF "status" \in Asked(c) THEN ask.status ELSE row.status,
                       read_by |-> IF "read_by" \in Asked(c) THEN ask.read_by ELSE row.read_by,
                       read |-> IF "read" \in Asked(c) THEN ask.read ELSE row.read]
    BY <1>3 DEF Put
  <1>5. "read" \in Asked(c) <=> "read_by" \in Asked(c)
    BY <1>1, <1>2
  <1>6. /\ row.assigned_to \in Staff \cup {Nobody} /\ row.status \in FaxTagStatus
        /\ row.read_by \in Staff \cup {Nobody} /\ row.read \in BOOLEAN
    BY DEF TagRow
  <1>7. /\ (IF "assigned_to" \in Asked(c) THEN ask.assigned_to ELSE row.assigned_to)
               \in Staff \cup {Nobody}
        /\ (IF "status" \in Asked(c) THEN ask.status ELSE row.status) \in FaxTagStatus
        /\ (IF "read_by" \in Asked(c) THEN ask.read_by ELSE row.read_by) \in Staff \cup {Nobody}
        /\ (IF "read" \in Asked(c) THEN ask.read ELSE row.read) \in BOOLEAN
    BY <1>1, <1>5, <1>6
  <1>8. Put(row, c) \in TagRow
    BY <1>4, <1>7 DEF TagRow
  <1>9. /\ Put(row, c).assigned_to = IF "assigned_to" \in Asked(c) THEN ask.assigned_to
                                     ELSE row.assigned_to
        /\ Put(row, c).status = IF "status" \in Asked(c) THEN ask.status ELSE row.status
    BY <1>4
  <1>10. Put(row, c).read = IF "read" \in Asked(c) THEN TRUE ELSE row.read
    <2>1. Put(row, c).read = IF "read" \in Asked(c) THEN ask.read ELSE row.read
      BY <1>4
    <2>2. "read" \in Asked(c) => ask.read = TRUE
      BY <1>1
    <2> HIDE DEF ask
    <2> QED BY <2>1, <2>2
  <1>11. Put(row, c).read_by = IF "read" \in Asked(c) THEN ask.read_by ELSE row.read_by
    BY <1>4, <1>5
  <1>12. "read" \in Asked(c) => {"assigned_to", "status"} \cap Asked(c) = {}
    BY <1>1
  <1> QED BY <1>8, <1>9, <1>10, <1>11, <1>12

LEMMA FaxInitially == FaxInit => FaxInv
  BY DEF FaxInit, FaxInv, TagTypeOK, Running, Follows

LEMMA GetOrCreateStep ==
  ASSUME FaxInv, NEW c \in TagCalls, NEW f \in Faxes, NEW u \in Staff, GetOrCreate(c, f, u)
  PROVE  FaxInv'
  <1>1. PICK ask \in Triage(u) \cup {Download(u)} :
            tagCall' = [tagCall EXCEPT ![c] =
               [fax |-> f, by |-> u, ask |-> ask,
                row |-> IF tag[f] = NoTag THEN NewTag ELSE tag[f]]]
    BY DEF GetOrCreate
  <1>2. /\ tagStage' = [tagStage EXCEPT ![c] = IF tag[f] = NoTag THEN "made" ELSE "got"]
        /\ UNCHANGED <<tag, left, wished, rushed>>
    BY DEF GetOrCreate
  <1>3. ask \in Asks
    BY TriageAsks
  <1>4. (IF tag[f] = NoTag THEN NewTag ELSE tag[f]) \in TagRow
    BY DEF FaxInv, TagTypeOK, NewTag, TagRow, FaxTagStatus
  <1>5. /\ tagCall'[c] \in [fax : Faxes, by : Staff, ask : Asks, row : TagRow]
        /\ \A d \in TagCalls \ {c} : tagCall'[d] = tagCall[d] /\ tagStage'[d] = tagStage[d]
        /\ DOMAIN tagCall' = TagCalls
    BY <1>1, <1>2, <1>3, <1>4 DEF FaxInv, TagTypeOK
  <1>6. TagTypeOK'
    BY <1>2 DEF FaxInv, TagTypeOK
  <1> QED BY <1>2, <1>5, <1>6 DEF FaxInv, Running, Follows

LEMMA SaveTagStep ==
  ASSUME FaxInv, NEW c \in TagCalls, SaveTag(c)
  PROVE  FaxInv'
  <1>1. Running(c) /\ tagCall[c] \in [fax : Faxes, by : Staff, ask : Asks, row : TagRow]
    BY DEF SaveTag, Running, FaxInv
  <1> PICK f \in Faxes : f = tagCall[c].fax
    BY <1>1
  <1> DEFINE reads == "read" \in Asked(c)
             was == Current(tag, f)
             wish == Current(wished, f)
  <1>2. /\ tagStage' = [tagStage EXCEPT ![c] = "done"]
        /\ tag' = [tag EXCEPT ![f] = Put(was, c)]
        /\ wished' = [wished EXCEPT ![f] = IF reads /\ wish.read THEN @ ELSE Put(wish, c)]
        /\ rushed' = IF reads /\ was.read THEN rushed \cup {f} ELSE rushed
        /\ tagCall' = [tagCall EXCEPT ![c] = NoTag]
        /\ UNCHANGED left
    BY DEF SaveTag, SavedTag
  <1>3. was \in TagRow /\ wish \in TagRow
    BY DEF Current, FaxInv, TagTypeOK, NewTag, TagRow, FaxTagStatus
  <1>4. /\ was.assigned_to = wish.assigned_to /\ was.status = wish.status
        /\ was.read = wish.read
        /\ f \in rushed \/ was.read_by = wish.read_by
    BY DEF Current, FaxInv, Follows
  <1>5. wish.read => wish = wished[f] /\ wished[f] # NoTag
    BY DEF Current, NewTag
  <1> HIDE DEF was, wish
  <1>6. Put(was, c) \in TagRow /\ Put(wish, c) \in TagRow
    BY <1>1, <1>3, PutRow
  <1>7. \A x \in Faxes \ {f} : tag'[x] = tag[x] /\ wished'[x] = wished[x]
    BY <1>2 DEF FaxInv, TagTypeOK
  <1>8. /\ tag'[f] = Put(was, c)
        /\ wished'[f] = IF reads /\ wish.read THEN wish ELSE Put(wish, c)
    BY <1>2, <1>5 DEF FaxInv, TagTypeOK
  <1>9. TagTypeOK'
    BY <1>2, <1>6 DEF FaxInv, TagTypeOK
  <1>10. Follows(f)'
    <2>1. tag'[f] # NoTag /\ wished'[f] # NoTag
      BY <1>3, <1>6, <1>8, NoTagAssumption
    <2>2. CASE reads /\ wish.read
      \* It is kept who read the fax first.
      <3>1. f \in rushed'
        BY <1>2, <1>4, <2>2
      <3>2. /\ Put(was, c).assigned_to = was.assigned_to /\ Put(was, c).status = was.status
            /\ Put(was, c).read = TRUE
        BY <1>1, <1>3, <2>2, PutRow
      <3>3. wish.read = TRUE
        BY <1>3, <2>2 DEF TagRow
      <3> QED BY <1>4, <1>8, <2>1, <2>2, <3>1, <3>2, <3>3 DEF Follows
    <2>3. CASE ~(reads /\ wish.read)
      <3>1. wished'[f] = Put(wish, c)
        BY <1>8, <2>3
      <3>2. /\ Put(was, c).assigned_to = Put(wish, c).assigned_to
            /\ Put(was, c).status = Put(wish, c).status
            /\ Put(was, c).read = Put(wish, c).read
            /\ f \in rushed \/ Put(was, c).read_by = Put(wish, c).read_by
        <4>1. PICK old \in TagRow, fresh \in TagRow : old = was /\ fresh = wish
          BY <1>3
        <4>2. tagCall[c].ask \in Asks /\ tagCall[c].row \in TagRow
          BY <1>1
        <4>3. ASSUME NEW row \in TagRow
              PROVE  /\ Put(row, c).assigned_to = IF "assigned_to" \in Asked(c)
                                      THEN tagCall[c].ask.assigned_to ELSE row.assigned_to
                     /\ Put(row, c).status = IF "status" \in Asked(c)
                                 THEN tagCall[c].ask.status ELSE row.status
                     /\ Put(row, c).read = IF "read" \in Asked(c) THEN TRUE ELSE row.read
                     /\ Put(row, c).read_by = IF "read" \in Asked(c)
                                  THEN tagCall[c].ask.read_by ELSE row.read_by
          BY <4>2, PutRow
        <4>4. /\ old.assigned_to = fresh.assigned_to /\ old.status = fresh.status
              /\ old.read = fresh.read /\ (f \in rushed \/ old.read_by = fresh.read_by)
          BY <1>4, <4>1
        <4> QED BY <4>1, <4>3, <4>4
      <3>3. f \in rushed => f \in rushed'
        BY <1>2
      <3> QED BY <1>8, <2>1, <3>1, <3>2, <3>3 DEF Follows
    <2> QED BY <2>2, <2>3
  <1>11. \A x \in Faxes : Follows(x)'
    <2>1. \A x \in Faxes \ {f} : x \in rushed' <=> x \in rushed
      BY <1>2
    <2> QED BY <1>7, <1>10, <2>1 DEF FaxInv, Follows
  <1>12. /\ DOMAIN tagCall' = TagCalls
         /\ \A d \in TagCalls : Running(d)' => d # c /\ Running(d) /\ tagCall'[d] = tagCall[d]
    BY <1>2 DEF FaxInv, TagTypeOK, Running
  <1> QED BY <1>9, <1>11, <1>12 DEF FaxInv

LEMMA LeaveStaffStep ==
  ASSUME FaxInv, NEW u \in Staff, LeaveStaff(u)
  PROVE  FaxInv'
  <1>1. /\ left' = left \cup {u}
        /\ tag' = [f \in Faxes |-> Forget(tag[f], u)]
        /\ wished' = [f \in Faxes |-> Forget(wished[f], u)]
        /\ UNCHANGED <<tagStage, tagCall, rushed>>
    BY DEF LeaveStaff
  <1>2. ASSUME NEW row \in TagRow
        PROVE  /\ Forget(row, u) \in TagRow
               /\ Forget(row, u).status = row.status /\ Forget(row, u).read = row.read
               /\ Forget(row, u).assigned_to
                      = IF row.assigned_to = u THEN Nobody ELSE row.assigned_to
               /\ Forget(row, u).read_by = IF row.read_by = u THEN Nobody ELSE row.read_by
    BY NoTagAssumption DEF Forget, TagRow
  <1>3. Forget(NoTag, u) = NoTag
    BY DEF Forget
  <1>4. TagTypeOK'
    BY <1>1, <1>2, <1>3 DEF FaxInv, TagTypeOK
  <1>5. ASSUME NEW f \in Faxes
        PROVE  Follows(f)'
    <2>1. /\ tag[f] \in TagRow \cup {NoTag} /\ wished[f] \in TagRow \cup {NoTag} /\ Follows(f)
          /\ tag'[f] = Forget(tag[f], u) /\ wished'[f] = Forget(wished[f], u)
      BY <1>1 DEF FaxInv, TagTypeOK
    <2>2. CASE tag[f] = NoTag
      BY <1>3, <2>1, <2>2 DEF Follows
    <2>3. CASE tag[f] # NoTag
      BY <1>1, <1>2, <2>1, <2>3, NoTagAssumption DEF Follows
    <2> QED BY <2>2, <2>3
  <1> QED BY <1>1, <1>4, <1>5 DEF FaxInv, Running

LEMMA FaxStep == FaxInv /\ [FaxNext]_faxVars => FaxInv'
  <1> SUFFICES ASSUME FaxInv, [FaxNext]_faxVars
               PROVE  FaxInv'
    OBVIOUS
  <1>1. ASSUME NEW c \in TagCalls, TagRaises(c)
        PROVE  FaxInv'
    <2>1. TagTypeOK'
      BY <1>1 DEF TagRaises, FaxInv, TagTypeOK
    <2>2. /\ DOMAIN tagCall' = TagCalls
          /\ \A d \in TagCalls : Running(d)' => Running(d) /\ tagCall'[d] = tagCall[d]
      BY <1>1 DEF TagRaises, FaxInv, TagTypeOK, Running
    <2> QED BY <1>1, <2>1, <2>2 DEF TagRaises, FaxInv, Follows
  <1>2. CASE UNCHANGED faxVars
    BY <1>2 DEF faxVars, FaxInv, TagTypeOK, Running, Follows
  <1> QED BY <1>1, <1>2, GetOrCreateStep, SaveTagStep, LeaveStaffStep DEF FaxNext

\* However assignments, reviews, reads and departures of users overlap, a fax's row is what
\* they asked for, and the first reader is kept unless two found it unread.
THEOREM TriageIsAsAsked == FaxSpec => []TriageAsAsked
  <1>1. FaxInv => TriageAsAsked
    BY DEF FaxInv, Follows, TriageAsAsked
  <1> QED BY FaxInitially, FaxStep, <1>1, PTL DEF FaxSpec

-----------------------------------------------------------------------------

(***************************************************************************)
(* The status of a sent message is the one last reported, for any number   *)
(* of messages and of webhooks at work.                                    *)
(*                                                                         *)
(* The invariant says of a message whose reports were handled one by one   *)
(* and in order that its row is the last report's, and that the webhook at *)
(* work on it, if any, read the row as it is and brings no older report.   *)
(***************************************************************************)

\* The reports of a message: one of being sent, one of how that ended.
ReportsDiffer ==
    \A x \in Texts : \A e, f \in reported[x] : Rank(e) = Rank(f) => e = f

\* What is handled was reported, of a message whose row is there.
OnlyReported ==
    /\ \A h \in Handlers :
           handler[h] # NoText =>
               /\ handler[h].event \in reported[handler[h].of]
               /\ text[handler[h].of] # NoText
    /\ \A x \in Texts : heard[x] # NoText => heard[x] \in reported[x] /\ text[x] # NoText

Told(x) == IF heard[x] = NoText THEN SentRow ELSE Final(heard[x])

InOrder(x) ==
    /\ text[x] # NoText => text[x] = Told(x)
    /\ \A h \in Handlers :
           (handler[h] # NoText /\ handler[h].of = x) =>
               /\ handler[h].row = text[x]
               /\ heard[x] # NoText => Rank(heard[x]) <= Rank(handler[h].event)
               /\ \A g \in Handlers : (handler[g] # NoText /\ handler[g].of = x) => g = h

StatusInv ==
    /\ StatusTypeOK
    /\ ReportsDiffer
    /\ OnlyReported
    /\ \A x \in Texts \ jumbled : InOrder(x)

-----------------------------------------------------------------------------
(* What the update of a row gives.                                         *)

LEMMA NewStatusTyped ==
  ASSUME NEW row \in StatusRow, NEW e \in Events
  PROVE  NewStatus(row, e) \in StatusRow
  BY DEF NewStatus, StatusRow, Events

\* The first report of a row, and a report of how it ended after one of being sent,
\* leave nothing of what the row said before.
LEMMA NewStatusFromSent ==
  ASSUME NEW row \in {SentRow, Final("sent")}, NEW e \in Events
  PROVE  NewStatus(row, e) = Final(e)
  <1>1. row = [status |-> "sent", error |-> FALSE, delivered_at |-> FALSE]
    BY DEF Final, SentRow
  <1>2. CASE e = "sent"
    BY <1>1, <1>2 DEF NewStatus, Final
  <1>3. CASE e = "delivered"
    BY <1>1, <1>3 DEF NewStatus, Final
  <1>4. CASE e = "delivery_failed"
    BY <1>1, <1>4 DEF NewStatus, Final
  <1>5. CASE e = "errors"
    BY <1>1, <1>5 DEF NewStatus, Final
  <1> QED BY <1>2, <1>3, <1>4, <1>5 DEF Events

LEMMA NewStatusAgain ==
  ASSUME NEW e \in Events
  PROVE  NewStatus(Final(e), e) = Final(e)
  BY DEF NewStatus, Final, Events

LEMMA NewStatusInOrder ==
  ASSUME NEW e \in Events, NEW f \in Events, Rank(e) <= Rank(f), Rank(e) = Rank(f) => e = f
  PROVE  NewStatus(Final(e), f) = Final(f)
  <1>1. CASE e = "sent"
    BY <1>1, NewStatusFromSent
  <1>2. CASE e # "sent"
    <2>1. e = f
      BY <1>2 DEF Rank, Events
    <2> QED BY <2>1, NewStatusAgain
  <1> QED BY <1>1, <1>2

-----------------------------------------------------------------------------
(* The invariant, action by action.                                        *)

LEMMA StatusInitially == StatusInit => StatusInv
  BY DEF StatusInit, StatusInv, StatusTypeOK, ReportsDiffer, OnlyReported, InOrder

LEMMA TextVisibleStep ==
  ASSUME StatusInv, NEW x \in Texts, TextVisible(x)
  PROVE  StatusInv'
  <1>1. SentRow \in StatusRow
    BY DEF SentRow, StatusRow
  <1>2. StatusTypeOK'
    BY <1>1 DEF TextVisible, StatusInv, StatusTypeOK
  <1>3. OnlyReported'
    BY <1>1, StatusAssumption DEF TextVisible, StatusInv, StatusTypeOK, OnlyReported
  <1>4. ASSUME NEW y \in Texts \ jumbled
        PROVE  InOrder(y)'
    <2>1. CASE y = x
      \* No webhook has found the row yet, and none was heard.
      <3>1. heard[x] = NoText /\ \A h \in Handlers : ~(handler[h] # NoText /\ handler[h].of = x)
        BY DEF TextVisible, StatusInv, OnlyReported
      <3> QED BY <2>1, <3>1 DEF TextVisible, StatusInv, StatusTypeOK, InOrder, Told
    <2>2. CASE y # x
      <3>1. InOrder(y) /\ text'[y] = text[y]
        BY <2>2 DEF TextVisible, StatusInv, StatusTypeOK
      <3> QED BY <3>1 DEF TextVisible, InOrder, Told
    <2> QED BY <2>1, <2>2
  <1> QED BY <1>2, <1>3, <1>4 DEF TextVisible, StatusInv, ReportsDiffer

LEMMA ReportStep ==
  ASSUME StatusInv, NEW x \in Texts, NEW e \in Events, Report(x, e)
  PROVE  StatusInv'
  <1>1. StatusTypeOK'
    BY DEF Report, StatusInv, StatusTypeOK
  <1>2. \A y \in Texts : reported'[y] = IF y = x THEN reported[x] \cup {e} ELSE reported[y]
    BY DEF Report, StatusInv, StatusTypeOK
  <1>3. \A f \in reported[x] : Rank(f) # Rank(e)
    BY DEF Report, Rank
  <1>4. ReportsDiffer'
    BY <1>2, <1>3 DEF StatusInv, ReportsDiffer
  <1>5. OnlyReported'
    BY <1>2 DEF Report, StatusInv, StatusTypeOK, OnlyReported
  <1> QED BY <1>1, <1>4, <1>5 DEF Report, StatusInv, InOrder, Told

LEMMA FindTextStep ==
  ASSUME StatusInv, NEW h \in Handlers, NEW x \in Texts, NEW e \in Events, FindText(h, x, e)
  PROVE  StatusInv'
  <1> DEFINE found == [of |-> x, event |-> e, row |-> text[x]]
  <1>1. text[x] \in StatusRow
    BY DEF FindText, StatusInv, StatusTypeOK
  <1>2. /\ handler' = [handler EXCEPT ![h] = found]
        /\ found.of = x /\ found.event = e /\ found.row = text[x]
        /\ found \in [of : Texts, event : Events, row : StatusRow]
    BY <1>1 DEF FindText
  <1>3. /\ UNCHANGED <<text, reported, heard>>
        /\ jumbled \subseteq jumbled' /\ jumbled' \subseteq Texts
        /\ handler[h] = NoText /\ e \in reported[x] /\ text[x] # NoText
        /\ x \notin jumbled' => ~Busy(x) /\ (heard[x] # NoText => ~(Rank(heard[x]) > Rank(e)))
    BY DEF FindText, StatusInv, StatusTypeOK
  <1> HIDE DEF found
  <1>4. \A g \in Handlers : handler'[g] = IF g = h THEN found ELSE handler[g]
    BY <1>2 DEF StatusInv, StatusTypeOK
  <1>5. StatusTypeOK'
    BY <1>2, <1>3 DEF StatusInv, StatusTypeOK
  <1>6. OnlyReported'
    BY <1>2, <1>3, <1>4 DEF StatusInv, OnlyReported
  <1>7. ASSUME NEW y \in Texts \ jumbled'
        PROVE  InOrder(y)'
    <2>1. InOrder(y)
      BY <1>3 DEF StatusInv
    <2>2. CASE y = x
      <3>1. \A g \in Handlers : ~(handler[g] # NoText /\ handler[g].of = x)
        BY <1>3, <2>2 DEF Busy
      <3>2. heard[x] # NoText => Rank(heard[x]) <= Rank(e)
        BY <1>3, <2>2 DEF Rank
      <3>3. \A g \in Handlers : (handler'[g] # NoText /\ handler'[g].of = x) => g = h
        BY <1>4, <3>1
      <3> QED BY <1>2, <1>3, <1>4, <2>1, <2>2, <3>2, <3>3 DEF InOrder, Told
    <2>3. CASE y # x
      BY <1>2, <1>3, <1>4, <2>1, <2>3 DEF InOrder, Told
    <2> QED BY <2>2, <2>3
  <1> QED BY <1>3, <1>5, <1>6, <1>7 DEF StatusInv, ReportsDiffer

LEMMA SaveStatusStep ==
  ASSUME StatusInv, NEW h \in Handlers, SaveStatus(h)
  PROVE  StatusInv'
  <1> DEFINE x == handler[h].of
             e == handler[h].event
             saved == NewStatus(handler[h].row, e)
  <1>1. x \in Texts /\ e \in Events /\ handler[h].row \in StatusRow
    BY DEF SaveStatus, StatusInv, StatusTypeOK
  <1>2. saved \in StatusRow
    BY <1>1, NewStatusTyped
  <1>3. /\ handler[h] # NoText
        /\ text' = [text EXCEPT ![x] = saved]
        /\ heard' = [heard EXCEPT ![x] = e]
        /\ handler' = [handler EXCEPT ![h] = NoText]
        /\ UNCHANGED <<reported, jumbled>>
    BY DEF SaveStatus
  <1>4. e \in reported[x] /\ text[x] # NoText
    BY <1>3 DEF StatusInv, OnlyReported
  <1>5. x \notin jumbled => saved = Final(e)
    <2> SUFFICES ASSUME x \notin jumbled PROVE saved = Final(e)
      OBVIOUS
    <2>1. InOrder(x)
      BY <1>1 DEF StatusInv
    <2>2. handler[h].row = Told(x) /\ (heard[x] # NoText => Rank(heard[x]) <= Rank(e))
      BY <1>3, <1>4, <2>1 DEF InOrder
    <2>3. CASE heard[x] = NoText
      BY <1>1, <2>2, <2>3, NewStatusFromSent DEF Told
    <2>4. CASE heard[x] # NoText
      <3>1. heard[x] \in Events /\ heard[x] \in reported[x]
        BY <1>1, <2>4 DEF StatusInv, StatusTypeOK, OnlyReported
      <3>2. Rank(heard[x]) = Rank(e) => heard[x] = e
        BY <1>1, <1>4, <3>1 DEF StatusInv, ReportsDiffer
      <3>3. NewStatus(Final(heard[x]), e) = Final(e)
        BY <1>1, <2>2, <2>4, <3>1, <3>2, NewStatusInOrder
      <3> QED BY <2>2, <2>4, <3>3 DEF Told
    <2> QED BY <2>3, <2>4
  <1>6. e # NoText /\ saved # NoText
    BY <1>1, <1>2, StatusAssumption
  <1> HIDE DEF x, e, saved
  <1>7. /\ \A y \in Texts : /\ text'[y] = IF y = x THEN saved ELSE text[y]
                            /\ heard'[y] = IF y = x THEN e ELSE heard[y]
        /\ \A g \in Handlers : handler'[g] = IF g = h THEN NoText ELSE handler[g]
    BY <1>3 DEF StatusInv, StatusTypeOK
  <1>8. StatusTypeOK'
    BY <1>1, <1>2, <1>3 DEF StatusInv, StatusTypeOK
  <1>9. OnlyReported'
    <2>1. \A g \in Handlers : handler[g] # NoText => handler[g].of \in Texts
      BY DEF StatusInv, StatusTypeOK
    <2> QED BY <1>1, <1>3, <1>4, <1>6, <1>7, <2>1 DEF StatusInv, OnlyReported
  <1>10. ASSUME NEW y \in Texts \ jumbled
         PROVE  InOrder(y)'
    <2>1. InOrder(y)
      BY DEF StatusInv
    <2>2. CASE y = x
      \* The one webhook at work on the message is done.
      <3>1. \A g \in Handlers : ~(handler'[g] # NoText /\ handler'[g].of = x)
        BY <1>3, <1>7, <2>1, <2>2 DEF InOrder, x
      <3>2. text'[x] = Final(e) /\ heard'[x] = e
        BY <1>1, <1>5, <1>7, <2>2
      <3> QED BY <1>6, <2>2, <3>1, <3>2 DEF InOrder, Told
    <2>3. CASE y # x
      BY <1>7, <2>1, <2>3 DEF InOrder, Told
    <2> QED BY <2>2, <2>3
  <1> QED BY <1>3, <1>8, <1>9, <1>10 DEF StatusInv, ReportsDiffer

LEMMA StatusStep == StatusInv /\ [StatusNext]_statusVars => StatusInv'
  <1>1. StatusInv /\ UNCHANGED statusVars => StatusInv'
    BY DEF statusVars, StatusInv, StatusTypeOK, ReportsDiffer, OnlyReported, InOrder, Told
  <1> QED BY <1>1, TextVisibleStep, ReportStep, FindTextStep, SaveStatusStep DEF StatusNext

\* However late, early or often the reports come, the row of a message says what the
\* last one handled said, unless an older one came later or two were handled at once.
THEOREM StatusIsReported == StatusSpec => []StatusAsReported
  <1>1. StatusInv => StatusAsReported
    BY DEF StatusInv, StatusAsReported, InOrder, Told
  <1> QED BY StatusInitially, StatusStep, <1>1, PTL DEF StatusSpec

-----------------------------------------------------------------------------

(***************************************************************************)
(* A tenant and its lines are as they were last provisioned, for any       *)
(* number of posts.                                                        *)
(*                                                                         *)
(* A post acts on the row it read.  The invariant says of every open post  *)
(* what it may ask, and that a tenant it found is still there, so that its *)
(* save meets a row; and of every row that its columns are those that were *)
(* meant, except for the tenants and the lines in the history sets         *)
(* that the two theorems leave out.                                        *)
(***************************************************************************)

Columns == {"code", "key", "active"}

PostOps == {"upsert", "create", "patch", "did", "gone"}

\* What a request gives of the columns of a tenant.
Fits(ask) ==
    /\ "code" \in DOMAIN ask => ask.code \in PostCodes
    /\ "key" \in DOMAIN ask => ask.key \in Posts \cup {NoKey}
    /\ "active" \in DOMAIN ask => ask.active \in BOOLEAN

TenantAsk(op, ask) ==
    /\ Fits(ask)
    /\ op = "upsert" => /\ {"code", "active"} \subseteq DOMAIN ask /\ ask.active = TRUE
    /\ op \in {"create", "did"} => Columns \subseteq DOMAIN ask
    /\ op = "did" => ask.number \in Posts
    /\ op = "gone" => ask.number = NoDid

\* What a running request is about and what it found; there are no columns it leaves out of a
\* tenant it inserts.
PostOK(p) ==
    /\ p.op \in PostOps /\ p.of \in Tenants /\ p.named \in Tenants
    /\ p.found \in TenantRow \cup {NoTenant}
    /\ p.line \in Dids \cup {NoDid} /\ p.did \in DidRow \cup {NoDid}
    /\ TenantAsk(p.op, p.ask)
    /\ p.known => p.of = p.named
    /\ p.op = "upsert" /\ "key" \notin DOMAIN p.ask => p.found # NoTenant
    /\ p.op = "upsert" /\ "key" \in DOMAIN p.ask /\ p.ask.key = NoKey => p.found = NoTenant
    /\ p.op = "patch" => p.found # NoTenant
    /\ p.op \notin {"did", "gone"} => p.line = NoDid

OpenPost(r) == postPhase[r] \in {"read", "saved"}

PostTypeOK ==
    /\ tenant \in [Tenants -> TenantRow \cup {NoTenant}]
    /\ meantTenant \in [Tenants -> TenantRow \cup {NoTenant}]
    /\ did \in [DidKeys -> DidRow \cup {NoDid}]
    /\ toldNumber \in [DidKeys -> Posts \cup {NoDid}]
    /\ postPhase \in [Posts -> {"new", "read", "saved", "done"}]
    /\ DOMAIN post = Posts

\* A tenant is what the requests gave it, but for a PATCH and a lost key.
Provisioned(u) ==
    /\ tenant[u] = NoTenant <=> meantTenant[u] = NoTenant
    /\ tenant[u] # NoTenant /\ u \notin restored =>
           /\ tenant[u].code = meantTenant[u].code
           /\ tenant[u].active = meantTenant[u].active
           /\ u \in wiped \/ tenant[u].key = meantTenant[u].key

LineReported(l) ==
    l \notin mixed => toldNumber[l] = IF did[l] = NoDid THEN NoDid ELSE did[l].number

ProvisionInv ==
    /\ PostTypeOK
    /\ \A r \in Posts : OpenPost(r) =>
           PostOK(post[r]) /\ (post[r].found # NoTenant => tenant[post[r].of] # NoTenant)
    /\ \A u \in Tenants : Provisioned(u)
    /\ \A l \in DidKeys : LineReported(l)

\* A save sets the columns that were given and leaves the others.
LEMMA GivenRow ==
  ASSUME NEW row, NEW ask, Fits(ask), row \in TenantRow \/ Columns \subseteq DOMAIN ask
  PROVE  /\ Given(row, ask) \in TenantRow
         /\ Given(row, ask).code = IF "code" \in DOMAIN ask THEN ask.code ELSE row.code
         /\ Given(row, ask).key = IF "key" \in DOMAIN ask THEN ask.key ELSE row.key
         /\ Given(row, ask).active = IF "active" \in DOMAIN ask THEN ask.active ELSE row.active
  <1> DEFINE c == IF "code" \in DOMAIN ask THEN ask.code ELSE row.code
             k == IF "key" \in DOMAIN ask THEN ask.key ELSE row.key
             a == IF "active" \in DOMAIN ask THEN ask.active ELSE row.active
  <1>1. c \in PostCodes
    BY DEF Fits, Columns, TenantRow
  <1>2. k \in Posts \cup {NoKey}
    BY DEF Fits, Columns, TenantRow
  <1>3. a \in BOOLEAN
    BY DEF Fits, Columns, TenantRow
  <1>4. Given(row, ask) = [code |-> c, key |-> k, active |-> a]
    BY DEF Given
  <1> HIDE DEF c, k, a
  <1>5. Given(row, ask) \in TenantRow
    BY <1>1, <1>2, <1>3, <1>4 DEF TenantRow
  <1>6. Given(row, ask).code = c /\ Given(row, ask).key = k /\ Given(row, ask).active = a
    BY <1>4
  <1> QED BY <1>5, <1>6 DEF c, k, a

LEMMA ProvisionInitially == ProvisionInit => ProvisionInv
  <1> SUFFICES ASSUME ProvisionInit
               PROVE  ProvisionInv
    OBVIOUS
  <1>1. tenant \in [Tenants -> TenantRow \cup {NoTenant}]
    BY DEF ProvisionInit, TenantRow, PostCodes
  <1> QED BY <1>1 DEF ProvisionInit, ProvisionInv, PostTypeOK, OpenPost, Provisioned, LineReported

LEMMA BeginPostStep ==
  ASSUME ProvisionInv, NEW r \in Posts, NEW op \in PostOps, NEW u \in Tenants, NEW t \in Tenants,
         NEW line \in Dids \cup {NoDid}, NEW ask, BeginPost(r, op, u, t, line, ask),
         TenantAsk(op, ask), HasTenant(u) => t = u,
         op = "upsert" /\ "key" \notin DOMAIN ask => HasTenant(t),
         op = "upsert" /\ "key" \in DOMAIN ask /\ ask.key = NoKey => ~HasTenant(t),
         op = "patch" => HasTenant(t),
         op \notin {"did", "gone"} => line = NoDid
  PROVE  ProvisionInv'
  <1>1. /\ postPhase' = [postPhase EXCEPT ![r] = "read"]
        /\ post' = [post EXCEPT ![r] =
               [op |-> op, named |-> u, known |-> HasTenant(u), of |-> t,
                found |-> tenant[t], line |-> line,
                did |-> IF line = NoDid THEN NoDid ELSE did[<<t, line>>], ask |-> ask]]
        /\ UNCHANGED <<tenant, did, meantTenant, toldNumber, restored, wiped, mixed>>
    BY DEF BeginPost
  <1>2. /\ DOMAIN post' = Posts
        /\ post'[r] = [op |-> op, named |-> u, known |-> HasTenant(u), of |-> t,
                       found |-> tenant[t], line |-> line,
                       did |-> IF line = NoDid THEN NoDid ELSE did[<<t, line>>], ask |-> ask]
        /\ \A q \in Posts : q # r => post'[q] = post[q] /\ postPhase'[q] = postPhase[q]
    BY <1>1 DEF ProvisionInv, PostTypeOK
  <1>3. /\ tenant[t] \in TenantRow \cup {NoTenant}
        /\ (IF line = NoDid THEN NoDid ELSE did[<<t, line>>]) \in DidRow \cup {NoDid}
    BY DEF ProvisionInv, PostTypeOK, DidKeys
  <1>4. PostOK(post'[r]) /\ (post'[r].found # NoTenant => tenant'[post'[r].of] # NoTenant)
    BY <1>1, <1>2, <1>3 DEF PostOK, HasTenant
  <1>5. PostTypeOK'
    BY <1>1, <1>2 DEF ProvisionInv, PostTypeOK
  <1> QED BY <1>1, <1>2, <1>4, <1>5 DEF ProvisionInv, OpenPost, Provisioned, LineReported

LEMMA TenantPostStep ==
  ASSUME ProvisionInv, NEW r \in Posts, NEW u \in Tenants, NEW c \in PostCodes,
         TenantPost(r, u, c)
  PROVE  ProvisionInv'
  <1>1. PICK hasKey \in BOOLEAN :
            BeginPost(r, "upsert", u, u, NoDid, TenantDefaults(r, u, c, hasKey))
    BY DEF TenantPost
  <1>2. PICK ask : ask = TenantDefaults(r, u, c, hasKey)
    OBVIOUS
  <1>3. /\ DOMAIN ask = {"code", "active"} \cup (IF hasKey \/ ~HasTenant(u) THEN {"key"} ELSE {})
        /\ ask.code = c /\ ask.active = TRUE
        /\ "key" \in DOMAIN ask => ask.key = IF hasKey THEN r ELSE NoKey
    BY <1>2 DEF TenantDefaults
  <1>4. TenantAsk("upsert", ask)
    BY <1>3 DEF TenantAsk, Fits
  <1>5. "key" \notin DOMAIN ask => HasTenant(u)
    BY <1>3
  <1>6. "key" \in DOMAIN ask /\ ask.key = NoKey => ~HasTenant(u)
    BY <1>3, ProvisioningAssumption
  <1>7. BeginPost(r, "upsert", u, u, NoDid, ask)
    BY <1>1, <1>2
  <1> QED BY <1>4, <1>5, <1>6, <1>7, BeginPostStep DEF PostOps

LEMMA CreateTenantStep ==
  ASSUME ProvisionInv, NEW r \in Posts, NEW u \in Tenants, NEW c \in Codes,
         CreateTenant(r, u, c)
  PROVE  ProvisionInv'
  <1>1. PICK k \in {r, NoKey} :
            BeginPost(r, "create", u, u, NoDid, [code |-> c, key |-> k, active |-> TRUE])
    BY DEF CreateTenant
  <1>2. TenantAsk("create", [code |-> c, key |-> k, active |-> TRUE])
    BY DEF TenantAsk, Fits, Columns, PostCodes
  <1> QED BY <1>1, <1>2, BeginPostStep DEF PostOps

LEMMA PatchTenantStep ==
  ASSUME ProvisionInv, NEW r \in Posts, NEW u \in Tenants, PatchTenant(r, u)
  PROVE  ProvisionInv'
  <1>1. PICK ask \in {[key |-> r], [active |-> FALSE]} \cup {[code |-> c] : c \in Codes} :
            BeginPost(r, "patch", u, u, NoDid, ask)
    BY DEF PatchTenant
  <1>2. TenantAsk("patch", ask)
    <2>1. CASE ask = [key |-> r]
      BY <2>1 DEF TenantAsk, Fits
    <2>2. CASE ask = [active |-> FALSE]
      BY <2>2 DEF TenantAsk, Fits
    <2>3. ASSUME NEW c \in Codes, ask = [code |-> c]
          PROVE  TenantAsk("patch", ask)
      BY <2>3 DEF TenantAsk, Fits, PostCodes
    <2> QED BY <2>1, <2>2, <2>3
  <1>3. HasTenant(u)
    BY DEF PatchTenant
  <1> QED BY <1>1, <1>2, <1>3, BeginPostStep DEF PostOps

LEMMA DidPostStep ==
  ASSUME ProvisionInv, NEW r \in Posts, NEW u \in Tenants, NEW c \in PostCodes, NEW d \in Dids,
         DidPost(r, u, c, d)
  PROVE  ProvisionInv'
  <1>1. PICK t \in TenantOf(u, c) :
            \E n \in {r} \cup (IF did[<<t, d>>] = NoDid THEN {} ELSE {did[<<t, d>>].number}) :
                BeginPost(r, "did", u, t, d, [code |-> c, key |-> NoKey, active |-> TRUE, number |-> n])
    BY DEF DidPost
  <1>2. t \in Tenants /\ (HasTenant(u) => t = u)
    BY DEF TenantOf, ByCode
  <1>3. did[<<t, d>>] \in DidRow \cup {NoDid}
    BY <1>2 DEF ProvisionInv, PostTypeOK, DidKeys
  <1>4. PICK n \in Posts :
            BeginPost(r, "did", u, t, d, [code |-> c, key |-> NoKey, active |-> TRUE, number |-> n])
    BY <1>1, <1>3 DEF DidRow
  <1>5. TenantAsk("did", [code |-> c, key |-> NoKey, active |-> TRUE, number |-> n])
    BY DEF TenantAsk, Fits, Columns
  <1> QED BY <1>2, <1>4, <1>5, BeginPostStep DEF PostOps

LEMMA DidDeletedStep ==
  ASSUME ProvisionInv, NEW r \in Posts, NEW u \in Tenants, NEW c \in PostCodes, NEW d \in Dids,
         DidDeleted(r, u, c, d)
  PROVE  ProvisionInv'
  <1>1. PICK t \in TenantOf(u, c) : BeginPost(r, "gone", u, t, d, [number |-> NoDid])
    BY DEF DidDeleted
  <1>2. t \in Tenants /\ (HasTenant(u) => t = u)
    BY DEF TenantOf, ByCode
  <1>3. TenantAsk("gone", [number |-> NoDid])
    BY DEF TenantAsk, Fits
  <1> QED BY <1>1, <1>2, <1>3, BeginPostStep DEF PostOps

-----------------------------------------------------------------------------

\* What a commit makes of the tenant.
LEMMA CommitTenantRow ==
  ASSUME ProvisionInv, NEW r \in Posts, OpenPost(r), WritesTenant(r),
         NEW u \in Tenants, u = post[r].of
  PROVE  /\ SavedTenant(r) \in TenantRow /\ MeantTenant(r) \in TenantRow
         /\ u \notin restored /\ (post[r].op = "patch" => post[r].found = tenant[u]) =>
                /\ SavedTenant(r).code = MeantTenant(r).code
                /\ SavedTenant(r).active = MeantTenant(r).active
                /\ \/ SavedTenant(r).key = MeantTenant(r).key
                   \/ u \in wiped
                   \/ /\ post[r].op = "upsert" /\ post[r].found = NoTenant
                      /\ HasTenant(u) /\ tenant[u].key # NoKey /\ post[r].ask.key = NoKey
  <1> DEFINE p == post[r]
             keyless == p.op = "upsert" /\ ("key" \in DOMAIN p.ask => p.ask.key = NoKey)
             was == IF p.op = "patch" THEN p.found ELSE tenant[u]
  <1>1. PostOK(p) /\ (p.found # NoTenant => tenant[u] # NoTenant)
    BY DEF ProvisionInv
  <1>2. Fits(p.ask)
    BY <1>1 DEF PostOK, TenantAsk
  <1>3. tenant[u] \in TenantRow \cup {NoTenant} /\ meantTenant[u] \in TenantRow \cup {NoTenant}
    BY DEF ProvisionInv, PostTypeOK
  <1>4. tenant[u] = NoTenant <=> meantTenant[u] = NoTenant
    BY DEF ProvisionInv, Provisioned
  <1>5. was \in TenantRow \/ Columns \subseteq DOMAIN p.ask
    <2>1. CASE p.op = "patch"
      BY <1>1, <2>1 DEF PostOK
    <2>2. CASE p.op = "upsert"
      BY <1>1, <1>3, <2>2 DEF PostOK, TenantAsk, Columns
    <2>3. CASE p.op \in {"create", "did"}
      BY <1>1, <2>3 DEF PostOK, TenantAsk
    <2> QED BY <2>1, <2>2, <2>3 DEF WritesTenant, InsertsTenant
  <1>6. meantTenant[u] \in TenantRow \/ Columns \subseteq DOMAIN p.ask
    <2>1. CASE p.op = "patch"
      BY <1>1, <1>3, <1>4, <2>1 DEF PostOK
    <2>2. CASE p.op = "upsert"
      BY <1>1, <1>3, <1>4, <2>2 DEF PostOK, TenantAsk, Columns
    <2>3. CASE p.op \in {"create", "did"}
      BY <1>1, <2>3 DEF PostOK, TenantAsk
    <2> QED BY <2>1, <2>2, <2>3 DEF WritesTenant, InsertsTenant
  <1>7. /\ SavedTenant(r) \in TenantRow
        /\ SavedTenant(r).code = IF "code" \in DOMAIN p.ask THEN p.ask.code ELSE was.code
        /\ SavedTenant(r).key = IF "key" \in DOMAIN p.ask THEN p.ask.key ELSE was.key
        /\ SavedTenant(r).active = IF "active" \in DOMAIN p.ask THEN p.ask.active ELSE was.active
    <2>1. SavedTenant(r) = Given(was, p.ask)
      BY DEF SavedTenant
    <2> HIDE DEF was, p
    <2> QED BY <1>2, <1>5, <2>1, GivenRow
  <1>8. /\ Given(meantTenant[u], p.ask) \in TenantRow \/ keyless
        /\ ~keyless =>
             /\ MeantTenant(r) \in TenantRow
             /\ MeantTenant(r).code = IF "code" \in DOMAIN p.ask THEN p.ask.code ELSE meantTenant[u].code
             /\ MeantTenant(r).key = IF "key" \in DOMAIN p.ask THEN p.ask.key ELSE meantTenant[u].key
             /\ MeantTenant(r).active = IF "active" \in DOMAIN p.ask THEN p.ask.active
                                       ELSE meantTenant[u].active
    <2>1. ~keyless => MeantTenant(r) = Given(meantTenant[u], p.ask)
      BY DEF MeantTenant
    <2>2. PICK m : m = meantTenant[u]
      OBVIOUS
    <2> HIDE DEF keyless, p
    <2> QED BY <1>2, <1>6, <2>1, <2>2, GivenRow
  <1>9. CASE keyless
    <2> DEFINE old == IF meantTenant[u] = NoTenant THEN NoKey ELSE meantTenant[u].key
    <2>1. MeantTenant(r) = [code |-> p.ask.code, active |-> TRUE, key |-> old]
      BY <1>9 DEF MeantTenant
    <2>2. old \in Posts \cup {NoKey} /\ p.ask.code \in PostCodes /\ p.ask.active = TRUE
          /\ {"code", "active"} \subseteq DOMAIN p.ask
      BY <1>1, <1>3, <1>9 DEF PostOK, TenantAsk, Fits, TenantRow
    <2>3. /\ MeantTenant(r) \in TenantRow /\ MeantTenant(r).code = p.ask.code
          /\ MeantTenant(r).active = TRUE /\ MeantTenant(r).key = old
      BY <2>1, <2>2 DEF TenantRow
    <2>4. CASE "key" \in DOMAIN p.ask
      <3>1. p.found = NoTenant /\ p.ask.key = NoKey /\ SavedTenant(r).key = NoKey
        BY <1>1, <1>7, <1>9, <2>4 DEF PostOK
      <3>2. CASE tenant[u] = NoTenant
        BY <1>4, <1>7, <2>2, <2>3, <3>1, <3>2
      <3>3. CASE tenant[u] # NoTenant
        BY <1>4, <1>7, <1>9, <2>2, <2>3, <3>1, <3>3 DEF ProvisionInv, Provisioned, HasTenant
      <3> QED BY <3>2, <3>3
    <2>5. CASE "key" \notin DOMAIN p.ask
      <3>1. tenant[u] # NoTenant /\ SavedTenant(r).key = tenant[u].key
        BY <1>1, <1>7, <1>9, <2>5 DEF PostOK
      <3> QED BY <1>4, <1>7, <2>2, <2>3, <3>1 DEF ProvisionInv, Provisioned
    <2> QED BY <2>4, <2>5
  <1>10. CASE ~keyless
    <2>1. CASE Columns \subseteq DOMAIN p.ask
      BY <1>7, <1>8, <1>10, <2>1 DEF Columns
    <2>2. CASE p.op = "patch"
      BY <1>1, <1>4, <1>7, <1>8, <1>10, <2>2 DEF PostOK, ProvisionInv, Provisioned
    <2>3. CASE p.op = "upsert"
      BY <1>1, <1>10, <2>1, <2>3 DEF PostOK, TenantAsk, Columns
    <2>4. CASE p.op \in {"create", "did"}
      BY <1>1, <2>1, <2>4 DEF PostOK, TenantAsk
    <2> QED BY <2>2, <2>3, <2>4 DEF WritesTenant, InsertsTenant
  <1> QED BY <1>9, <1>10

LEMMA CommitTenantStep ==
  ASSUME ProvisionInv, NEW r \in Posts, OpenPost(r), CommitTenant(r)
  PROVE  /\ tenant' \in [Tenants -> TenantRow \cup {NoTenant}]
         /\ meantTenant' \in [Tenants -> TenantRow \cup {NoTenant}]
         /\ \A u \in Tenants : tenant[u] # NoTenant => tenant'[u] # NoTenant
         /\ \A u \in Tenants : Provisioned(u)'
  <1>1. CASE ~WritesTenant(r)
    BY <1>1 DEF CommitTenant, ProvisionInv, PostTypeOK, Provisioned
  <1>2. CASE WritesTenant(r)
    <2>1. PICK u \in Tenants : u = post[r].of
      BY DEF ProvisionInv, PostOK
    <2>2. /\ tenant' = [tenant EXCEPT ![u] = SavedTenant(r)]
          /\ meantTenant' = [meantTenant EXCEPT ![u] = MeantTenant(r)]
          /\ restored' = IF post[r].op = "patch" /\ post[r].found # tenant[u]
                      THEN restored \cup {u} ELSE restored
          /\ wiped' = IF /\ post[r].op = "upsert" /\ post[r].found = NoTenant
                         /\ HasTenant(u) /\ tenant[u].key # NoKey /\ post[r].ask.key = NoKey
                     THEN wiped \cup {u} ELSE wiped
      BY <1>2, <2>1 DEF CommitTenant
    <2>3. /\ SavedTenant(r) \in TenantRow /\ MeantTenant(r) \in TenantRow
          /\ u \notin restored /\ (post[r].op = "patch" => post[r].found = tenant[u]) =>
                /\ SavedTenant(r).code = MeantTenant(r).code
                /\ SavedTenant(r).active = MeantTenant(r).active
                /\ \/ SavedTenant(r).key = MeantTenant(r).key
                   \/ u \in wiped
                   \/ /\ post[r].op = "upsert" /\ post[r].found = NoTenant
                      /\ HasTenant(u) /\ tenant[u].key # NoKey /\ post[r].ask.key = NoKey
      BY <1>2, <2>1, CommitTenantRow
    <2>4. \A x \in Tenants : /\ tenant'[x] = IF x = u THEN SavedTenant(r) ELSE tenant[x]
                             /\ meantTenant'[x] = IF x = u THEN MeantTenant(r) ELSE meantTenant[x]
                             /\ x # u => (x \in restored' <=> x \in restored)
                             /\ x # u => (x \in wiped' <=> x \in wiped)
      BY <2>2 DEF ProvisionInv, PostTypeOK
    <2>5. Provisioned(u)'
      BY <2>2, <2>3, <2>4, NoRowAssumption DEF Provisioned
    <2>6. \A x \in Tenants \ {u} : Provisioned(x)'
      BY <2>4 DEF ProvisionInv, Provisioned
    <2> QED BY <2>2, <2>3, <2>4, <2>5, <2>6, NoRowAssumption DEF ProvisionInv, PostTypeOK
  <1> QED BY <1>1, <1>2

\* What a commit makes of the line: the one it was told about, unless that is mixed up.
LEMMA CommitLineStep ==
  ASSUME ProvisionInv, NEW r \in Posts, OpenPost(r), CommitLine(r)
  PROVE  /\ did' \in [DidKeys -> DidRow \cup {NoDid}]
         /\ toldNumber' \in [DidKeys -> Posts \cup {NoDid}]
         /\ \A l \in DidKeys : LineReported(l)'
  <1> DEFINE p == post[r]
  <1>1. PostOK(p)
    BY DEF ProvisionInv
  <1>2. CASE p.line = NoDid
    BY <1>2 DEF CommitLine, ProvisionInv, PostTypeOK, LineReported
  <1>3. CASE p.line # NoDid
    <2>1. PICK L \in DidKeys, T \in DidKeys : L = LineOf(r) /\ T = ToldLine(r)
      BY <1>1, <1>3 DEF PostOK, LineOf, ToldLine, DidKeys
    <2>2. /\ did' = [did EXCEPT ![L] = SavedDid(r)]
          /\ toldNumber' = [toldNumber EXCEPT ![T] = p.ask.number]
          /\ mixed' = IF p.did # did[L] \/ (p.named # p.of /\ ~p.known)
                     THEN mixed \cup {T, L} ELSE mixed
      BY <1>3, <2>1 DEF CommitLine
    <2>3. did[L] \in DidRow \cup {NoDid} /\ p.did \in DidRow \cup {NoDid}
      BY <1>1 DEF ProvisionInv, PostTypeOK, PostOK
    <2>4. /\ p.op = "did" => p.ask.number \in Posts
          /\ p.op = "gone" => p.ask.number = NoDid
          /\ p.op \in {"did", "gone"}
      BY <1>1, <1>3 DEF PostOK, TenantAsk
    <2>5. /\ p.op = "did" => SavedDid(r) \in DidRow /\ SavedDid(r).number = p.ask.number
          /\ p.op = "gone" => SavedDid(r) = IF SameDid(r) THEN NoDid ELSE did[L]
      <3>1. CASE p.op = "did"
        <4>1. PICK row \in Posts : row = IF p.did = NoDid THEN r ELSE p.did.row
          BY <2>3 DEF DidRow
        <4>2. SavedDid(r) = [row |-> row, number |-> p.ask.number]
          BY <3>1, <4>1 DEF SavedDid
        <4> QED BY <2>4, <3>1, <4>2 DEF DidRow
      <3>2. CASE p.op = "gone"
        BY <2>1, <3>2 DEF SavedDid
      <3> QED BY <2>4, <3>1, <3>2
    <2>6. SavedDid(r) \in DidRow \cup {NoDid}
      BY <2>3, <2>4, <2>5
    <2>7. p.ask.number \in Posts \cup {NoDid}
      BY <2>4
    <2>8. \A l \in DidKeys : /\ did'[l] = IF l = L THEN SavedDid(r) ELSE did[l]
                             /\ toldNumber'[l] = IF l = T THEN p.ask.number ELSE toldNumber[l]
                             /\ l \in mixed => l \in mixed'
      <3>1. \A l \in DidKeys : did'[l] = IF l = L THEN SavedDid(r) ELSE did[l]
        BY <2>2 DEF ProvisionInv, PostTypeOK
      <3>2. \A l \in DidKeys : toldNumber'[l] = IF l = T THEN p.ask.number ELSE toldNumber[l]
        BY <2>2 DEF ProvisionInv, PostTypeOK
      <3>3. \A l \in DidKeys : l \in mixed => l \in mixed'
        BY <2>2
      <3> QED BY <3>1, <3>2, <3>3
    <2>9. T # L => T \in mixed' /\ L \in mixed'
      <3>1. p.named # p.of => ~p.known
        BY <1>1 DEF PostOK
      <3>2. T # L => p.named # p.of
        BY <2>1 DEF LineOf, ToldLine
      <3> QED BY <2>2, <3>1, <3>2
    <2>10. T = L => LineReported(L)'
      <3> SUFFICES ASSUME T = L, L \notin mixed'
                   PROVE  toldNumber'[L] = IF did'[L] = NoDid THEN NoDid ELSE did'[L].number
        BY DEF LineReported
      <3>1. did'[L] = SavedDid(r) /\ toldNumber'[L] = p.ask.number /\ p.did = did[L]
        BY <2>2, <2>8
      <3>2. CASE p.op = "did"
        BY <2>5, <3>1, <3>2, NoRowAssumption
      <3>3. CASE p.op = "gone"
        <4>1. SavedDid(r) = NoDid
          BY <2>1, <2>5, <3>1, <3>3 DEF SameDid
        <4> QED BY <2>4, <3>1, <3>3, <4>1
      <3> QED BY <2>4, <3>2, <3>3
    <2>11. \A l \in DidKeys : LineReported(l)'
      <3> SUFFICES ASSUME NEW l \in DidKeys
                   PROVE  LineReported(l)'
        OBVIOUS
      <3>1. CASE l \notin {L, T}
        <4>1. did'[l] = did[l] /\ toldNumber'[l] = toldNumber[l] /\ (l \in mixed => l \in mixed')
          BY <2>8, <3>1
        <4>2. LineReported(l)
          BY DEF ProvisionInv
        <4> QED BY <4>1, <4>2 DEF LineReported
      <3>2. CASE l \in {L, T} /\ T # L
        BY <2>9, <3>2 DEF LineReported
      <3>3. CASE l \in {L, T} /\ T = L
        BY <2>10, <3>3
      <3> QED BY <3>1, <3>2, <3>3
    <2> QED BY <2>2, <2>6, <2>7, <2>11 DEF ProvisionInv, PostTypeOK
  <1> QED BY <1>2, <1>3

LEMMA CommitPostStep ==
  ASSUME ProvisionInv, NEW r \in Posts, CommitPost(r)
  PROVE  ProvisionInv'
  <1>1. /\ postPhase' = [postPhase EXCEPT ![r] = "done"] /\ UNCHANGED post
        /\ OpenPost(r) /\ CommitTenant(r) /\ CommitLine(r)
    BY DEF CommitPost, OpenPost
  <1>2. /\ tenant' \in [Tenants -> TenantRow \cup {NoTenant}]
        /\ meantTenant' \in [Tenants -> TenantRow \cup {NoTenant}]
        /\ \A u \in Tenants : tenant[u] # NoTenant => tenant'[u] # NoTenant
        /\ \A u \in Tenants : Provisioned(u)'
    BY <1>1, CommitTenantStep
  <1>3. /\ did' \in [DidKeys -> DidRow \cup {NoDid}]
        /\ toldNumber' \in [DidKeys -> Posts \cup {NoDid}]
        /\ \A l \in DidKeys : LineReported(l)'
    BY <1>1, CommitLineStep
  <1>4. PostTypeOK'
    BY <1>1, <1>2, <1>3 DEF ProvisionInv, PostTypeOK
  <1>5. \A q \in Posts : OpenPost(q)' => OpenPost(q)
    BY <1>1 DEF ProvisionInv, PostTypeOK, OpenPost
  <1>6. \A q \in Posts : OpenPost(q) => post[q].of \in Tenants
    BY DEF ProvisionInv, PostOK
  <1>7. \A q \in Posts : OpenPost(q)' =>
            PostOK(post'[q]) /\ (post'[q].found # NoTenant => tenant'[post'[q].of] # NoTenant)
    BY <1>1, <1>2, <1>5, <1>6 DEF ProvisionInv
  <1> QED BY <1>2, <1>3, <1>4, <1>7 DEF ProvisionInv

LEMMA ProvisionStep == ProvisionInv /\ [ProvisionNext]_provisionVars => ProvisionInv'
  <1> SUFFICES ASSUME ProvisionInv, [ProvisionNext]_provisionVars
               PROVE  ProvisionInv'
    OBVIOUS
  <1>1. ASSUME NEW r \in Posts, SavePost(r) \/ PostRaises(r)
        PROVE  ProvisionInv'
    <2>1. /\ UNCHANGED <<tenant, did, post, meantTenant, toldNumber, restored, wiped, mixed>>
          /\ OpenPost(r) /\ \E ph \in {"saved", "done"} : postPhase' = [postPhase EXCEPT ![r] = ph]
      BY <1>1 DEF SavePost, PostRaises, OpenPost
    <2>2. /\ postPhase' \in [Posts -> {"new", "read", "saved", "done"}]
          /\ \A q \in Posts : OpenPost(q)' => OpenPost(q)
      BY <2>1 DEF ProvisionInv, PostTypeOK, OpenPost
    <2> QED BY <2>1, <2>2 DEF ProvisionInv, PostTypeOK, Provisioned, LineReported
  <1>2. CASE UNCHANGED provisionVars
    BY <1>2 DEF provisionVars, ProvisionInv, PostTypeOK, OpenPost, Provisioned, LineReported
  <1> QED BY <1>1, <1>2, TenantPostStep, CreateTenantStep, PatchTenantStep, DidPostStep,
             DidDeletedStep, CommitPostStep DEF ProvisionNext

\* However posts and requests about a tenant overlap: it has the code, the key and the state
\* they gave it last, unless a PATCH put back what it had read or a post emptied the key.
THEOREM TenantIsAsProvisioned == ProvisionSpec => []TenantAsProvisioned
  <1>1. ProvisionInv => TenantAsProvisioned
    BY DEF ProvisionInv, Provisioned, TenantAsProvisioned
  <1> QED BY ProvisionInitially, ProvisionStep, <1>1, PTL DEF ProvisionSpec

\* A line has the number last reported and is gone once it was reported deleted, unless posts
\* about it overlapped or it was found by the code of another tenant.
THEOREM LineIsAsReported == ProvisionSpec => []LineAsReported
  <1>1. ProvisionInv => LineAsReported
    BY DEF ProvisionInv, LineReported, LineAsReported
  <1> QED BY ProvisionInitially, ProvisionStep, <1>1, PTL DEF ProvisionSpec

=============================================================================
