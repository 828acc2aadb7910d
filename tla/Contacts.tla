------------------------------ MODULE Contacts ------------------------------
(***************************************************************************)
(* The phonebook: personal contacts, of an owner, and company contacts,    *)
(* that admins manage.  An update saves every column of the row it read,   *)
(* which locks the row, then replaces the numbers, if it was given any.    *)
(* The save of a row that is gone inserts it again, without its numbers.   *)
(*                                                                         *)
(* The numbers of a request are one list, named by the request; contacts   *)
(* are named by their primary key.                                         *)
(***************************************************************************)
EXTENDS FiniteSets

CONSTANTS
    Owners,     \* users of the tenant
    Managers,   \* those that are admins
    Contacts,
    Updates,    \* requests
    NoContact,  \* not made yet
    Deleted,
    NoOwner

DirectoryType == {"company", "personal"}
ContactRow == [kind : DirectoryType, owner : Owners \cup {NoOwner}]

ASSUME ContactsAssumption ==
    /\ Managers \subseteq Owners /\ NoOwner \notin Owners
    /\ NoContact \notin ContactRow /\ Deleted \notin ContactRow /\ NoContact # Deleted

VARIABLES
    contact,    \* contact[c]
    numbers,    \* numbers[c]: the lists whose numbers c has
    removed,    \* users deleted
    doing,      \* doing[r]: where request r stands
    change,     \* change[r]: the contact, the row it saves, the lists it drops and adds
    revived,    \* history: contacts inserted again after they were deleted
    orphaned    \* history: company contacts made personal, which gives them no owner

contactVars == <<contact, numbers, removed, doing, change, revived, orphaned>>

Present(c) == contact[c] \notin {NoContact, Deleted}

ContactTypeOK ==
    /\ contact \in [Contacts -> ContactRow \cup {NoContact, Deleted}]
    /\ numbers \in [Contacts -> SUBSET Updates]
    /\ removed \subseteq Owners
    /\ doing \in [Updates -> {"new", "read", "saved", "replaced", "done"}]
    /\ \A c \in Contacts : ~Present(c) => numbers[c] = {}
    /\ revived \subseteq Contacts /\ orphaned \subseteq Contacts

ContactInit ==
    /\ contact = [c \in Contacts |-> NoContact]
    /\ numbers = [c \in Contacts |-> {}]
    /\ removed = {}
    /\ doing = [r \in Updates |-> "new"]
    /\ change = [r \in Updates |-> NoContact]
    /\ revived = {} /\ orphaned = {}

\* What a user finds in the phonebook: the company directory and its own contacts.
Shown(u, c) == Present(c) /\ (contact[c].kind = "company" \/ contact[c].owner = u)

\* The company directory is for admins to change.
MayWrite(u, c) ==
    /\ Shown(u, c) /\ u \notin removed
    /\ contact[c].kind = "company" => u \in Managers

MayFile(u, k) == k = "company" => u \in Managers

AddContact(r, c, u, k) ==
    /\ doing[r] = "new" /\ contact[c] = NoContact
    /\ MayFile(u, k) /\ u \notin removed
    /\ doing' = [doing EXCEPT ![r] = "done"]
    /\ contact' = [contact EXCEPT ![c] =
           [kind |-> k, owner |-> IF k = "personal" THEN u ELSE NoOwner]]
    /\ numbers' = [numbers EXCEPT ![c] = {r}]
    /\ UNCHANGED <<removed, change, revived, orphaned>>

\* k: the directory c is to be in; the numbers are given or left as they are.
ReadContact(r, c, u, k) ==
    /\ doing[r] = "new" /\ MayWrite(u, c) /\ MayFile(u, k)
    /\ doing' = [doing EXCEPT ![r] = "read"]
    /\ \E lists \in {{}, {r}} :
           change' = [change EXCEPT ![r] =
               [of |-> c, row |-> [contact[c] EXCEPT !.kind = k], drop |-> {}, add |-> lists]]
    /\ UNCHANGED <<contact, numbers, removed, revived, orphaned>>

InFlight(r) == doing[r] \in {"saved", "replaced"}

Locked(c) == \E q \in Updates : InFlight(q) /\ change[q].of = c

SaveContact(r) ==
    /\ doing[r] = "read" /\ ~Locked(change[r].of)
    /\ change[r].row.owner \notin removed
    /\ doing' = [doing EXCEPT ![r] = "saved"]
    /\ UNCHANGED <<contact, numbers, removed, change, revived, orphaned>>

\* Mutant: the numbers that were there stay.
ReplaceNumbersAppends(r) ==
    /\ doing[r] = "saved" /\ change[r].add # {}
    /\ doing' = [doing EXCEPT ![r] = "replaced"]
    /\ UNCHANGED <<contact, numbers, removed, change, revived, orphaned>>

\* Deletes the numbers it sees, which are committed, and inserts its own.
ReplaceNumbers(r) ==
    /\ doing[r] = "saved" /\ change[r].add # {}
    /\ doing' = [doing EXCEPT ![r] = "replaced"]
    /\ change' = [change EXCEPT ![r].drop = numbers[change[r].of]]
    /\ UNCHANGED <<contact, numbers, removed, revived, orphaned>>

CommitContact(r) ==
    LET c == change[r].of IN
    /\ InFlight(r)
    /\ doing[r] = "replaced" <=> change[r].add # {}
    /\ doing' = [doing EXCEPT ![r] = "done"]
    /\ contact' = [contact EXCEPT ![c] = change[r].row]
    /\ numbers' = [numbers EXCEPT ![c] = (@ \ change[r].drop) \cup change[r].add]
    /\ revived' = IF Present(c) THEN revived ELSE revived \cup {c}
    /\ orphaned' = IF change[r].row = [kind |-> "personal", owner |-> NoOwner]
                   THEN orphaned \cup {c} ELSE orphaned
    /\ UNCHANGED <<removed, change>>

\* Always when the owner of the row is gone.
UpdateRaises(r) ==
    /\ doing[r] \in {"read", "saved", "replaced"}
    /\ doing' = [doing EXCEPT ![r] = "done"]
    /\ UNCHANGED <<contact, numbers, removed, change, revived, orphaned>>

Erase(C) ==
    /\ \A c \in C : ~Locked(c)
    /\ contact' = [c \in Contacts |-> IF c \in C THEN Deleted ELSE contact[c]]
    /\ numbers' = [c \in Contacts |-> IF c \in C THEN {} ELSE numbers[c]]

DeleteContact(u, c) ==
    /\ MayWrite(u, c)
    /\ Erase({c})
    /\ UNCHANGED <<removed, doing, change, revived, orphaned>>

\* CASCADE, also to a contact made company that was of the user.
RemoveOwner(u) ==
    /\ u \notin removed
    /\ Erase({c \in Contacts : Present(c) /\ contact[c].owner = u})
    /\ \A r \in Updates : InFlight(r) => change[r].row.owner # u
    /\ removed' = removed \cup {u}
    /\ UNCHANGED <<doing, change, revived, orphaned>>

\* What call records and voicemails of number list l are marked with: a contact of the
\* tenant, whoever's it is, and its id.
SavedAs(l) == {c \in Contacts : l \in numbers[c]}

ContactNext ==
    \/ \E c \in Contacts, u \in Owners :
           \/ DeleteContact(u, c)
           \/ \E r \in Updates, k \in DirectoryType :
                  AddContact(r, c, u, k) \/ ReadContact(r, c, u, k)
    \/ \E r \in Updates :
           SaveContact(r) \/ ReplaceNumbers(r) \/ CommitContact(r) \/ UpdateRaises(r)
    \/ \E u \in Owners : RemoveOwner(u)

ContactSpec == ContactInit /\ [][ContactNext]_contactVars

\* A contact has the numbers of one request, never of two or of none ("a contact must
\* have at least one phone number"), and a personal one has an owner who can see it,
\* unless an update inserted it again after its deletion, or made a company contact
\* personal, which hides it from everyone.  A call is never marked with a contact that
\* is gone.
ContactUsable ==
    /\ \A c \in Contacts :
           Present(c) =>
               /\ c \in revived \/ Cardinality(numbers[c]) = 1
               /\ (contact[c].kind = "personal" /\ c \notin orphaned) =>
                      \E u \in Owners \ removed : Shown(u, c)
    /\ \A l \in Updates : \A c \in SavedAs(l) : Present(c)

=============================================================================
