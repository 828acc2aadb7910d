----------------------------- MODULE FaxTriage ------------------------------
(***************************************************************************)
(* The triage of faxes: a FaxTag row, made on the first request about a    *)
(* fax, says who works on it, how far the review is and who read it first. *)
(*                                                                         *)
(* A request gets or creates the row in one step and saves the columns it  *)
(* names in another, at the end of its transaction: until then a row it    *)
(* made is unseen, and another one that would make it waits.               *)
(***************************************************************************)
CONSTANTS
    Staff,      \* users of the tenant
    Admins,
    TeamLeads,
    Team,       \* whom the leads may assign: holders of a fax box in their scope
    Faxes,
    TagCalls,   \* requests
    NoTag, Nobody

ASSUME FaxTriageAssumption ==
    /\ Admins \cup TeamLeads \cup Team \subseteq Staff
    /\ Nobody \notin Staff

FaxTagStatus == {"pending", "in_progress", "completed"}
TagRow == [assigned_to : Staff \cup {Nobody}, status : FaxTagStatus,
           read_by : Staff \cup {Nobody}, read : BOOLEAN]

ASSUME NoTagAssumption == NoTag \notin TagRow

NewTag == [assigned_to |-> Nobody, status |-> "pending", read_by |-> Nobody, read |-> FALSE]

VARIABLES
    tag,        \* tag[f]
    left,       \* users deleted
    tagStage,   \* tagStage[c]: where request c stands
    tagCall,    \* tagCall[c]: what it is about and the row it got, while it runs
    wished,     \* history: wished[f]: the row if each request had changed only what it asked
    rushed      \* history: faxes two requests found unread before either saved

faxVars == <<tag, left, tagStage, tagCall, wished, rushed>>

TagTypeOK ==
    /\ tag \in [Faxes -> TagRow \cup {NoTag}]
    /\ left \subseteq Staff
    /\ tagStage \in [TagCalls -> {"new", "made", "got", "done"}]
    /\ wished \in [Faxes -> TagRow \cup {NoTag}]
    /\ rushed \subseteq Faxes

FaxInit ==
    /\ tag = [f \in Faxes |-> NoTag]
    /\ left = {}
    /\ tagStage = [c \in TagCalls |-> "new"]
    /\ tagCall = [c \in TagCalls |-> NoTag]
    /\ wished = tag
    /\ rushed = {}

MayAssign(u) ==
    IF u \in Admins THEN Staff
    ELSE {u} \cup (IF u \in TeamLeads THEN Team ELSE {})

Assigning(u) == [assigned_to : MayAssign(u) \ left]
Reviewing(u) == IF u \in Admins THEN [status : FaxTagStatus] ELSE {}

\* What a user may ask of FaxAssignmentView, and a download, which reads the fax.
Triage(u) ==
    Assigning(u) \cup Reviewing(u)
    \cup {[assigned_to |-> a.assigned_to, status |-> b.status] :
             a \in Assigning(u), b \in Reviewing(u)}

Download(u) == [read_by |-> u, read |-> TRUE]

GetOrCreate(c, f, u) ==
    /\ tagStage[c] = "new" /\ u \notin left
    /\ \A d \in TagCalls : tagStage[d] = "made" => tagCall[d].fax # f
    /\ \E ask \in Triage(u) \cup {Download(u)} :
           tagCall' = [tagCall EXCEPT ![c] =
               [fax |-> f, by |-> u, ask |-> ask, row |-> IF tag[f] = NoTag THEN NewTag ELSE tag[f]]]
    /\ tagStage' = [tagStage EXCEPT ![c] = IF tag[f] = NoTag THEN "made" ELSE "got"]
    /\ UNCHANGED <<tag, left, wished, rushed>>

\* A fax read before is not read again.
Asked(c) ==
    IF tagCall[c].row.read /\ "read" \in DOMAIN tagCall[c].ask THEN {} ELSE DOMAIN tagCall[c].ask

Named(c) == {tagCall[c].ask[x] : x \in DOMAIN tagCall[c].ask \cap {"assigned_to"}} \cup {tagCall[c].by}

Current(x, f) == IF x[f] = NoTag THEN NewTag ELSE x[f]

Put(row, c) == [x \in DOMAIN row |-> IF x \in Asked(c) THEN tagCall[c].ask[x] ELSE row[x]]

\* Mutant: save() without update_fields.
SavedTagWhole(c) == Put(tagCall[c].row, c)

SavedTag(c) == Put(Current(tag, tagCall[c].fax), c)

SaveTag(c) ==
    LET f == tagCall[c].fax
        reads == "read" \in Asked(c) IN
    /\ tagStage[c] \in {"made", "got"} /\ Named(c) \cap left = {}
    /\ tagStage' = [tagStage EXCEPT ![c] = "done"]
    /\ tag' = [tag EXCEPT ![f] = SavedTag(c)]
    /\ wished' = [wished EXCEPT ![f] =
           IF reads /\ Current(wished, f).read THEN @ ELSE Put(Current(wished, f), c)]
    /\ rushed' = IF reads /\ Current(tag, f).read THEN rushed \cup {f} ELSE rushed
    /\ tagCall' = [tagCall EXCEPT ![c] = NoTag]
    /\ UNCHANGED left

\* The request raises and rolls back: always when a user it names is gone.
TagRaises(c) ==
    /\ tagStage[c] \in {"made", "got"}
    /\ tagStage' = [tagStage EXCEPT ![c] = "done"]
    /\ tagCall' = [tagCall EXCEPT ![c] = NoTag]
    /\ UNCHANGED <<tag, left, wished, rushed>>

Forget(row, u) ==
    IF row = NoTag THEN NoTag
    ELSE [row EXCEPT !.assigned_to = IF @ = u THEN Nobody ELSE @,
                     !.read_by = IF @ = u THEN Nobody ELSE @]

\* SET_NULL: a fax that was read stays read.
LeaveStaff(u) ==
    /\ u \notin left
    /\ left' = left \cup {u}
    /\ tag' = [f \in Faxes |-> Forget(tag[f], u)]
    /\ wished' = [f \in Faxes |-> Forget(wished[f], u)]
    /\ UNCHANGED <<tagStage, tagCall, rushed>>

FaxNext ==
    \/ \E c \in TagCalls :
           \/ SaveTag(c) \/ TagRaises(c)
           \/ \E f \in Faxes, u \in Staff : GetOrCreate(c, f, u)
    \/ \E u \in Staff : LeaveStaff(u)

FaxSpec == FaxInit /\ [][FaxNext]_faxVars

\* Assignments, reviews and reads of a fax that overlap all survive, and "the first
\* reader is kept", unless two of them found the fax unread before either saved.
TriageAsAsked ==
    \A f \in Faxes :
        /\ tag[f] = NoTag <=> wished[f] = NoTag
        /\ tag[f] # NoTag =>
               /\ tag[f].assigned_to = wished[f].assigned_to
               /\ tag[f].status = wished[f].status
               /\ tag[f].read = wished[f].read
               /\ f \in rushed \/ tag[f].read_by = wished[f].read_by

=============================================================================
