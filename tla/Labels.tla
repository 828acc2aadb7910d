------------------------------- MODULE Labels -------------------------------
(***************************************************************************)
(* The cached map from extensions to the names of their users, that call   *)
(* records are labelled with.  It is built on the first read and kept for  *)
(* 24 hours; the signals of User and Extension drop it, inside the         *)
(* transaction of the change.                                              *)
(*                                                                         *)
(* A map is the set of the changes it shows.                               *)
(***************************************************************************)
CONSTANTS
    Changes,    \* renamings, assignments and removals
    Builders,   \* reads of call records
    NoMap

VARIABLES
    changed,    \* changes committed
    open,       \* changes saved whose transaction is open
    labelMap,   \* the cached map, if any
    building,   \* building[b]: the map b has built and not yet cached, if any
    silent,     \* changes saved without the map being dropped
    exposed     \* changes the map was being built across

labelVars == <<changed, open, labelMap, building, silent, exposed>>

LabelsTypeOK ==
    /\ changed \subseteq Changes /\ open \subseteq Changes
    /\ labelMap = NoMap \/ labelMap \subseteq Changes
    /\ DOMAIN building = Builders
    /\ \A b \in Builders : building[b] = NoMap \/ building[b] \subseteq Changes
    /\ silent \subseteq Changes /\ exposed \subseteq Changes

LabelsInit ==
    /\ changed = {} /\ open = {}
    /\ labelMap = NoMap
    /\ building = [b \in Builders |-> NoMap]
    /\ silent = {} /\ exposed = {}

Building == \E b \in Builders : building[b] # NoMap

\* Mutant: the signal is not connected.
SaveNamedUnsignalled(c) ==
    /\ c \notin changed \cup open
    /\ open' = open \cup {c}
    /\ UNCHANGED <<changed, labelMap, building, silent, exposed>>

\* A user is renamed or an extension is saved; the change is visible at the commit.
SaveNamed(c) ==
    /\ c \notin changed \cup open
    /\ open' = open \cup {c}
    /\ labelMap' = NoMap
    /\ exposed' = IF Building THEN exposed \cup {c} ELSE exposed
    /\ UNCHANGED <<changed, building, silent>>

\* QuerySet.update (unassigning an extension) and SET_NULL (deleting its user) send no
\* signal, and a cache that does not answer is not asked again.
SaveSilently(c) ==
    /\ c \notin changed \cup open
    /\ open' = open \cup {c}
    /\ silent' = silent \cup {c}
    /\ UNCHANGED <<changed, labelMap, building, exposed>>

CommitNames(c) ==
    /\ c \in open
    /\ open' = open \ {c}
    /\ changed' = changed \cup {c}
    /\ UNCHANGED <<labelMap, building, silent, exposed>>

RollbackNames(c) ==
    /\ c \in open
    /\ open' = open \ {c}
    /\ UNCHANGED <<changed, labelMap, building, silent, exposed>>

Build(b) ==
    /\ labelMap = NoMap /\ building[b] = NoMap
    /\ building' = [building EXCEPT ![b] = changed]
    /\ exposed' = exposed \cup open
    /\ UNCHANGED <<changed, open, labelMap, silent>>

Cache(b) ==
    /\ building[b] # NoMap
    /\ labelMap' = building[b]
    /\ building' = [building EXCEPT ![b] = NoMap]
    /\ UNCHANGED <<changed, open, silent, exposed>>

\* 24 hours later, or the cache is restarted.
ForgetMap ==
    /\ labelMap # NoMap
    /\ labelMap' = NoMap
    /\ UNCHANGED <<changed, open, building, silent, exposed>>

LabelsNext ==
    \/ \E c \in Changes :
           SaveNamed(c) \/ SaveSilently(c) \/ CommitNames(c) \/ RollbackNames(c)
    \/ \E b \in Builders : Build(b) \/ Cache(b)
    \/ ForgetMap

LabelsSpec == LabelsInit /\ [][LabelsNext]_labelVars

\* The cached labels show every change that is committed, except one that dropped
\* nothing and one the map was built across: dropped before its commit, the map is
\* built again from the old names and stays for a day.
LabelsCurrent ==
    labelMap # NoMap => changed \ labelMap \subseteq silent \cup exposed

=============================================================================
