----------------------------- MODULE Downloads ------------------------------
(***************************************************************************)
(* The links to the desktop installer.  A link is opened without signing   *)
(* in, any number of times, until LinkHours after its first use.  A fetch  *)
(* reads the row in one step and marks it, if its copy says unused, in     *)
(* another; the installer is then streamed or the update server fails, and *)
(* either way the mark is committed.                                       *)
(***************************************************************************)
EXTENDS Integers

CONSTANTS
    Links,
    Fetches,
    LinkHours,  \* DOWNLOAD_TOKEN_TTL_HOURS
    MaxHour     \* bound on the clock

Hours == 0 .. MaxHour
Never == -1

ASSUME DownloadAssumption == LinkHours \in Nat /\ MaxHour \in Nat

Idle == [link |-> "none", used |-> Never]
Copies == [link : Links, used : Hours \cup {Never}]

VARIABLES
    hour,
    issued,     \* links in a mail or handed to a signed-in user
    firstUsed,  \* firstUsed[l]: first_used_at
    fetch,      \* fetch[f]: the link it is about to mark and the copy it read
    anchor,     \* history: the hour of the first mark
    latest,     \* history: the last hour at which a used link was honoured
    doubled     \* history: links marked by a fetch that had read them unused
                \* when another one had already marked them

downloadVars == <<hour, issued, firstUsed, fetch, anchor, latest, doubled>>

DownloadInit ==
    /\ hour = 0
    /\ issued = {}
    /\ firstUsed = [l \in Links |-> Never]
    /\ fetch = [f \in Fetches |-> Idle]
    /\ anchor = firstUsed /\ latest = firstUsed
    /\ doubled = {}

DownloadTypeOK ==
    /\ hour \in Hours
    /\ issued \subseteq Links
    /\ firstUsed \in [Links -> Hours \cup {Never}]
    /\ fetch \in [Fetches -> Copies \cup {Idle}]
    /\ anchor \in [Links -> Hours \cup {Never}]
    /\ latest \in [Links -> Hours \cup {Never}]
    /\ doubled \subseteq Links

HourPasses ==
    /\ hour < MaxHour
    /\ hour' = hour + 1
    /\ UNCHANGED <<issued, firstUsed, fetch, anchor, latest, doubled>>

\* By the welcome mail or by DownloadLinkCreateView.
Issue(l) ==
    /\ l \notin issued
    /\ issued' = issued \cup {l}
    /\ UNCHANGED <<hour, firstUsed, fetch, anchor, latest, doubled>>

LinkExpired(l) == firstUsed[l] # Never /\ hour > firstUsed[l] + LinkHours

\* An expired link is answered 410 and changes nothing.
OpenLink(f, l) ==
    /\ l \in issued /\ fetch[f] = Idle /\ ~LinkExpired(l)
    /\ fetch' = [fetch EXCEPT ![f] = [link |-> l, used |-> firstUsed[l]]]
    /\ latest' = [latest EXCEPT ![l] = IF firstUsed[l] = Never THEN @ ELSE hour]
    /\ UNCHANGED <<hour, issued, firstUsed, anchor, doubled>>

\* Mutant: every fetch is the first use.
MarkUsedAlways(f) ==
    LET l == fetch[f].link IN
    /\ fetch[f] # Idle
    /\ fetch' = [fetch EXCEPT ![f] = Idle]
    /\ firstUsed' = [firstUsed EXCEPT ![l] = hour]
    /\ anchor' = IF anchor[l] = Never THEN [anchor EXCEPT ![l] = hour] ELSE anchor
    /\ UNCHANGED <<hour, issued, latest, doubled>>

\* Whether the installer is streamed or the update server answers with an error, the
\* mark stays.
MarkUsed(f) ==
    LET l == fetch[f].link
        fresh == fetch[f].used = Never IN
    /\ fetch[f] # Idle
    /\ fetch' = [fetch EXCEPT ![f] = Idle]
    /\ firstUsed' = IF fresh THEN [firstUsed EXCEPT ![l] = hour] ELSE firstUsed
    /\ anchor' = IF anchor[l] = Never THEN [anchor EXCEPT ![l] = hour] ELSE anchor
    /\ doubled' = IF fresh /\ firstUsed[l] # Never THEN doubled \cup {l} ELSE doubled
    /\ UNCHANGED <<hour, issued, latest>>

\* The update server cannot be reached: the exception undoes the mark.
FetchRaises(f) ==
    /\ fetch[f] # Idle
    /\ fetch' = [fetch EXCEPT ![f] = Idle]
    /\ UNCHANGED <<hour, issued, firstUsed, anchor, latest, doubled>>

DownloadNext ==
    \/ HourPasses
    \/ \E l \in Links : Issue(l) \/ \E f \in Fetches : OpenLink(f, l)
    \/ \E f \in Fetches : MarkUsed(f) \/ FetchRaises(f)

DownloadSpec == DownloadInit /\ [][DownloadNext]_downloadVars

\* A link is never honoured more than LinkHours after its first use: later fetches do
\* not push the window back, unless two of them read the link unused and both marked it.
WindowFromFirstUse ==
    \A l \in Links \ doubled : latest[l] # Never => latest[l] <= anchor[l] + LinkHours

=============================================================================
