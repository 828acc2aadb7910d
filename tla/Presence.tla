------------------------------ MODULE Presence ------------------------------
(***************************************************************************)
(* Who is online and who is on a call: two pages that are put together     *)
(* from live reads of the provider, made at different times, and from the  *)
(* local rows of the extensions, looked up later still.                    *)
(*                                                                         *)
(* A device stands for an extension, its number and its SIP username.  The *)
(* row of a call names the device in its field "extension", or the other   *)
(* party there and the device as its caller.  The user of a row is left    *)
(* out: it comes with the extension.                                       *)
(***************************************************************************)
CONSTANTS
    Devices,
    NotRead, Refused    \* a read not made yet, and one that failed

VARIABLES
    registered,     \* at the provider
    inCall,         \* inCall[d]: "none", or the field of its call's row that names d
    mirrored,       \* devices with a local row
    page,           \* the page being put together
    online,         \* the registrations read
    live,           \* the calls read
    busyNumbers,    \* the extensions found for them
    display,        \* display[d]: what the page says of d
    wasBusy, wasIdle,   \* history: devices at some time of the read in a call, and in none
    overlooked      \* history: devices whose call, if any, the page cannot tell

presenceVars == <<registered, inCall, mirrored, page, online, live, busyNumbers, display,
                  wasBusy, wasIdle, overlooked>>

reading == <<page, online, live, busyNumbers, display, overlooked>>

PresenceInit ==
    /\ registered = {} /\ mirrored = Devices
    /\ inCall = [d \in Devices |-> "none"]
    /\ page = "none"
    /\ online = NotRead /\ live = NotRead /\ busyNumbers = NotRead
    /\ display = [d \in Devices |-> "nothing"]
    /\ wasBusy = {} /\ wasIdle = {} /\ overlooked = {}

-----------------------------------------------------------------------------
(* The provider and the sync of the rows.                                  *)

Registers(d) ==
    /\ \/ registered' = registered \cup {d}
       \/ registered' = registered \ {d}
    /\ UNCHANGED <<inCall, mirrored, reading, wasBusy, wasIdle>>

CallChanges(d) ==
    /\ \E f \in {"none", "extension", "caller"} : inCall' = [inCall EXCEPT ![d] = f]
    /\ wasBusy' = IF page # "none" /\ inCall'[d] # "none" THEN wasBusy \cup {d} ELSE wasBusy
    /\ wasIdle' = IF page # "none" /\ inCall'[d] = "none" THEN wasIdle \cup {d} ELSE wasIdle
    /\ UNCHANGED <<registered, mirrored, reading>>

RowSynced(d) ==
    /\ \/ mirrored' = mirrored \cup {d}
       \/ mirrored' = mirrored \ {d}
    /\ UNCHANGED <<registered, inCall, reading, wasBusy, wasIdle>>

-----------------------------------------------------------------------------
(* The reads of a page.                                                    *)

AskPage(p) ==
    /\ page = "none"
    /\ page' = p
    /\ display' = [d \in Devices |-> "nothing"]
    /\ wasBusy' = {d \in Devices : inCall[d] # "none"}
    /\ wasIdle' = Devices \ wasBusy'
    /\ overlooked' = {}
    /\ UNCHANGED <<registered, inCall, mirrored, online, live, busyNumbers>>

ReadOnline ==
    /\ page = "registrations" /\ online = NotRead
    /\ online' \in {registered, Refused}
    /\ UNCHANGED <<registered, inCall, mirrored, page, live, busyNumbers, display,
                   wasBusy, wasIdle, overlooked>>

ReadLive ==
    /\ page # "none" /\ live = NotRead
    /\ live' \in {inCall, Refused}
    /\ UNCHANGED <<registered, inCall, mirrored, page, online, busyNumbers, display,
                   wasBusy, wasIdle, overlooked>>

InField(f) == IF live = Refused THEN {} ELSE {d \in Devices : live[d] = f}

\* Mutant: the SIP usernames of the calls are looked up among the extension numbers.
BusyByNumber == {}

\* Only the field "extension" is looked up; calls that could not be read are none.
BusyRows == InField("extension") \cap mirrored

ResolveBusy ==
    /\ page = "registrations" /\ live # NotRead /\ busyNumbers = NotRead
    /\ busyNumbers' = BusyRows
    /\ overlooked' = IF live = Refused THEN Devices ELSE InField("caller") \cup (Devices \ mirrored)
    /\ UNCHANGED <<registered, inCall, mirrored, page, online, live, display, wasBusy, wasIdle>>

\* Every field is tried.
CallsOfRows == (InField("extension") \cup InField("caller")) \cap mirrored

Close(shows) ==
    /\ page' = "none"
    /\ display' = shows
    /\ online' = NotRead /\ live' = NotRead /\ busyNumbers' = NotRead
    /\ UNCHANGED <<registered, inCall, mirrored, wasBusy, wasIdle, overlooked>>

\* Without the registrations the page is the error of their read.
ShowRegistrations ==
    /\ online # NotRead /\ busyNumbers # NotRead
    /\ Close([d \in Devices |->
           IF online = Refused THEN "error"
           ELSE IF d \notin online THEN "offline"
           ELSE IF d \in busyNumbers THEN "online_busy" ELSE "online"])

ShowCalls ==
    /\ page = "calls" /\ live # NotRead
    /\ Close([d \in Devices |-> IF d \in CallsOfRows THEN "calling" ELSE "nothing"])

PresenceNext ==
    \/ \E d \in Devices : Registers(d) \/ CallChanges(d) \/ RowSynced(d)
    \/ \E p \in {"registrations", "calls"} : AskPage(p)
    \/ ReadOnline \/ ReadLive \/ ResolveBusy \/ ShowRegistrations \/ ShowCalls

PresenceSpec == PresenceInit /\ [][PresenceNext]_presenceVars

\* Whom a page says to be on a call was on one while the page was read, and whom it says
\* to be just online was on none at some time of the read, unless the calls could not be
\* read, its row was missing, or its call names it in another field.
PresenceTrue ==
    \A d \in Devices :
        /\ display[d] \in {"online_busy", "calling"} => d \in wasBusy
        /\ display[d] = "online" => d \in wasIdle \cup overlooked

=============================================================================
