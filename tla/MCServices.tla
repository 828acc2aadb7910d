----------------------------- MODULE MCServices -----------------------------
(* Small instances for TLC of the services that keep to themselves: their    *)
(* accounts, QR logins, installer links, fax triage, listings, labels,       *)
(* dashboard, contacts, message reports, tenants with their lines, and live  *)
(* pages.                                                                    *)
(*                                                                           *)
(* Each keeps its state in tables of its own and no step of one reads a      *)
(* table of another, so that each is explored by itself: focus, chosen at    *)
(* the start, is the one that moves, and the others stay as they are.        *)
EXTENDS Accounts, QRLogin, Downloads, FaxTriage, Listings, Labels, Dashboard,
        Contacts, MessageStatus, Provisioning, Presence, TLC

VARIABLE focus

allVars == <<focus, accountVars, qrVars, downloadVars, faxVars, listVars, labelVars,
             dashVars, contactVars, statusVars, provisionVars, presenceVars>>

\* A component that does not move starts in one of its initial states only.
Still(x, its) == focus # x => its

SomeViewer == [role |-> "superuser", own |-> NoNumber, grants |-> {}]

Init ==
    /\ focus \in {"accounts", "qr", "downloads", "fax", "listings", "labels", "dashboard",
                  "contacts", "statuses", "provisioning", "presence"}
    /\ AccountInit /\ QRInit /\ DownloadInit /\ FaxInit /\ ListInit /\ LabelsInit
    /\ ContactInit /\ StatusInit /\ ProvisionInit /\ PresenceInit
    /\ Still("provisioning", \A u \in Tenants : tenant[u] = NoTenant)
    /\ Still("accounts", \A u \in People : account[u] = NoRow)
    /\ DashInit
    /\ Still("dashboard", wanted = Everyone /\ viewer = SomeViewer)

Idling(x, vs) == focus # x => UNCHANGED vs

Next ==
    /\ UNCHANGED focus
    /\ Idling("accounts", accountVars) /\ Idling("qr", qrVars)
    /\ Idling("downloads", downloadVars) /\ Idling("fax", faxVars)
    /\ Idling("listings", listVars) /\ Idling("labels", labelVars)
    /\ Idling("dashboard", dashVars) /\ Idling("contacts", contactVars)
    /\ Idling("statuses", statusVars) /\ Idling("provisioning", provisionVars)
    /\ Idling("presence", presenceVars)
    /\ \/ focus = "accounts" /\ AccountNext
       \/ focus = "qr" /\ QRNext
       \/ focus = "downloads" /\ DownloadNext
       \/ focus = "fax" /\ FaxNext
       \/ focus = "listings" /\ ListNext
       \/ focus = "labels" /\ LabelsNext
       \/ focus = "dashboard" /\ DashNext
       \/ focus = "contacts" /\ ContactNext
       \/ focus = "statuses" /\ StatusNext
       \/ focus = "provisioning" /\ ProvisionNext
       \/ focus = "presence" /\ PresenceNext

Spec == Init /\ [][Next]_allVars

Symmetry == Permutations(Requests) \cup Permutations(Tenants)

=============================================================================
