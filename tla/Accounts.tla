------------------------------ MODULE Accounts ------------------------------
(***************************************************************************)
(* User accounts: the requests and the management command that create,     *)
(* change and delete users rows, and the Celery tasks that mail passwords. *)
(*                                                                         *)
(* A request is one READ COMMITTED transaction.  It reads the row, decides,*)
(* and saves: most views save the columns they name, UserDetailView saves  *)
(* every column of the row it read.  A save holds the row until the        *)
(* transaction ends.  The mail is queued between the save and the end, so  *)
(* its task can run first.  send_pending_invites has no transaction: each  *)
(* of its saves commits on its own, and the mail is queued afterwards.     *)
(*                                                                         *)
(* A password is named by the request that set it, and so is a row: its    *)
(* primary key is the request that inserted it.  The JSON list of boxes is *)
(* one Boolean column per box, all of them written together.               *)
(***************************************************************************)
CONSTANTS
    People,     \* by normalised e-mail address
    Requests,
    FaxBoxes,
    VoicemailBoxes,
    Seed,       \* the key and the password of the accounts there are at first
    NoRow

Marks == Requests \cup {Seed}

Boxes == FaxBoxes \cup VoicemailBoxes

Secret == {"password", "must_change_password"}
Columns == {"id", "is_first_login", "is_active"} \cup Secret \cup Boxes

IsRow(x) ==
    /\ x \in [Columns -> Marks \cup BOOLEAN]
    /\ x["id"] \in Marks /\ x["password"] \in Marks
    /\ \A c \in Columns \ {"id", "password"} : x[c] \in BOOLEAN

Ops == {"create", "invite", "patch", "delete", "change", "forgot", "reinvite",
        "command", "login", "box"}
Letters == {"none", "spoken", "welcome", "reset"}

IsJob(j) ==
    /\ j = [op |-> j.op, who |-> j.who, seen |-> j.seen, ask |-> j.ask,
            save |-> j.save, letter |-> j.letter]
    /\ j.op \in Ops /\ j.who \in People /\ j.letter \in Letters
    /\ j.seen = NoRow \/ IsRow(j.seen)
    /\ DOMAIN j.ask \subseteq Columns /\ j.ask \in [DOMAIN j.ask -> Marks \cup BOOLEAN]
    /\ j.save \subseteq Columns

ASSUME AccountsAssumption ==
    /\ Seed \notin Requests
    /\ ~IsRow(NoRow)
    /\ Boxes \cap {"id", "is_first_login", "is_active", "password",
                   "must_change_password"} = {}

VARIABLES
    account,    \* account[u]: the committed row of u
    at,         \* at[r]: where request r stands
    job,        \* job[r]: what it read, what it was asked, what it saves
    mail,       \* mail tasks in the queue
    known,      \* known[u]: the passwords u has been told or has chosen
    asked,      \* history: the row if each request had changed only what it was asked
    lapped,     \* history: users whose row a full save put back to an older one
    crossed,    \* history: users whose boxes two requests rewrote at once
    waived,     \* history: users an admin freed of changing their password
    unheard     \* history: users whose mail failed, ran too early or was never queued

askedVars == <<asked, lapped, crossed, waived, unheard>>
accountVars == <<account, at, job, mail, known, askedVars>>

AccountTypeOK ==
    /\ \A x \in {account, asked} :
           /\ DOMAIN x = People
           /\ \A u \in People : x[u] = NoRow \/ IsRow(x[u])
    /\ at \in [Requests -> {"new", "read", "held", "saved", "done"}]
    /\ DOMAIN job = Requests
    /\ \A r \in Requests : IF at[r] = "new" THEN job[r] = NoRow ELSE IsJob(job[r])
    /\ mail \subseteq [who : People, id : Marks, password : Marks, kind : Letters]
    /\ known \in [People -> SUBSET Marks]
    /\ lapped \subseteq People /\ crossed \subseteq People
    /\ waived \subseteq People /\ unheard \subseteq People

Blank(r) ==
    [c \in Columns |-> CASE c \in {"id", "password"} -> r
                         [] c \in Boxes -> FALSE
                         [] OTHER -> TRUE]

AccountInit ==
    /\ account \in [People -> {Blank(Seed), NoRow}]
    /\ asked = account
    /\ at = [r \in Requests |-> "new"]
    /\ job = [r \in Requests |-> NoRow]
    /\ mail = {}
    /\ known = [u \in People |-> {Seed}]
    /\ lapped = {} /\ crossed = {} /\ waived = {} /\ unheard = {}

-----------------------------------------------------------------------------
(* What each request reads and decides.                                    *)

Overlay(x, y) == [c \in Columns |-> IF c \in DOMAIN y THEN y[c] ELSE x[c]]

Take(r, u, op, ask, save, letter) ==
    /\ at[r] = "new"
    /\ at' = [at EXCEPT ![r] = "read"]
    /\ job' = [job EXCEPT ![r] =
           [op |-> op, who |-> u, seen |-> account[u], ask |-> ask,
            save |-> save, letter |-> letter]]
    /\ UNCHANGED <<account, mail, known, askedVars>>

Exists(u) == account[u] # NoRow
Active(u) == Exists(u) /\ account[u]["is_active"]
SignedIn(u) == Active(u) /\ account[u]["password"] \in known[u]

NewSecret(r, must) == [c \in Secret |-> IF c = "password" THEN r ELSE must]

Login(r, u) ==
    /\ SignedIn(u)
    /\ Take(r, u, "login", [c \in {"is_first_login"} |-> FALSE], {"is_first_login"}, "none")

\* Mutants: a save() without update_fields, and an update_fields that leaves the flag out.
ForgotPasswordSavesRow(r, u) ==
    Active(u) /\ Take(r, u, "forgot", NewSecret(r, TRUE), Columns, "reset")

ForgotPasswordLeavesFlag(r, u) ==
    Active(u) /\ Take(r, u, "forgot", NewSecret(r, TRUE), {"password"}, "reset")

ChangePassword(r, u) ==
    /\ SignedIn(u)
    /\ Take(r, u, "change", NewSecret(r, FALSE), Secret, "none")

ForgotPassword(r, u) ==
    /\ Active(u)
    /\ Take(r, u, "forgot", NewSecret(r, TRUE), Secret, "reset")

Reinvite(r, u) ==
    /\ Active(u) /\ account[u]["is_first_login"]
    /\ Take(r, u, "reinvite", NewSecret(r, TRUE), Secret, "welcome")

\* send_pending_invites reads all pending users first; each is then a job of its own.
ListPending(r, u) ==
    /\ Active(u) /\ account[u]["is_first_login"]
    /\ Take(r, u, "command", NewSecret(r, TRUE), Secret, "welcome")

\* POST users/ takes a password and may waive its change, POST users/invite/ makes one up.
CreateUser(r, u) ==
    /\ ~Exists(u)
    /\ \E must \in BOOLEAN :
           Take(r, u, "create", [Blank(r) EXCEPT !["must_change_password"] = must],
                Columns, "welcome")

InviteUser(r, u) ==
    /\ ~Exists(u)
    /\ Take(r, u, "invite", Blank(r), Columns, "welcome")

\* Mutant: a generated password is mailed only if "notify" was sent too.
PatchesUnnotified(r) == {<<NewSecret(r, TRUE), "none">>}

\* What an update may ask for, and the letter it sends.
Patches(r) ==
    {<<[c \in {} |-> TRUE], "none">>,
     <<NewSecret(r, TRUE), "welcome">>,
     <<[c \in {"must_change_password"} |-> FALSE], "none">>,
     <<[c \in FaxBoxes |-> FALSE], "none">>}
    \cup {<<[c \in {"is_active"} |-> b], "none">> : b \in BOOLEAN}
    \cup {<<[c \in {"password"} |-> r], l>> : l \in {"spoken", "welcome"}}

PatchUser(r, u) ==
    /\ Exists(u)
    /\ \E p \in Patches(r) : Take(r, u, "patch", p[1], Columns, p[2])

DeleteUser(r, u) ==
    /\ Exists(u)
    /\ Take(r, u, "delete", [c \in {} |-> TRUE], {}, "none")

FaxBox(r, u) ==
    /\ Exists(u)
    /\ \E b \in FaxBoxes, has \in BOOLEAN :
           Take(r, u, "box", [c \in {b} |-> has], FaxBoxes, "none")

VoicemailBox(r, u) ==
    /\ Exists(u)
    /\ \E b \in VoicemailBoxes, has \in BOOLEAN :
           Take(r, u, "box", [c \in {b} |-> has], VoicemailBoxes, "none")

-----------------------------------------------------------------------------
(* The save, the mail and the end of the transaction.                      *)

Open(u) == \A q \in Requests : at[q] = "held" => job[q].who # u

\* The row a save finds: the one it read, or for an insert none at all.
Inserts(r) ==
    \/ job[r].op \in {"create", "invite"}
    \/ job[r].op = "patch" /\ account[job[r].who] = NoRow

Finds(r) ==
    IF Inserts(r) THEN account[job[r].who] = NoRow
    ELSE /\ account[job[r].who] # NoRow
         /\ account[job[r].who]["id"] = job[r].seen["id"]

Posted(r) ==
    {[who |-> job[r].who,
      id |-> IF job[r].op \in {"create", "invite"} THEN r ELSE job[r].seen["id"],
      password |-> r, kind |-> k] : k \in {job[r].letter} \ {"none", "spoken"}}

\* The columns a save writes, from the row it read and what it was asked.
Written(r) ==
    [c \in job[r].save |-> IF c \in DOMAIN job[r].ask THEN job[r].ask[c] ELSE job[r].seen[c]]

SavedRow(r) ==
    CASE job[r].op = "delete" -> NoRow
      [] Inserts(r) -> Written(r)
      [] OTHER -> Overlay(account[job[r].who], Written(r))

AskedRow(r) ==
    LET was == asked[job[r].who] IN
    CASE job[r].op = "delete" -> NoRow
      [] job[r].op \in {"create", "invite"} -> job[r].ask
      [] OTHER -> IF was = NoRow THEN NoRow ELSE Overlay(was, job[r].ask)

ForgivesChange(r) ==
    "must_change_password" \in DOMAIN job[r].ask /\ ~job[r].ask["must_change_password"]

Store(r) ==
    LET u == job[r].who IN
    /\ account' = [account EXCEPT ![u] = SavedRow(r)]
    /\ asked' = [asked EXCEPT ![u] = AskedRow(r)]
    /\ lapped' = IF job[r].op = "patch" /\ job[r].seen # account[u]
                 THEN lapped \cup {u} ELSE lapped
    /\ crossed' = IF /\ job[r].op = "box"
                     /\ \E b \in job[r].save : job[r].seen[b] # account[u][b]
                  THEN crossed \cup {u} ELSE crossed
    /\ waived' = IF job[r].op = "patch" /\ ForgivesChange(r)
                 THEN waived \cup {u} ELSE waived
    /\ known' = IF job[r].op = "change" \/ job[r].letter = "spoken"
                THEN [known EXCEPT ![u] = @ \cup {r}] ELSE known

Save(r) ==
    /\ at[r] = "read" /\ job[r].op # "command"
    /\ Open(job[r].who) /\ Finds(r)
    /\ at' = [at EXCEPT ![r] = "held"]
    /\ mail' = mail \cup Posted(r)
    /\ UNCHANGED <<account, job, known, askedVars>>

\* Saving named columns of a row that is gone raises, and so does a second insert.
Conflict(r) ==
    /\ at[r] = "read" /\ Open(job[r].who) /\ ~Finds(r)
    /\ at' = [at EXCEPT ![r] = "done"]
    /\ UNCHANGED <<account, job, mail, known, askedVars>>

Commit(r) ==
    /\ at[r] = "held"
    /\ at' = [at EXCEPT ![r] = "done"]
    /\ Store(r)
    /\ UNCHANGED <<job, mail, unheard>>

Rollback(r) ==
    /\ at[r] = "held"
    /\ at' = [at EXCEPT ![r] = "done"]
    /\ UNCHANGED <<account, job, mail, known, askedVars>>

CommandSave(r) ==
    /\ at[r] = "read" /\ job[r].op = "command"
    /\ Open(job[r].who) /\ Finds(r)
    /\ at' = [at EXCEPT ![r] = "saved"]
    /\ Store(r)
    /\ UNCHANGED <<job, mail, unheard>>

CommandMail(r) ==
    /\ at[r] = "saved"
    /\ at' = [at EXCEPT ![r] = "done"]
    /\ mail' = mail \cup Posted(r)
    /\ UNCHANGED <<account, job, known, askedVars>>

CommandStops(r) ==
    /\ at[r] = "saved"
    /\ at' = [at EXCEPT ![r] = "done"]
    /\ unheard' = unheard \cup {job[r].who}
    /\ UNCHANGED <<account, job, mail, known, asked, lapped, crossed, waived>>

-----------------------------------------------------------------------------
(* The mail tasks.  None is retried.                                       *)

\* The welcome mail inserts a download token first, which refers to the users row.
Referred(m) ==
    account[m.who] # NoRow /\ account[m.who]["id"] = m.id

Arrives(m) ==
    /\ mail' = mail \ {m}
    /\ known' = [known EXCEPT ![m.who] = @ \cup {m.password}]
    /\ UNCHANGED <<account, at, job, askedVars>>

WelcomeArrives(m) == m.kind = "welcome" /\ Referred(m) /\ Arrives(m)

ResetArrives(m) == m.kind = "reset" /\ Arrives(m)

MailFails(m) ==
    /\ mail' = mail \ {m}
    /\ unheard' = unheard \cup {m.who}
    /\ UNCHANGED <<account, at, job, known, asked, lapped, crossed, waived>>

Begin(r, u) ==
    \/ Login(r, u) \/ ChangePassword(r, u) \/ ForgotPassword(r, u)
    \/ Reinvite(r, u) \/ ListPending(r, u)
    \/ CreateUser(r, u) \/ InviteUser(r, u)
    \/ PatchUser(r, u) \/ DeleteUser(r, u)
    \/ FaxBox(r, u) \/ VoicemailBox(r, u)

AccountNext ==
    \/ \E r \in Requests :
           \/ \E u \in People : Begin(r, u)
           \/ Save(r) \/ Conflict(r) \/ Commit(r) \/ Rollback(r)
           \/ CommandSave(r) \/ CommandMail(r) \/ CommandStops(r)
    \/ \E m \in mail : WelcomeArrives(m) \/ ResetArrives(m) \/ MailFails(m)

AccountSpec == AccountInit /\ [][AccountNext]_accountVars

-----------------------------------------------------------------------------
(* Properties.                                                             *)

\* A change that was answered stays: whether the account exists, its password, its
\* two flags, its deactivation and its boxes are what the committed requests asked for,
\* unless an update saved over a row that had changed since it read it
\* (UserUpsertSerializer.update saves all columns, and inserts what was deleted) or,
\* of the boxes, another assignment came between the read and the save of one.
AccountAsAsked ==
    \A u \in People \ lapped :
        /\ account[u] = NoRow <=> asked[u] = NoRow
        /\ account[u] # NoRow =>
               \A c \in IF u \in crossed THEN Columns \ Boxes ELSE Columns :
                   account[u][c] = asked[u][c]

\* The owner of an account can get in: its password is one the owner was told or
\* chose, or one on its way in the mail queue or in the command that has just saved
\* it, unless a mail failed, ran before its account was committed, or was not queued.
NoLockout ==
    \A u \in People \ unheard :
        account[u] # NoRow =>
            \/ account[u]["password"] \in known[u]
            \/ \E m \in mail : m.who = u /\ m.password = account[u]["password"]
            \/ \E r \in Requests :
                   at[r] = "saved" /\ job[r].who = u /\ r = account[u]["password"]

Temporary(r) ==
    /\ at[r] # "new"
    /\ \/ job[r].op \in {"forgot", "reinvite", "command", "invite"}
       \/ job[r].op = "patch" /\ "must_change_password" \in DOMAIN job[r].ask

\* A password that was made up and mailed has to be changed: even an update that
\* puts back an older row puts both columns back, so that a temporary password
\* never comes without its must_change_password, unless an admin waived it.
TemporaryMustChange ==
    \A u \in People \ waived :
        account[u] # NoRow =>
            \A r \in Requests :
                (account[u]["password"] = r /\ Temporary(r)) =>
                    account[u]["must_change_password"]

=============================================================================
