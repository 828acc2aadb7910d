--------------------------- MODULE AccountsProofs ---------------------------
(***************************************************************************)
(* An account is what its admin and its owner asked for and nobody is      *)
(* locked out of it, for any number of people and of overlapping requests. *)
(*                                                                         *)
(* A request saves the row it read, or columns of it, and with a row comes *)
(* the password. The invariant therefore speaks of the row of an account   *)
(* and of every row that a request has read and may still put back: that   *)
(* the password in it was heard by the owner, or its letter was lost, and  *)
(* that one that was made up comes with the mark that it must be changed.  *)
(* What was heard stays heard. Of a request at work it says what it has    *)
(* read, what it was asked and what it will save; of an account, that its  *)
(* columns are those of the last request to set them, unless a named race  *)
(* put back older ones.                                                    *)
(***************************************************************************)
EXTENDS Accounts, TLAPS

RowFits(x) ==
    /\ x \in [Columns -> Marks \cup BOOLEAN]
    /\ \A c \in Columns : IF c \in {"id", "password"} THEN x[c] \in Marks ELSE x[c] \in BOOLEAN

AskFits(ask) ==
    /\ DOMAIN ask \subseteq Columns
    /\ \A c \in DOMAIN ask : IF c \in {"id", "password"} THEN ask[c] \in Marks ELSE ask[c] \in BOOLEAN

Naming == {"login", "change", "forgot", "reinvite", "command"}

\* What is asked of the password and of the flag that it must be changed: a password that is
\* made up comes with the flag and a letter, and a flag alone is waived.
AskedSecret(r, op, ask, letter) ==
    /\ "password" \in DOMAIN ask =>
           ask["password"] = r /\ (op = "change" \/ letter \in {"spoken", "welcome", "reset"})
    /\ op \in {"forgot", "reinvite", "command", "invite"} =>
           Secret \subseteq DOMAIN ask /\ ask["must_change_password"] = TRUE
    /\ op = "change" => Secret \subseteq DOMAIN ask
    /\ op = "patch" /\ "must_change_password" \in DOMAIN ask =>
           ask["must_change_password"] = IF "password" \in DOMAIN ask THEN TRUE ELSE FALSE
    /\ op \in {"login", "box", "delete"} => Secret \cap DOMAIN ask = {}
    /\ op \in {"create", "invite", "command"} => letter = "welcome"

\* Which columns are saved.
SavedColumns(op, ask, save) ==
    /\ save \subseteq Columns
    /\ op \in {"create", "invite"} => DOMAIN ask = Columns
    /\ op \in {"create", "invite", "patch"} => save = Columns
    /\ op \in Naming => save = DOMAIN ask
    /\ op = "box" => save \subseteq Boxes /\ DOMAIN ask \subseteq save

JobOK(r) ==
    LET j == job[r] IN
    /\ IsJob(j)
    /\ AskFits(j.ask)
    /\ AskedSecret(r, j.op, j.ask, j.letter)
    /\ SavedColumns(j.op, j.ask, j.save)
    /\ j.op \notin {"create", "invite"} => j.seen # NoRow

\* A request that holds a row is alone in that, and the row is still there with the key it
\* was read with, or not there yet if the request inserts it.
HoldsRow(r) ==
    /\ Finds(r) /\ job[r].op # "command"
    /\ \A q \in Requests : at[q] = "held" /\ job[q].who = job[r].who => q = r

AsAsked(u) ==
    u \notin lapped =>
        /\ account[u] = NoRow <=> asked[u] = NoRow
        /\ account[u] # NoRow =>
               \A c \in IF u \in crossed THEN Columns \ Boxes ELSE Columns :
                   account[u][c] = asked[u][c]

\* The owner has been told the password or will be, unless a mail was lost.
Heard(u, p) ==
    \/ u \in unheard
    \/ p \in known[u]
    \/ \E m \in mail : m.who = u /\ m.password = p
    \/ \E r \in Requests : at[r] = "saved" /\ job[r].who = u /\ r = p

\* A password that was made up is in the row together with its flag.
Paired(u, row) ==
    u \notin waived =>
        \A r \in Requests : row["password"] = r =>
            at[r] # "new" /\ (Temporary(r) => row["must_change_password"] = TRUE)

\* The row of u and those that a request has read and may put back.
Rows(u) ==
    {account[u]} \cup {job[r].seen : r \in {q \in Requests : at[q] # "new" /\ job[q].who = u}}

RowOK(u, row) == row # NoRow => Heard(u, row["password"]) /\ Paired(u, row)

AccountInv ==
    /\ AccountTypeOK
    /\ \A r \in Requests : at[r] # "new" => JobOK(r)
    /\ \A r \in Requests : at[r] = "held" => HoldsRow(r)
    /\ \A r \in Requests, u \in People :
           at[r] = "held" /\ job[r].who = u /\ job[r].letter \in {"welcome", "reset"} => Heard(u, r)
    /\ \A r \in Requests : at[r] = "saved" => job[r].op = "command"
    /\ \A u \in People : AsAsked(u)
    /\ \A u \in People : \A row \in Rows(u) : RowOK(u, row)

-----------------------------------------------------------------------------

LEMMA RowIsFit == \A x : IsRow(x) <=> RowFits(x)
  <1> SUFFICES ASSUME NEW x
               PROVE  IsRow(x) <=> RowFits(x)
    OBVIOUS
  <1>1. {"id", "password"} \subseteq Columns
    BY DEF Columns, Secret
  <1> QED BY <1>1 DEF IsRow, RowFits

LEMMA BlankIsRow ==
  ASSUME NEW r \in Marks
  PROVE  /\ IsRow(Blank(r)) /\ Blank(r)["password"] = r
         /\ Blank(r)["must_change_password"] = TRUE /\ DOMAIN Blank(r) = Columns
  <1>1. /\ DOMAIN Blank(r) = Columns
        /\ \A c \in Columns : Blank(r)[c] = IF c \in {"id", "password"} THEN r
                                          ELSE IF c \in Boxes THEN FALSE ELSE TRUE
    BY AccountsAssumption DEF Blank
  <1>2. Blank(r) \in [Columns -> Marks \cup BOOLEAN]
    BY DEF Blank
  <1>3. \A c \in Columns : IF c \in {"id", "password"} THEN Blank(r)[c] \in Marks
                          ELSE Blank(r)[c] \in BOOLEAN
    BY <1>1
  <1>4. RowFits(Blank(r))
    BY <1>2, <1>3 DEF RowFits
  <1>5. "password" \in Columns /\ "must_change_password" \in Columns
        /\ "must_change_password" \notin Boxes
    BY AccountsAssumption DEF Columns, Secret
  <1> QED BY <1>1, <1>4, <1>5, RowIsFit

\* A row put together from columns of others.
LEMMA PatchedRow ==
  ASSUME NEW ask, AskFits(ask), NEW seen, NEW save \in SUBSET Columns, NEW old,
         RowFits(seen) \/ save \subseteq DOMAIN ask,
         RowFits(old) \/ save = Columns \/ DOMAIN ask = Columns,
         NEW x, DOMAIN x = Columns, x = [c \in Columns |-> x[c]],
         \A c \in Columns : x[c] = IF c \in DOMAIN ask THEN ask[c]
                                   ELSE IF c \in save THEN seen[c] ELSE old[c]
  PROVE  IsRow(x)
  <1>1. ASSUME NEW c \in Columns
        PROVE  IF c \in {"id", "password"} THEN x[c] \in Marks ELSE x[c] \in BOOLEAN
    BY DEF AskFits, RowFits
  <1>2. x \in [Columns -> Marks \cup BOOLEAN]
    BY <1>1
  <1> QED BY <1>1, <1>2, RowIsFit DEF RowFits

LEMMA AccountInitially == AccountInit => AccountInv
  <1> SUFFICES ASSUME AccountInit
               PROVE  AccountInv
    OBVIOUS
  <1>1. Seed \in Marks /\ Seed \notin Requests
    BY AccountsAssumption DEF Marks
  <1>2. IsRow(Blank(Seed)) /\ Blank(Seed)["password"] = Seed
    BY <1>1, BlankIsRow
  <1>3. \A u \in People : account[u] = Blank(Seed) \/ account[u] = NoRow
    BY DEF AccountInit
  <1>4. AccountTypeOK
    BY <1>1, <1>2, <1>3 DEF AccountInit, AccountTypeOK
  <1>5. \A u \in People : AsAsked(u) /\ Rows(u) = {account[u]}
    BY DEF AccountInit, AsAsked, Rows
  <1>6. \A u \in People : RowOK(u, Blank(Seed)) /\ RowOK(u, NoRow)
    BY <1>1, <1>2, <1>3 DEF AccountInit, RowOK, Heard, Paired
  <1> QED BY <1>3, <1>4, <1>5, <1>6 DEF AccountInit, AccountInv

\* What is heard stays heard, and a password is given by a request that has begun.
LEMMA StaysHeard ==
  ASSUME AccountInv,
         unheard \subseteq unheard',
         \A u \in People : known[u] \subseteq known'[u],
         \A m \in mail : m \in mail' \/ m.password \in known'[m.who] \/ m.who \in unheard',
         \A r \in Requests : at[r] = "saved" =>
             /\ job'[r].who = job[r].who
             /\ at'[r] = "saved" \/ Heard(job[r].who, r)',
         NEW u \in People, NEW p, Heard(u, p)
  PROVE  Heard(u, p)'
  BY DEF Heard

LEMMA StaysPaired ==
  ASSUME waived \subseteq waived',
         \A r \in Requests : at[r] # "new" => at'[r] # "new" /\ job'[r] = job[r],
         NEW u, NEW row, Paired(u, row)
  PROVE  Paired(u, row)'
  BY DEF Paired, Temporary

LEMMA TakeStep ==
  ASSUME AccountInv, NEW r \in Requests, NEW u \in People, NEW op \in Ops, NEW ask,
         NEW save, NEW letter \in Letters, Take(r, u, op, ask, save, letter),
         AskFits(ask), AskedSecret(r, op, ask, letter), SavedColumns(op, ask, save),
         ask = [c \in DOMAIN ask |-> ask[c]],
         op \notin {"create", "invite"} => Exists(u)
  PROVE  AccountInv'
  <1>1. /\ at[r] = "new" /\ at' = [at EXCEPT ![r] = "read"]
        /\ job' = [job EXCEPT ![r] =
               [op |-> op, who |-> u, seen |-> account[u], ask |-> ask,
                save |-> save, letter |-> letter]]
        /\ UNCHANGED <<account, mail, known, askedVars>>
    BY DEF Take
  <1>2. UNCHANGED <<account, mail, known, asked, lapped, crossed, waived, unheard>>
    BY <1>1 DEF askedVars
  <1>3. /\ \A q \in Requests : q # r => at'[q] = at[q] /\ job'[q] = job[q]
        /\ at'[r] = "read"
        /\ job'[r] = [op |-> op, who |-> u, seen |-> account[u], ask |-> ask,
                      save |-> save, letter |-> letter]
        /\ at' \in [Requests -> {"new", "read", "held", "saved", "done"}]
        /\ DOMAIN job' = Requests
    BY <1>1 DEF AccountInv, AccountTypeOK
  <1>4. IsJob(job'[r])
    <2>1. account[u] = NoRow \/ IsRow(account[u])
      BY DEF AccountInv, AccountTypeOK
    <2>2. ask \in [DOMAIN ask -> Marks \cup BOOLEAN]
      BY DEF AskFits
    <2> QED BY <1>3, <2>1, <2>2 DEF IsJob, AskFits, SavedColumns
  <1>5. AccountTypeOK'
    BY <1>2, <1>3, <1>4 DEF AccountInv, AccountTypeOK
  <1>6. JobOK(r)'
    BY <1>3, <1>4 DEF JobOK, Exists
  <1>7. ASSUME NEW w \in People, NEW p, Heard(w, p)
        PROVE  Heard(w, p)'
    BY <1>1, <1>2, <1>3, <1>7, StaysHeard
  <1>8. ASSUME NEW w, NEW row, Paired(w, row)
        PROVE  Paired(w, row)'
    BY <1>1, <1>2, <1>3, <1>8, StaysPaired
  <1>9. ASSUME NEW w \in People, NEW row, RowOK(w, row)
        PROVE  RowOK(w, row)'
    BY <1>7, <1>8, <1>9 DEF RowOK
  <1>10. ASSUME NEW q \in Requests, at'[q] = "held"
         PROVE  HoldsRow(q)'
    <2>1. q # r /\ at[q] = "held" /\ HoldsRow(q)
      BY <1>3, <1>10 DEF AccountInv
    <2> QED BY <1>2, <1>3, <2>1 DEF HoldsRow, Finds, Inserts
  <1>11. ASSUME NEW w \in People, NEW row \in Rows(w)'
         PROVE  RowOK(w, row)'
    <2>1. row \in Rows(w)
      BY <1>2, <1>3 DEF Rows
    <2> QED BY <1>9, <2>1 DEF AccountInv
  <1>12. ASSUME NEW q \in Requests, at'[q] # "new"
         PROVE  JobOK(q)'
    <2>1. q # r => JobOK(q)
      BY <1>3, <1>12 DEF AccountInv
    <2> QED BY <1>3, <1>6, <2>1 DEF JobOK
  <1>13. ASSUME NEW q \in Requests, NEW w \in People,
                at'[q] = "held", job'[q].who = w, job'[q].letter \in {"welcome", "reset"}
         PROVE  Heard(w, q)'
    <2>1. q # r /\ job'[q] = job[q] /\ at[q] = "held"
      BY <1>3, <1>13
    <2> QED BY <1>7, <1>13, <2>1 DEF AccountInv
  <1>14. \A q \in Requests : at'[q] = "saved" => job'[q].op = "command"
    BY <1>3 DEF AccountInv
  <1>15. \A w \in People : AsAsked(w)'
    BY <1>2 DEF AccountInv, AsAsked
  <1> QED BY <1>5, <1>10, <1>11, <1>12, <1>13, <1>14, <1>15 DEF AccountInv

LEMMA NewSecretIsFit ==
  ASSUME NEW r \in Requests, NEW must \in BOOLEAN
  PROVE  /\ DOMAIN NewSecret(r, must) = {"password", "must_change_password"}
         /\ NewSecret(r, must)["password"] = r
         /\ NewSecret(r, must)["must_change_password"] = must
         /\ NewSecret(r, must) = [c \in DOMAIN NewSecret(r, must) |-> NewSecret(r, must)[c]]
         /\ AskFits(NewSecret(r, must))
  <1>1. /\ DOMAIN NewSecret(r, must) = {"password", "must_change_password"}
        /\ NewSecret(r, must)["password"] = r
        /\ NewSecret(r, must)["must_change_password"] = must
        /\ NewSecret(r, must) = [c \in DOMAIN NewSecret(r, must) |-> NewSecret(r, must)[c]]
    BY DEF NewSecret, Secret
  <1>2. AskFits(NewSecret(r, must))
    BY <1>1 DEF AskFits, Columns, Secret, Marks
  <1> QED BY <1>1, <1>2

\* Requests that set a password and say so.
LEMMA TakeSecretStep ==
  ASSUME AccountInv, NEW r \in Requests, NEW u \in People,
         NEW op \in {"change", "forgot", "reinvite", "command"}, NEW letter \in Letters,
         NEW must \in BOOLEAN, Exists(u),
         op = "change" \/ (must = TRUE /\ letter \in {"welcome", "reset"}),
         op = "command" => letter = "welcome",
         Take(r, u, op, NewSecret(r, must), Secret, letter)
  PROVE  AccountInv'
  <1>1. PICK ask : ask = NewSecret(r, must)
    OBVIOUS
  <1>2. /\ DOMAIN ask = {"password", "must_change_password"}
        /\ ask["password"] = r /\ ask["must_change_password"] = must
        /\ ask = [c \in DOMAIN ask |-> ask[c]] /\ AskFits(ask)
    BY <1>1, NewSecretIsFit
  <1>3. AskedSecret(r, op, ask, letter)
    BY <1>2 DEF AskedSecret, Secret
  <1>4. SavedColumns(op, ask, Secret)
    BY <1>2 DEF SavedColumns, Naming, Columns, Secret
  <1>5. Take(r, u, op, ask, Secret, letter) /\ op \in Ops
    BY <1>1 DEF Ops
  <1> QED BY <1>2, <1>3, <1>4, <1>5, TakeStep

LEMMA PatchUserStep ==
  ASSUME AccountInv, NEW r \in Requests, NEW u \in People, PatchUser(r, u)
  PROVE  AccountInv'
  <1>1. PICK p \in Patches(r) : Take(r, u, "patch", p[1], Columns, p[2])
    BY DEF PatchUser
  <1>2. PICK ask, letter : ask = p[1] /\ letter = p[2]
    OBVIOUS
  <1>3. /\ AskFits(ask) /\ letter \in Letters /\ AskedSecret(r, "patch", ask, letter)
        /\ ask = [c \in DOMAIN ask |-> ask[c]]
    <2>1. CASE p = <<[c \in {} |-> TRUE], "none">>
      BY <1>2, <2>1 DEF AskFits, Letters, AskedSecret
    <2>2. CASE p = <<NewSecret(r, TRUE), "welcome">>
      BY <1>2, <2>2, NewSecretIsFit DEF Letters, AskedSecret
    <2>3. CASE p = <<[c \in {"must_change_password"} |-> FALSE], "none">>
      <3>1. /\ DOMAIN ask = {"must_change_password"} /\ ask["must_change_password"] = FALSE
            /\ ask = [c \in DOMAIN ask |-> ask[c]] /\ letter = "none"
        BY <1>2, <2>3
      <3>2. "must_change_password" \in Columns
        BY DEF Columns, Secret
      <3>3. AskFits(ask)
        BY <3>1, <3>2 DEF AskFits
      <3>4. AskedSecret(r, "patch", ask, letter)
        <4>1. "password" \notin DOMAIN ask /\ ask["must_change_password"] = FALSE
          BY <3>1
        <4> QED BY <4>1 DEF AskedSecret
      <3> QED BY <3>1, <3>3, <3>4 DEF Letters
    <2>4. CASE p = <<[c \in FaxBoxes |-> FALSE], "none">>
      <3>1. /\ DOMAIN ask = FaxBoxes /\ \A c \in FaxBoxes : ask[c] = FALSE
            /\ ask = [c \in DOMAIN ask |-> ask[c]] /\ letter = "none"
        BY <1>2, <2>4
      <3>2. FaxBoxes \subseteq Columns /\ "password" \notin FaxBoxes /\ "id" \notin FaxBoxes
            /\ "must_change_password" \notin FaxBoxes
        BY AccountsAssumption DEF Columns, Boxes
      <3> QED BY <3>1, <3>2 DEF AskFits, Letters, AskedSecret
    <2>5. ASSUME NEW b \in BOOLEAN, p = <<[c \in {"is_active"} |-> b], "none">>
          PROVE  /\ AskFits(ask) /\ letter \in Letters /\ AskedSecret(r, "patch", ask, letter)
                 /\ ask = [c \in DOMAIN ask |-> ask[c]]
      BY <1>2, <2>5 DEF AskFits, Letters, AskedSecret, Columns
    <2>6. ASSUME NEW l \in {"spoken", "welcome"}, p = <<[c \in {"password"} |-> r], l>>
          PROVE  /\ AskFits(ask) /\ letter \in Letters /\ AskedSecret(r, "patch", ask, letter)
                 /\ ask = [c \in DOMAIN ask |-> ask[c]]
      BY <1>2, <2>6 DEF AskFits, Letters, AskedSecret, Columns, Secret, Marks
    <2> QED BY <2>1, <2>2, <2>3, <2>4, <2>5, <2>6 DEF Patches
  <1>4. SavedColumns("patch", ask, Columns)
    BY DEF SavedColumns, Naming
  <1>5. Exists(u) /\ "patch" \in Ops
    BY DEF PatchUser, Ops
  <1>6. Take(r, u, "patch", ask, Columns, letter)
    BY <1>1, <1>2
  <1> QED BY <1>3, <1>4, <1>5, <1>6, TakeStep

LEMMA CreateUserStep ==
  ASSUME AccountInv, NEW r \in Requests, NEW u \in People, CreateUser(r, u) \/ InviteUser(r, u)
  PROVE  AccountInv'
  <1>1. PICK must \in BOOLEAN, op \in {"create", "invite"} :
            /\ op = "invite" => must = TRUE
            /\ Take(r, u, op, [Blank(r) EXCEPT !["must_change_password"] = must],
                    Columns, "welcome")
    <2>1. CASE CreateUser(r, u)
      BY <2>1 DEF CreateUser
    <2>2. CASE InviteUser(r, u)
      <3>1. [Blank(r) EXCEPT !["must_change_password"] = TRUE] = Blank(r)
        <4>1. Blank(r)["must_change_password"] = TRUE
          BY BlankIsRow DEF Marks
        <4> QED BY <4>1 DEF Blank
      <3> QED BY <2>2, <3>1 DEF InviteUser
    <2> QED BY <2>1, <2>2
  <1>2. PICK ask : ask = [Blank(r) EXCEPT !["must_change_password"] = must]
    OBVIOUS
  <1>3. /\ IsRow(Blank(r)) /\ Blank(r)["password"] = r
        /\ Blank(r)["must_change_password"] = TRUE /\ DOMAIN Blank(r) = Columns
    BY BlankIsRow DEF Marks
  <1>4. /\ DOMAIN ask = Columns
        /\ \A c \in Columns : ask[c] = IF c = "must_change_password" THEN must ELSE Blank(r)[c]
        /\ ask = [c \in DOMAIN ask |-> ask[c]]
    BY <1>2, <1>3
  <1>5. RowFits(Blank(r))
    BY <1>3, RowIsFit
  <1>6. {"password", "must_change_password"} \subseteq Columns
    BY DEF Columns, Secret
  <1>7. AskFits(ask)
    BY <1>4, <1>5 DEF AskFits, RowFits
  <1>8. AskedSecret(r, op, ask, "welcome")
    BY <1>1, <1>3, <1>4, <1>6 DEF AskedSecret, Secret
  <1>9. SavedColumns(op, ask, Columns)
    BY <1>4 DEF SavedColumns, Naming
  <1>10. Take(r, u, op, ask, Columns, "welcome") /\ op \in Ops /\ "welcome" \in Letters
    BY <1>1, <1>2 DEF Ops, Letters
  <1> QED BY <1>4, <1>7, <1>8, <1>9, <1>10, TakeStep

LEMMA BoxStep ==
  ASSUME AccountInv, NEW r \in Requests, NEW u \in People, FaxBox(r, u) \/ VoicemailBox(r, u)
  PROVE  AccountInv'
  <1>1. PICK save \in {FaxBoxes, VoicemailBoxes}, b \in Boxes, has \in BOOLEAN :
            b \in save /\ Exists(u) /\ Take(r, u, "box", [c \in {b} |-> has], save, "none")
    BY DEF FaxBox, VoicemailBox, Boxes
  <1>2. PICK ask : ask = [c \in {b} |-> has]
    OBVIOUS
  <1>3. DOMAIN ask = {b} /\ ask[b] = has /\ ask = [c \in DOMAIN ask |-> ask[c]]
    BY <1>2
  <1>4. b \in save /\ b \in Columns /\ b \notin {"id", "password", "must_change_password"}
        /\ save \subseteq Columns /\ save \subseteq Boxes
    BY <1>1, AccountsAssumption DEF Boxes, Columns
  <1>5. AskFits(ask)
    BY <1>3, <1>4 DEF AskFits
  <1>6. AskedSecret(r, "box", ask, "none")
    BY <1>3, <1>4 DEF AskedSecret, Secret
  <1>7. SavedColumns("box", ask, save)
    BY <1>3, <1>4 DEF SavedColumns, Naming
  <1>8. Take(r, u, "box", ask, save, "none") /\ "box" \in Ops /\ "none" \in Letters
    BY <1>1, <1>2 DEF Ops, Letters
  <1> QED BY <1>1, <1>3, <1>5, <1>6, <1>7, <1>8, TakeStep

LEMMA BeginStep ==
  ASSUME AccountInv, NEW r \in Requests, NEW u \in People, Begin(r, u)
  PROVE  AccountInv'
  <1>1. CASE Login(r, u)
    <2>1. PICK ask : ask = [c \in {"is_first_login"} |-> FALSE]
      OBVIOUS
    <2>2. DOMAIN ask = {"is_first_login"} /\ ask["is_first_login"] = FALSE
          /\ ask = [c \in DOMAIN ask |-> ask[c]]
      BY <2>1
    <2>3. AskFits(ask) /\ AskedSecret(r, "login", ask, "none")
      BY <2>2 DEF AskFits, AskedSecret, Columns, Secret
    <2>4. SavedColumns("login", ask, {"is_first_login"})
      BY <2>2 DEF SavedColumns, Naming, Columns
    <2>5. /\ Take(r, u, "login", ask, {"is_first_login"}, "none") /\ Exists(u)
          /\ "login" \in Ops /\ "none" \in Letters
      BY <1>1, <2>1 DEF Login, SignedIn, Active, Ops, Letters
    <2> QED BY <2>2, <2>3, <2>4, <2>5, TakeStep
  <1>2. CASE DeleteUser(r, u)
    <2>1. PICK ask : ask = [c \in {} |-> TRUE]
      OBVIOUS
    <2>2. DOMAIN ask = {} /\ ask = [c \in DOMAIN ask |-> ask[c]]
      BY <2>1
    <2>3. AskFits(ask) /\ AskedSecret(r, "delete", ask, "none") /\ SavedColumns("delete", ask, {})
      BY <2>2 DEF AskFits, AskedSecret, SavedColumns, Naming
    <2>4. Take(r, u, "delete", ask, {}, "none") /\ Exists(u) /\ "delete" \in Ops /\ "none" \in Letters
      BY <1>2, <2>1 DEF DeleteUser, Ops, Letters
    <2> QED BY <2>2, <2>3, <2>4, TakeStep
  <1>3. CASE ChangePassword(r, u)
    BY <1>3, TakeSecretStep DEF ChangePassword, SignedIn, Active, Letters
  <1>4. CASE ForgotPassword(r, u)
    BY <1>4, TakeSecretStep DEF ForgotPassword, Active, Letters
  <1>5. CASE Reinvite(r, u)
    BY <1>5, TakeSecretStep DEF Reinvite, Active, Letters
  <1>6. CASE ListPending(r, u)
    BY <1>6, TakeSecretStep DEF ListPending, Active, Letters
  <1> QED BY <1>1, <1>2, <1>3, <1>4, <1>5, <1>6, PatchUserStep, CreateUserStep, BoxStep DEF Begin


-----------------------------------------------------------------------------

\* A save writes what was asked, of the other columns it saves what was read, and leaves
\* the rest of the row.
LEMMA SavedRowIs ==
  ASSUME AccountInv, NEW r \in Requests, at[r] # "new", Finds(r),
         NEW u \in People, u = job[r].who
  PROVE  /\ job[r].op = "delete" => SavedRow(r) = NoRow
         /\ job[r].op # "delete" =>
                /\ IsRow(SavedRow(r))
                /\ \A c \in Columns : SavedRow(r)[c] =
                       IF c \in DOMAIN job[r].ask THEN job[r].ask[c]
                       ELSE IF c \in job[r].save THEN job[r].seen[c] ELSE account[u][c]
  <1>1. PICK ask, save, seen, op : /\ ask = job[r].ask /\ save = job[r].save
                                   /\ seen = job[r].seen /\ op = job[r].op
    OBVIOUS
  <1>2. /\ op \in Ops /\ AskFits(ask) /\ SavedColumns(op, ask, save)
        /\ op \notin {"create", "invite"} => IsRow(seen)
    BY <1>1 DEF AccountInv, JobOK, IsJob
  <1>3. account[u] = NoRow \/ IsRow(account[u])
    BY DEF AccountInv, AccountTypeOK
  <1>4. ASSUME op = "delete"
        PROVE  SavedRow(r) = NoRow
    BY <1>1, <1>4 DEF SavedRow, Inserts
  <1>5. ASSUME op # "delete"
        PROVE  /\ IsRow(SavedRow(r))
               /\ \A c \in Columns : SavedRow(r)[c] =
                      IF c \in DOMAIN ask THEN ask[c]
                      ELSE IF c \in save THEN seen[c] ELSE account[u][c]
    <2>1. save \subseteq Columns /\ DOMAIN ask \subseteq save
      BY <1>2, <1>5 DEF SavedColumns, Ops, Naming, AskFits
    <2>2. /\ DOMAIN Written(r) = save
          /\ \A c \in save : Written(r)[c] = IF c \in DOMAIN ask THEN ask[c] ELSE seen[c]
          /\ Written(r) = [c \in save |-> Written(r)[c]]
      BY <1>1 DEF Written
    <2>3. RowFits(seen) \/ save \subseteq DOMAIN ask
      BY <1>2, RowIsFit DEF SavedColumns
    <2>4. CASE Inserts(r)
      <3>1. save = Columns
        BY <1>1, <1>2, <2>4 DEF Inserts, SavedColumns
      <3>2. SavedRow(r) = Written(r)
        BY <1>1, <1>5, <2>4 DEF SavedRow
      <3>3. /\ DOMAIN SavedRow(r) = Columns /\ SavedRow(r) = [c \in Columns |-> SavedRow(r)[c]]
            /\ \A c \in Columns : SavedRow(r)[c] =
                   IF c \in DOMAIN ask THEN ask[c]
                   ELSE IF c \in save THEN seen[c] ELSE account[u][c]
        BY <2>2, <3>1, <3>2
      <3>4. PICK x : x = SavedRow(r)
        OBVIOUS
      <3>5. PICK old : old = account[u]
        OBVIOUS
      <3>6. IsRow(x)
        BY <1>2, <2>1, <2>3, <3>1, <3>3, <3>4, <3>5, PatchedRow
      <3> QED BY <3>3, <3>4, <3>6
    <2>5. CASE ~Inserts(r)
      <3>1. IsRow(account[u])
        BY <1>3, <2>5 DEF Finds
      <3>2. SavedRow(r) = Overlay(account[u], Written(r))
        BY <1>1, <1>5, <2>5 DEF SavedRow
      <3>3. /\ DOMAIN SavedRow(r) = Columns /\ SavedRow(r) = [c \in Columns |-> SavedRow(r)[c]]
            /\ \A c \in Columns : SavedRow(r)[c] =
                   IF c \in save THEN Written(r)[c] ELSE account[u][c]
        BY <2>2, <3>2 DEF Overlay
      <3>4. \A c \in Columns : SavedRow(r)[c] =
                IF c \in DOMAIN ask THEN ask[c]
                ELSE IF c \in save THEN seen[c] ELSE account[u][c]
        BY <2>1, <2>2, <3>3
      <3>5. PICK x, old : x = SavedRow(r) /\ old = account[u]
        OBVIOUS
      <3>6. RowFits(old)
        BY <3>1, <3>5, RowIsFit
      <3>7. /\ DOMAIN x = Columns /\ x = [c \in Columns |-> x[c]]
            /\ \A c \in Columns : x[c] = IF c \in DOMAIN ask THEN ask[c]
                                      ELSE IF c \in save THEN seen[c] ELSE old[c]
        BY <3>3, <3>4, <3>5
      <3>8. IsRow(x)
        BY <1>2, <2>1, <2>3, <3>6, <3>7, PatchedRow
      <3> QED BY <3>4, <3>5, <3>8
    <2> QED BY <2>4, <2>5
  <1> QED BY <1>1, <1>4, <1>5

LEMMA AskedRowIs ==
  ASSUME AccountInv, NEW r \in Requests, at[r] # "new",
         NEW u \in People, u = job[r].who
  PROVE  /\ AskedRow(r) = NoRow \/ IsRow(AskedRow(r))
         /\ job[r].op = "delete" => AskedRow(r) = NoRow
         /\ job[r].op \in {"create", "invite"} =>
                AskedRow(r) = job[r].ask /\ IsRow(AskedRow(r))
         /\ job[r].op \notin {"delete", "create", "invite"} =>
                /\ asked[u] = NoRow => AskedRow(r) = NoRow
                /\ asked[u] # NoRow =>
                       /\ IsRow(AskedRow(r))
                       /\ \A c \in Columns : AskedRow(r)[c] =
                              IF c \in DOMAIN job[r].ask THEN job[r].ask[c] ELSE asked[u][c]
  <1>1. PICK ask, op : ask = job[r].ask /\ op = job[r].op
    OBVIOUS
  <1>2. /\ op \in Ops /\ AskFits(ask) /\ SavedColumns(op, ask, job[r].save)
        /\ ask \in [DOMAIN ask -> Marks \cup BOOLEAN]
    BY <1>1 DEF AccountInv, JobOK, IsJob
  <1>3. asked[u] = NoRow \/ IsRow(asked[u])
    BY DEF AccountInv, AccountTypeOK
  <1>4. CASE op = "delete"
    BY <1>1, <1>4 DEF AskedRow
  <1>5. CASE op \in {"create", "invite"}
    <2>1. DOMAIN ask = Columns /\ ask = [c \in Columns |-> ask[c]]
      BY <1>2, <1>5 DEF SavedColumns
    <2>2. RowFits(ask)
      BY <1>2, <2>1 DEF AskFits, RowFits
    <2>3. AskedRow(r) = ask
      BY <1>1, <1>5 DEF AskedRow
    <2> QED BY <1>1, <1>5, <2>2, <2>3, RowIsFit
  <1>6. CASE op \notin {"delete", "create", "invite"}
    <2>1. AskedRow(r) = IF asked[u] = NoRow THEN NoRow ELSE Overlay(asked[u], ask)
      BY <1>1, <1>6 DEF AskedRow
    <2>2. CASE asked[u] = NoRow
      BY <1>1, <1>6, <2>1, <2>2
    <2>3. CASE asked[u] # NoRow
      <3>1. /\ DOMAIN AskedRow(r) = Columns /\ AskedRow(r) = [c \in Columns |-> AskedRow(r)[c]]
            /\ \A c \in Columns : AskedRow(r)[c] = IF c \in DOMAIN ask THEN ask[c] ELSE asked[u][c]
        BY <2>1, <2>3 DEF Overlay
      <3>2. PICK x, old : x = AskedRow(r) /\ old = asked[u]
        OBVIOUS
      <3>3. RowFits(old)
        BY <1>3, <2>3, <3>2, RowIsFit
      <3>4. DOMAIN ask \subseteq Columns /\ {} \in SUBSET Columns
        BY <1>2 DEF AskFits
      <3>5. IsRow(x)
        BY <1>2, <3>1, <3>2, <3>3, <3>4, PatchedRow
      <3> QED BY <1>1, <1>6, <2>3, <3>1, <3>2, <3>5
    <2> QED BY <2>2, <2>3
  <1> QED BY <1>4, <1>5, <1>6

LEMMA StoreKeepsAsked ==
  ASSUME AccountInv, NEW r \in Requests, at[r] # "new", Finds(r), Store(r)
  PROVE  \A w \in People : AsAsked(w)'
  <1>1. PICK u \in People : u = job[r].who
    BY DEF AccountInv, JobOK, IsJob
  <1>2. PICK ask, save, seen, op : /\ ask = job[r].ask /\ save = job[r].save
                                   /\ seen = job[r].seen /\ op = job[r].op
    OBVIOUS
  <1>3. PICK new, meant : new = SavedRow(r) /\ meant = AskedRow(r)
    OBVIOUS
  <1>4. /\ account' = [account EXCEPT ![u] = new]
        /\ asked' = [asked EXCEPT ![u] = meant]
        /\ lapped' = IF op = "patch" /\ seen # account[u] THEN lapped \cup {u} ELSE lapped
        /\ crossed' = IF op = "box" /\ \E b \in save : seen[b] # account[u][b]
                     THEN crossed \cup {u} ELSE crossed
    BY <1>1, <1>2, <1>3 DEF Store
  <1>5. \A w \in People : /\ account'[w] = IF w = u THEN new ELSE account[w]
                          /\ asked'[w] = IF w = u THEN meant ELSE asked[w]
    BY <1>4 DEF AccountInv, AccountTypeOK
  <1>6. \A w \in People \ {u} : (w \in lapped' <=> w \in lapped) /\ (w \in crossed' <=> w \in crossed)
    BY <1>4
  <1>7. ASSUME NEW w \in People, w # u
        PROVE  AsAsked(w)'
    BY <1>5, <1>6, <1>7 DEF AccountInv, AsAsked
  <1>8. /\ op = "delete" => new = NoRow /\ meant = NoRow
        /\ op # "delete" => IsRow(new) /\ \A c \in Columns : new[c] =
                IF c \in DOMAIN ask THEN ask[c] ELSE IF c \in save THEN seen[c] ELSE account[u][c]
        /\ op \in {"create", "invite"} => meant = ask /\ IsRow(meant)
    BY <1>1, <1>2, <1>3, SavedRowIs, AskedRowIs
  <1>9. op \notin {"delete", "create", "invite"} =>
            /\ asked[u] = NoRow => meant = NoRow
            /\ asked[u] # NoRow => IsRow(meant) /\ \A c \in Columns : meant[c] =
                   IF c \in DOMAIN ask THEN ask[c] ELSE asked[u][c]
    BY <1>1, <1>2, <1>3, AskedRowIs
  <1>10. op \in Ops /\ SavedColumns(op, ask, save) /\ (op \notin {"create", "invite"} => seen # NoRow)
    BY <1>2 DEF AccountInv, JobOK, IsJob
  <1>11. ASSUME u \notin lapped'
         PROVE  /\ new = NoRow <=> meant = NoRow
                /\ new # NoRow => \A c \in IF u \in crossed' THEN Columns \ Boxes ELSE Columns :
                       new[c] = meant[c]
    <2>1. CASE op = "delete"
      BY <1>8, <2>1
    <2>2. CASE op \in {"create", "invite"}
      <3>1. DOMAIN ask = Columns
        BY <1>10, <2>2 DEF SavedColumns
      <3>2. new # NoRow /\ meant # NoRow
        BY <1>8, <2>2, AccountsAssumption
      <3> QED BY <1>8, <2>2, <3>1, <3>2
    <2>3. CASE op \notin {"delete", "create", "invite"}
      <3>1. u \notin lapped /\ AsAsked(u) /\ (op = "patch" => seen = account[u])
        BY <1>4, <1>11 DEF AccountInv
      <3>2. account[u] # NoRow
        <4>1. CASE Inserts(r)
          \* Then the row that was read is gone, and the update has gone over a newer state.
          <5>1. op = "patch" /\ account[u] = NoRow
            BY <1>1, <1>2, <2>3, <4>1 DEF Inserts
          <5> QED BY <1>10, <3>1, <5>1
        <4>2. CASE ~Inserts(r)
          BY <1>1, <4>2 DEF Finds
        <4> QED BY <4>1, <4>2
      <3>3. asked[u] # NoRow /\ \A c \in IF u \in crossed THEN Columns \ Boxes ELSE Columns :
                account[u][c] = asked[u][c]
        BY <3>1, <3>2 DEF AsAsked
      <3>4. new # NoRow /\ meant # NoRow
        BY <1>8, <1>9, <2>3, <3>3, AccountsAssumption
      <3>5. ASSUME NEW c \in IF u \in crossed' THEN Columns \ Boxes ELSE Columns
            PROVE  c \in DOMAIN ask \/ new[c] = account[u][c]
        <4>1. c \in Columns
          OBVIOUS
        <4>2. CASE op = "box"
          BY <1>4, <1>8, <1>10, <4>1, <4>2 DEF SavedColumns
        <4>3. CASE op = "patch"
          BY <1>8, <3>1, <4>1, <4>3
        <4>4. CASE op \in Naming
          BY <1>8, <1>10, <4>1, <4>4 DEF SavedColumns, Naming
        <4> QED BY <1>10, <2>3, <4>2, <4>3, <4>4 DEF Ops, Naming
      <3>6. u \in crossed => u \in crossed'
        BY <1>4
      <3>7. ASSUME NEW c \in IF u \in crossed' THEN Columns \ Boxes ELSE Columns
            PROVE  new[c] = meant[c]
        <4>1. c \in Columns /\ account[u][c] = asked[u][c]
          BY <3>3, <3>6
        <4> QED BY <1>8, <1>9, <2>3, <3>3, <3>5, <4>1
      <3> QED BY <3>4, <3>7
    <2> QED BY <2>1, <2>2, <2>3
  <1>12. AsAsked(u)'
    <2>1. account'[u] = new /\ asked'[u] = meant
      BY <1>5
    <2> QED BY <1>11, <2>1 DEF AsAsked
  <1> QED BY <1>7, <1>12

\* The row that is saved has a password its owner will hear, and the flag that goes with it:
\* both are what was asked, or both come from one row.
LEMMA StoredRowIsOK ==
  ASSUME AccountInv, NEW r \in Requests, at[r] # "new", at'[r] # "new", Finds(r), Store(r),
         UNCHANGED job, NEW u \in People, u = job[r].who,
         "password" \in DOMAIN job[r].ask /\ job[r].op # "change" /\ job[r].letter # "spoken" =>
             Heard(u, r)',
         \A p : Heard(u, p) => Heard(u, p)',
         \A row : Paired(u, row) => Paired(u, row)',
         NEW new, new = SavedRow(r)
  PROVE  RowOK(u, new)'
  <1> SUFFICES ASSUME new # NoRow
               PROVE  Heard(u, new["password"])' /\ Paired(u, new)'
    BY DEF RowOK
  <1>1. PICK ask, save, seen, op, letter :
            /\ ask = job[r].ask /\ save = job[r].save
            /\ seen = job[r].seen /\ op = job[r].op /\ letter = job[r].letter
    OBVIOUS
  <1>2. PICK old : old = account[u]
    OBVIOUS
  <1>3. op # "delete" /\ \A c \in Columns : new[c] =
            IF c \in DOMAIN ask THEN ask[c] ELSE IF c \in save THEN seen[c] ELSE old[c]
    BY <1>1, <1>2, SavedRowIs
  <1>4. /\ op \in Ops /\ SavedColumns(op, ask, save) /\ AskedSecret(r, op, ask, letter)
        /\ op \notin {"create", "invite"} => seen # NoRow
        /\ AskFits(ask)
    BY <1>1 DEF AccountInv, JobOK, IsJob
  <1>5. {"password", "must_change_password"} \subseteq Columns
        /\ {"password", "must_change_password"} \cap Boxes = {}
    BY AccountsAssumption DEF Columns, Secret
  <1>6. /\ waived' = IF op = "patch" /\ ForgivesChange(r) THEN waived \cup {u} ELSE waived
        /\ known' = IF op = "change" \/ letter = "spoken"
                   THEN [known EXCEPT ![u] = @ \cup {r}] ELSE known
    BY <1>1 DEF Store
  <1>7. seen # NoRow => RowOK(u, seen)
    <2>1. seen \in Rows(u)
      BY <1>1 DEF Rows
    <2> QED BY <2>1 DEF AccountInv
  <1>8. RowOK(u, old)
    BY <1>2 DEF AccountInv, Rows
  <1>9. CASE "password" \in DOMAIN ask
    <2>1. new["password"] = r
      BY <1>3, <1>4, <1>5, <1>9 DEF AskedSecret
    <2>2. Heard(u, r)'
      <3>1. CASE op = "change" \/ letter = "spoken"
        <4>1. r \in known'[u]
          BY <1>6, <3>1 DEF AccountInv, AccountTypeOK
        <4> QED BY <4>1 DEF Heard
      <3>2. CASE op # "change" /\ letter # "spoken"
        BY <1>1, <1>9, <3>2
      <3> QED BY <3>1, <3>2
    <2>3. ASSUME Temporary(r)'
          PROVE  new["must_change_password"] = TRUE
      <3>1. \/ op \in {"forgot", "reinvite", "command", "invite"}
            \/ op = "patch" /\ "must_change_password" \in DOMAIN ask
        BY <1>1, <2>3 DEF Temporary
      <3>2. "must_change_password" \in DOMAIN ask /\ ask["must_change_password"] = TRUE
        BY <1>4, <1>9, <3>1 DEF AskedSecret, Secret
      <3> QED BY <1>3, <1>5, <3>2
    <2>4. Paired(u, new)'
      BY <2>1, <2>3 DEF Paired
    <2> QED BY <2>1, <2>2, <2>4
  <1>10. CASE "password" \notin DOMAIN ask /\ op = "patch"
    <2>1. save = Columns /\ seen # NoRow
      BY <1>4, <1>10 DEF SavedColumns
    <2>2. new["password"] = seen["password"]
      BY <1>3, <1>5, <1>10, <2>1
    <2>3. Heard(u, seen["password"])' /\ Paired(u, seen)'
      BY <1>7, <2>1 DEF RowOK
    <2>4. CASE "must_change_password" \in DOMAIN ask
      <3>1. ask["must_change_password"] = FALSE
        BY <1>4, <1>10, <2>4 DEF AskedSecret
      <3>2. u \in waived'
        BY <1>1, <1>6, <1>10, <2>4, <3>1 DEF ForgivesChange
      <3> QED BY <2>2, <2>3, <3>2 DEF Paired
    <2>5. CASE "must_change_password" \notin DOMAIN ask
      <3>1. new["must_change_password"] = seen["must_change_password"]
        BY <1>3, <1>5, <2>1, <2>5
      <3> QED BY <2>2, <2>3, <3>1 DEF Paired
    <2> QED BY <2>4, <2>5
  <1>11. CASE "password" \notin DOMAIN ask /\ op # "patch"
    <2>1. op \in {"login", "box"}
      BY <1>3, <1>4, <1>5, <1>11 DEF Ops, AskedSecret, SavedColumns, Secret
    <2>2. {"password", "must_change_password"} \cap DOMAIN ask = {}
          /\ {"password", "must_change_password"} \cap save = {}
      BY <1>4, <1>5, <2>1 DEF AskedSecret, SavedColumns, Naming, Secret
    <2>3. /\ new["password"] = old["password"]
          /\ new["must_change_password"] = old["must_change_password"]
      BY <1>3, <1>5, <2>2
    <2>4. old # NoRow
      BY <1>1, <1>2, <2>1 DEF Finds, Inserts
    <2>5. Heard(u, old["password"])' /\ Paired(u, old)'
      BY <1>8, <2>4 DEF RowOK
    <2> QED BY <2>3, <2>5 DEF Paired
  <1> QED BY <1>9, <1>10, <1>11

LEMMA StoreStep ==
  ASSUME AccountInv, NEW r \in Requests, at[r] \in {"read", "held"}, Finds(r), Store(r),
         NEW s \in {"saved", "done"}, at' = [at EXCEPT ![r] = s],
         s = "saved" <=> job[r].op = "command",
         s = "saved" <=> at[r] = "read",
         UNCHANGED <<job, mail, unheard>>,
         \A q \in Requests : at[q] = "held" /\ job[q].who = job[r].who => q = r
  PROVE  AccountInv'
  <1>1. PICK u \in People : u = job[r].who
    BY DEF AccountInv, JobOK, IsJob
  <1>2. PICK new, meant : new = SavedRow(r) /\ meant = AskedRow(r)
    OBVIOUS
  <1>3. /\ account' = [account EXCEPT ![u] = new]
        /\ asked' = [asked EXCEPT ![u] = meant]
        /\ lapped' \in {lapped, lapped \cup {u}}
        /\ crossed' \in {crossed, crossed \cup {u}}
        /\ waived' \in {waived, waived \cup {u}}
        /\ known' \in {known, [known EXCEPT ![u] = @ \cup {r}]}
    BY <1>1, <1>2 DEF Store
  <1>4. \A w \in People : /\ account'[w] = IF w = u THEN new ELSE account[w]
                          /\ asked'[w] = IF w = u THEN meant ELSE asked[w]
                          /\ known[w] \subseteq known'[w]
    BY <1>3 DEF AccountInv, AccountTypeOK
  <1>5. \A q \in Requests : at'[q] = IF q = r THEN s ELSE at[q]
    BY DEF AccountInv, AccountTypeOK
  <1>6. (new = NoRow \/ IsRow(new)) /\ (meant = NoRow \/ IsRow(meant))
    BY <1>1, <1>2, SavedRowIs, AskedRowIs
  <1>7. AccountTypeOK'
    <2>1. /\ DOMAIN account' = People /\ DOMAIN asked' = People
          /\ \A w \in People : /\ account'[w] = NoRow \/ IsRow(account'[w])
                               /\ asked'[w] = NoRow \/ IsRow(asked'[w])
      BY <1>3, <1>4, <1>6 DEF AccountInv, AccountTypeOK
    <2>2. at' \in [Requests -> {"new", "read", "held", "saved", "done"}]
      BY DEF AccountInv, AccountTypeOK
    <2>3. known' \in [People -> SUBSET Marks]
      BY <1>3 DEF AccountInv, AccountTypeOK, Marks
    <2>4. /\ lapped' \subseteq People /\ crossed' \subseteq People
          /\ waived' \subseteq People /\ unheard' \subseteq People
          /\ mail' \subseteq [who : People, id : Marks, password : Marks, kind : Letters]
          /\ DOMAIN job' = Requests
      BY <1>3 DEF AccountInv, AccountTypeOK
    <2>5. \A q \in Requests : IF at'[q] = "new" THEN job'[q] = NoRow ELSE IsJob(job'[q])
      BY <1>5 DEF AccountInv, AccountTypeOK
    <2> QED BY <2>1, <2>2, <2>3, <2>4, <2>5 DEF AccountTypeOK
  <1>8. ASSUME NEW w \in People, NEW p, Heard(w, p)
        PROVE  Heard(w, p)'
    BY <1>4, <1>5, <1>8, StaysHeard
  <1>9. ASSUME NEW w, NEW row, Paired(w, row)
        PROVE  Paired(w, row)'
    BY <1>3, <1>5, <1>9, StaysPaired
  <1>10. ASSUME "password" \in DOMAIN job[r].ask, job[r].op # "change", job[r].letter # "spoken"
         PROVE  Heard(u, r)'
    <2>1. CASE s = "saved"
      BY <1>1, <1>5, <2>1 DEF Heard
    <2>2. CASE s # "saved"
      <3>1. at[r] = "held" /\ job[r].letter \in {"welcome", "reset"}
        BY <1>10, <2>2 DEF AccountInv, JobOK, AskedSecret
      <3>2. Heard(u, r)
        BY <1>1, <3>1 DEF AccountInv
      <3> QED BY <1>8, <3>2
    <2> QED BY <2>1, <2>2
  <1>11. RowOK(u, new)'
    BY <1>1, <1>2, <1>5, <1>8, <1>9, <1>10, StoredRowIsOK
  <1>12. ASSUME NEW w \in People, NEW row \in Rows(w)'
         PROVE  RowOK(w, row)'
    <2>1. CASE row \in Rows(w)
      <3>1. RowOK(w, row)
        BY <2>1 DEF AccountInv
      <3> QED BY <1>8, <1>9, <3>1 DEF RowOK
    <2>2. CASE row \notin Rows(w)
      <3>1. w = u /\ row = new
        BY <1>4, <1>5, <2>2 DEF Rows
      <3> QED BY <1>11, <3>1
    <2> QED BY <2>1, <2>2
  <1>13. ASSUME NEW q \in Requests, at'[q] = "held"
         PROVE  HoldsRow(q)'
    <2>1. q # r /\ at[q] = "held" /\ HoldsRow(q) /\ job[q].who # u
      BY <1>1, <1>5, <1>13 DEF AccountInv
    <2>2. job[q].who \in People
      BY <2>1 DEF AccountInv, JobOK, IsJob
    <2>3. account'[job[q].who] = account[job[q].who]
      BY <1>4, <2>1, <2>2
    <2> QED BY <1>5, <2>1, <2>3 DEF HoldsRow, Finds, Inserts
  <1>14. \A q \in Requests : at'[q] # "new" => JobOK(q)'
    BY <1>5 DEF AccountInv, JobOK
  <1>15. ASSUME NEW q \in Requests, NEW w \in People,
                at'[q] = "held", job'[q].who = w, job'[q].letter \in {"welcome", "reset"}
         PROVE  Heard(w, q)'
    BY <1>5, <1>8, <1>15 DEF AccountInv
  <1>16. \A q \in Requests : at'[q] = "saved" => job'[q].op = "command"
    BY <1>5 DEF AccountInv
  <1>17. \A w \in People : AsAsked(w)'
    BY StoreKeepsAsked
  <1> QED BY <1>7, <1>12, <1>13, <1>14, <1>15, <1>16, <1>17 DEF AccountInv

\* Steps that change no row and begin no request.
LEMMA OtherStep ==
  ASSUME AccountInv,
         UNCHANGED <<account, job, asked, lapped, crossed, waived>>,
         at' \in [Requests -> {"new", "read", "held", "saved", "done"}],
         \A q \in Requests : at'[q] = "new" <=> at[q] = "new",
         \A q \in Requests : at'[q] = "saved" => at[q] = "saved",
         \A q \in Requests : at'[q] = "held" => HoldsRow(q)',
         \A q \in Requests, w \in People :
             at'[q] = "held" /\ at[q] # "held" /\ job[q].who = w
                 /\ job[q].letter \in {"welcome", "reset"} => Heard(w, q)',
         unheard' \subseteq People,
         known' \in [People -> SUBSET Marks],
         mail' \subseteq [who : People, id : Marks, password : Marks, kind : Letters],
         \A u \in People : \A p : Heard(u, p) => Heard(u, p)'
  PROVE  AccountInv'
  <1>1. AccountTypeOK'
    BY DEF AccountInv, AccountTypeOK
  <1>2. ASSUME NEW u, NEW row, Paired(u, row)
        PROVE  Paired(u, row)'
    BY <1>2, StaysPaired
  <1>3. ASSUME NEW u \in People, NEW row \in Rows(u)'
        PROVE  RowOK(u, row)'
    <2>1. row \in Rows(u)
      BY DEF Rows
    <2>2. RowOK(u, row)
      BY <2>1 DEF AccountInv
    <2> QED BY <1>2, <2>2 DEF RowOK
  <1>4. \A q \in Requests : at'[q] # "new" => JobOK(q)'
    BY DEF AccountInv, JobOK
  <1>5. ASSUME NEW q \in Requests, NEW w \in People,
               at'[q] = "held", job'[q].who = w, job'[q].letter \in {"welcome", "reset"}
        PROVE  Heard(w, q)'
    <2>1. CASE at[q] = "held"
      BY <1>5, <2>1 DEF AccountInv
    <2>2. CASE at[q] # "held"
      BY <1>5, <2>2
    <2> QED BY <2>1, <2>2
  <1>6. \A q \in Requests : at'[q] = "saved" => job'[q].op = "command"
    BY DEF AccountInv
  <1>7. \A w \in People : AsAsked(w)'
    BY DEF AccountInv, AsAsked
  <1> QED BY <1>1, <1>3, <1>4, <1>5, <1>6, <1>7 DEF AccountInv

LEMMA PostedIsMail ==
  ASSUME AccountInv, NEW r \in Requests, at[r] # "new"
  PROVE  /\ Posted(r) \subseteq [who : People, id : Marks, password : Marks, kind : Letters]
         /\ job[r].letter \in {"welcome", "reset"} =>
                \E m \in Posted(r) : m.who = job[r].who /\ m.password = r
  <1>1. /\ job[r].who \in People /\ job[r].letter \in Letters
        /\ job[r].op \notin {"create", "invite"} => IsRow(job[r].seen)
    BY DEF AccountInv, JobOK, IsJob
  <1>2. r \in Marks /\ (IF job[r].op \in {"create", "invite"} THEN r ELSE job[r].seen["id"]) \in Marks
    BY <1>1 DEF IsRow, Marks
  <1>3. PICK who \in People, id \in Marks : /\ who = job[r].who
            /\ id = IF job[r].op \in {"create", "invite"} THEN r ELSE job[r].seen["id"]
    BY <1>1, <1>2
  <1>4. Posted(r) = {[who |-> who, id |-> id, password |-> r, kind |-> k] :
                         k \in {job[r].letter} \ {"none", "spoken"}}
    BY <1>3 DEF Posted
  <1>5. Posted(r) \subseteq [who : People, id : Marks, password : Marks, kind : Letters]
    BY <1>1, <1>2, <1>3, <1>4
  <1>6. ASSUME job[r].letter \in {"welcome", "reset"}
        PROVE  \E m \in Posted(r) : m.who = job[r].who /\ m.password = r
    <2>1. [who |-> who, id |-> id, password |-> r, kind |-> job[r].letter] \in Posted(r)
      BY <1>4, <1>6
    <2> QED BY <1>3, <2>1
  <1> QED BY <1>5, <1>6

LEMMA SaveStep ==
  ASSUME AccountInv, NEW r \in Requests, Save(r)
  PROVE  AccountInv'
  <1>1. /\ at[r] = "read" /\ job[r].op # "command" /\ Open(job[r].who) /\ Finds(r)
        /\ at' = [at EXCEPT ![r] = "held"] /\ mail' = mail \cup Posted(r)
        /\ UNCHANGED <<account, job, known, asked, lapped, crossed, waived, unheard>>
    BY DEF Save, askedVars
  <1>2. \A q \in Requests : at'[q] = IF q = r THEN "held" ELSE at[q]
    BY <1>1 DEF AccountInv, AccountTypeOK
  <1>3. /\ at' \in [Requests -> {"new", "read", "held", "saved", "done"}]
        /\ known' \in [People -> SUBSET Marks] /\ unheard' \subseteq People
        /\ mail' \subseteq [who : People, id : Marks, password : Marks, kind : Letters]
    BY <1>1, PostedIsMail DEF AccountInv, AccountTypeOK
  <1>4. ASSUME NEW u \in People, NEW p, Heard(u, p)
        PROVE  Heard(u, p)'
    BY <1>1, <1>2, <1>4, StaysHeard
  <1>5. ASSUME NEW q \in Requests, at'[q] = "held"
        PROVE  HoldsRow(q)'
    <2>1. HoldsRow(q)
      <3>1. CASE q = r
        BY <1>1, <3>1 DEF HoldsRow, Open
      <3>2. CASE q # r
        BY <1>2, <1>5, <3>2 DEF AccountInv
      <3> QED BY <3>1, <3>2
    <2>2. at[q] = "held" => job[q].who # job[r].who
      BY <1>1 DEF Open
    <2>3. \A p \in Requests : at'[p] = "held" /\ job[p].who = job[q].who => p = q
      BY <1>1, <1>2, <1>5, <2>1, <2>2 DEF HoldsRow, Open
    <2> QED BY <1>1, <2>1, <2>3 DEF HoldsRow, Finds, Inserts
  <1>6. ASSUME NEW q \in Requests, NEW w \in People, at'[q] = "held", at[q] # "held",
               job[q].who = w, job[q].letter \in {"welcome", "reset"}
        PROVE  Heard(w, q)'
    <2>1. q = r
      BY <1>2, <1>6
    <2>2. \E m \in mail' : m.who = w /\ m.password = q
      BY <1>1, <1>6, <2>1, PostedIsMail
    <2> QED BY <2>2 DEF Heard
  <1>7. \A q \in Requests : /\ at'[q] = "new" <=> at[q] = "new"
                            /\ at'[q] = "saved" => at[q] = "saved"
    BY <1>1, <1>2
  <1> QED BY <1>1, <1>3, <1>4, <1>5, <1>6, <1>7, OtherStep

\* A request that ends without a change, or tells its passwords.
LEMMA EndStep ==
  ASSUME AccountInv, NEW r \in Requests, at[r] # "new", at' = [at EXCEPT ![r] = "done"],
         UNCHANGED <<account, job, known, asked, lapped, crossed, waived>>,
         mail' \in {mail, mail \cup Posted(r)}, unheard' \in {unheard, unheard \cup {job[r].who}},
         at[r] = "saved" => mail' = mail \cup Posted(r) \/ unheard' = unheard \cup {job[r].who}
  PROVE  AccountInv'
  <1>1. \A q \in Requests : at'[q] = IF q = r THEN "done" ELSE at[q]
    BY DEF AccountInv, AccountTypeOK
  <1>2. job[r].who \in People
    BY DEF AccountInv, JobOK, IsJob
  <1>3. /\ at' \in [Requests -> {"new", "read", "held", "saved", "done"}]
        /\ known' \in [People -> SUBSET Marks] /\ unheard' \subseteq People
        /\ mail' \subseteq [who : People, id : Marks, password : Marks, kind : Letters]
    BY <1>2, PostedIsMail DEF AccountInv, AccountTypeOK
  <1>4. at[r] = "saved" => Heard(job[r].who, r)'
    <2> SUFFICES ASSUME at[r] = "saved"
                 PROVE  Heard(job[r].who, r)'
      OBVIOUS
    <2>1. CASE unheard' = unheard \cup {job[r].who}
      BY <2>1 DEF Heard
    <2>2. CASE mail' = mail \cup Posted(r)
      <3>1. job[r].letter = "welcome"
        BY DEF AccountInv, JobOK, AskedSecret
      <3>2. \E m \in mail' : m.who = job[r].who /\ m.password = r
        BY <2>2, <3>1, PostedIsMail
      <3> QED BY <3>2 DEF Heard
    <2> QED BY <2>1, <2>2
  <1>5. ASSUME NEW u \in People, NEW p, Heard(u, p)
        PROVE  Heard(u, p)'
    <2>1. \A q \in Requests : at[q] = "saved" => at'[q] = "saved" \/ Heard(job[q].who, q)'
      BY <1>1, <1>4
    <2> QED BY <1>5, <2>1, StaysHeard
  <1>6. ASSUME NEW q \in Requests, at'[q] = "held"
        PROVE  HoldsRow(q)'
    BY <1>1, <1>6 DEF AccountInv, HoldsRow, Finds, Inserts
  <1>7. \A q \in Requests : /\ at'[q] = "new" <=> at[q] = "new"
                            /\ at'[q] = "saved" => at[q] = "saved"
                            /\ at'[q] = "held" => at[q] = "held"
    BY <1>1
  <1> QED BY <1>3, <1>5, <1>6, <1>7, OtherStep

LEMMA MailStep ==
  ASSUME AccountInv, NEW m \in mail, mail' = mail \ {m},
         \/ unheard' = unheard \cup {m.who} /\ known' = known
         \/ unheard' = unheard /\ known' = [known EXCEPT ![m.who] = @ \cup {m.password}],
         UNCHANGED <<account, at, job, asked, lapped, crossed, waived>>
  PROVE  AccountInv'
  <1>1. m.who \in People /\ m.password \in Marks
    BY DEF AccountInv, AccountTypeOK
  <1>2. /\ known' \in [People -> SUBSET Marks] /\ unheard' \subseteq People
        /\ mail' \subseteq [who : People, id : Marks, password : Marks, kind : Letters]
        /\ \A u \in People : known[u] \subseteq known'[u]
        /\ m.password \in known'[m.who] \/ m.who \in unheard'
        /\ unheard \subseteq unheard'
    BY <1>1 DEF AccountInv, AccountTypeOK
  <1>3. ASSUME NEW u \in People, NEW p, Heard(u, p)
        PROVE  Heard(u, p)'
    BY <1>2, <1>3, StaysHeard
  <1>4. ASSUME NEW q \in Requests, at'[q] = "held"
        PROVE  HoldsRow(q)'
    BY <1>4 DEF AccountInv, HoldsRow, Finds, Inserts
  <1>5. at' \in [Requests -> {"new", "read", "held", "saved", "done"}]
    BY DEF AccountInv, AccountTypeOK
  <1> QED BY <1>2, <1>3, <1>4, <1>5, OtherStep

LEMMA AccountStep == AccountInv /\ [AccountNext]_accountVars => AccountInv'
  <1> SUFFICES ASSUME AccountInv, [AccountNext]_accountVars
               PROVE  AccountInv'
    OBVIOUS
  <1>1. ASSUME NEW r \in Requests, Conflict(r) \/ Rollback(r)
        PROVE  AccountInv'
    BY <1>1, EndStep DEF Conflict, Rollback, askedVars
  <1>2. ASSUME NEW r \in Requests, Commit(r)
        PROVE  AccountInv'
    <2>1. /\ at[r] = "held" /\ at' = [at EXCEPT ![r] = "done"] /\ Store(r)
          /\ UNCHANGED <<job, mail, unheard>>
      BY <1>2 DEF Commit
    <2>2. HoldsRow(r)
      BY <2>1 DEF AccountInv
    <2> QED BY <2>1, <2>2, StoreStep DEF HoldsRow
  <1>3. ASSUME NEW r \in Requests, CommandSave(r)
        PROVE  AccountInv'
    <2>1. /\ at[r] = "read" /\ job[r].op = "command" /\ Finds(r) /\ Open(job[r].who)
          /\ at' = [at EXCEPT ![r] = "saved"] /\ Store(r)
          /\ UNCHANGED <<job, mail, unheard>>
      BY <1>3 DEF CommandSave
    <2> QED BY <2>1, StoreStep DEF Open
  <1>4. ASSUME NEW r \in Requests, CommandMail(r) \/ CommandStops(r)
        PROVE  AccountInv'
    BY <1>4, EndStep DEF CommandMail, CommandStops, askedVars
  <1>5. ASSUME NEW m \in mail, WelcomeArrives(m) \/ ResetArrives(m) \/ MailFails(m)
        PROVE  AccountInv'
    BY <1>5, MailStep DEF WelcomeArrives, ResetArrives, Arrives, MailFails, askedVars
  <1>6. CASE UNCHANGED accountVars
    <2>1. UNCHANGED <<account, at, job, mail, known, asked, lapped, crossed, waived, unheard>>
      BY <1>6 DEF accountVars, askedVars
    <2>2. ASSUME NEW u \in People, NEW p, Heard(u, p)
          PROVE  Heard(u, p)'
      BY <2>1, <2>2 DEF Heard
    <2>3. ASSUME NEW q \in Requests, at'[q] = "held"
          PROVE  HoldsRow(q)'
      BY <2>1, <2>3 DEF AccountInv, HoldsRow, Finds, Inserts
    <2>4. /\ at' \in [Requests -> {"new", "read", "held", "saved", "done"}]
          /\ known' \in [People -> SUBSET Marks] /\ unheard' \subseteq People
          /\ mail' \subseteq [who : People, id : Marks, password : Marks, kind : Letters]
      BY <2>1 DEF AccountInv, AccountTypeOK
    <2> QED BY <2>1, <2>2, <2>3, <2>4, OtherStep
  <1> QED BY <1>1, <1>2, <1>3, <1>4, <1>5, <1>6, BeginStep, SaveStep DEF AccountNext

\* However the requests about an account overlap: it is what the committed ones asked for,
\* unless an update saved over a newer row or two rewrote its boxes at once.
THEOREM AccountIsAsAsked == AccountSpec => []AccountAsAsked
  <1>1. AccountInv => AccountAsAsked
    BY DEF AccountInv, AsAsked, AccountAsAsked
  <1> QED BY AccountInitially, AccountStep, <1>1, PTL DEF AccountSpec

\* The owner of an account can get in, as long as no mail is lost.
THEOREM NobodyIsLockedOut == AccountSpec => []NoLockout
  <1>1. AccountInv => NoLockout
    BY DEF AccountInv, Rows, RowOK, Heard, NoLockout
  <1> QED BY AccountInitially, AccountStep, <1>1, PTL DEF AccountSpec

\* A password that was made up has to be changed, unless an admin waived that.
THEOREM TemporaryIsChanged == AccountSpec => []TemporaryMustChange
  <1>1. AccountInv => TemporaryMustChange
    BY DEF AccountInv, Rows, RowOK, Paired, TemporaryMustChange
  <1> QED BY AccountInitially, AccountStep, <1>1, PTL DEF AccountSpec

=============================================================================
