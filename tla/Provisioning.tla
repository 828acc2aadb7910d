---------------------------- MODULE Provisioning ----------------------------
(***************************************************************************)
(* Tenants and their lines (DIDs): the webhooks of the provider that       *)
(* create, change and delete them, and the requests of admins about        *)
(* tenants.                                                                *)
(*                                                                         *)
(* Each is one READ COMMITTED transaction that looks its rows up in one    *)
(* step, saves in another, which holds what it writes, and then commits.   *)
(* update_or_create locks the tenant before it reads it and saves only the *)
(* columns it was given; the others save every column of the row they      *)
(* read, and insert a row that is gone meanwhile.                          *)
(*                                                                         *)
(* A tenant is named by the provider's UUID, an API key and a number by    *)
(* the request that gave it, a DID by the one that created it.  The lookup *)
(* of a tenant by its local primary key is left out: the provider knows    *)
(* none.                                                                   *)
(***************************************************************************)
CONSTANTS
    Tenants,    \* freeswitch_tenant_uuid
    Codes,      \* tenant codes; nothing keeps two tenants from having one
    Dids,       \* freeswitch_object_id
    Posts,      \* webhooks and requests
    NoCode,     \* no code in the payload; stored as "TENANT"
    NoKey,      \* the empty key
    NoDid,      \* no such row
    NoTenant

ASSUME ProvisioningAssumption ==
    NoTenant \notin Tenants /\ NoCode \notin Codes /\ {NoKey, NoDid} \cap Posts = {}

PostCodes == Codes \cup {NoCode}
DidKeys == Tenants \X Dids

TenantRow == [code : PostCodes, key : Posts \cup {NoKey}, active : BOOLEAN]
DidRow == [row : Posts, number : Posts]

ASSUME NoRowAssumption == NoTenant \notin TenantRow /\ NoDid \notin DidRow

VARIABLES
    tenant,         \* tenant[u]: code, key and whether it is active, or NoTenant
    did,            \* did[<<u, d>>]: a DID, by the post that created it, and its number
    postPhase,      \* postPhase[r]: where request r stands
    post,           \* post[r]: what it is about and what it found
    meantTenant,    \* history: the tenants if each request changed only what it named
    toldNumber,     \* history: the number last reported of a line
    restored,       \* history: tenants that a PATCH saved over a row it had not read
    wiped,          \* history: tenants given the empty key by a post that found no row
    mixed           \* history: lines a post handled next to another one, or under a
                    \* tenant it found by its code

provisionVars == <<tenant, did, postPhase, post, meantTenant, toldNumber, restored, wiped, mixed>>

ProvisionInit ==
    /\ tenant \in [Tenants -> {NoTenant} \cup [code : Codes, key : {NoKey}, active : {TRUE}]]
    /\ did = [l \in DidKeys |-> NoDid]
    /\ postPhase = [r \in Posts |-> "new"]
    /\ post = [r \in Posts |-> NoTenant]
    /\ meantTenant = tenant /\ toldNumber = [l \in DidKeys |-> NoDid]
    /\ restored = {} /\ wiped = {} /\ mixed = {}

-----------------------------------------------------------------------------
(* What a request looks up.                                                *)

HasTenant(u) == tenant[u] # NoTenant

BeginPost(r, op, u, t, line, ask) ==
    /\ postPhase[r] = "new"
    /\ postPhase' = [postPhase EXCEPT ![r] = "read"]
    /\ post' = [post EXCEPT ![r] =
           [op |-> op, named |-> u, known |-> HasTenant(u), of |-> t,
            found |-> tenant[t], line |-> line,
            did |-> IF line = NoDid THEN NoDid ELSE did[<<t, line>>], ask |-> ask]]
    /\ UNCHANGED <<tenant, did, meantTenant, toldNumber, restored, wiped, mixed>>

\* Mutant: the key is part of the defaults whether the payload has one or not.
TenantDefaultsAlwaysKeyed(r, u, c, hasKey) ==
    [x \in {"code", "active", "key"} |->
        CASE x = "code" -> c [] x = "active" -> TRUE [] OTHER -> IF hasKey THEN r ELSE NoKey]

\* Without a key the empty one, unless the tenant is there.
TenantDefaults(r, u, c, hasKey) ==
    [x \in {"code", "active"} \cup (IF hasKey \/ ~HasTenant(u) THEN {"key"} ELSE {}) |->
        CASE x = "code" -> c [] x = "active" -> TRUE [] OTHER -> IF hasKey THEN r ELSE NoKey]

\* tenant.created and api_key.created.
TenantPost(r, u, c) ==
    \E hasKey \in BOOLEAN : BeginPost(r, "upsert", u, u, NoDid, TenantDefaults(r, u, c, hasKey))

CreateTenant(r, u, c) ==
    /\ ~HasTenant(u)
    /\ \E k \in {r, NoKey} :
           BeginPost(r, "create", u, u, NoDid, [code |-> c, key |-> k, active |-> TRUE])

PatchTenant(r, u) ==
    /\ HasTenant(u)
    /\ \E ask \in {[key |-> r], [active |-> FALSE]} \cup {[code |-> c] : c \in Codes} :
           BeginPost(r, "patch", u, u, NoDid, ask)

ByCode(c) == {t \in Tenants : c # NoCode /\ HasTenant(t) /\ tenant[t].code = c}

\* Mutant: the tenant with the code of the payload, if there is one.
TenantOfCode(u, c) == IF ByCode(c) # {} THEN ByCode(c) ELSE {u}

\* The tenant with the UUID of the payload, or the first with its code.
TenantOf(u, c) == IF HasTenant(u) \/ ByCode(c) = {} THEN {u} ELSE ByCode(c)

\* did.created and did.updated, which may leave the number out; a tenant nobody knows is
\* created with the empty key.
DidPost(r, u, c, d) ==
    \E t \in TenantOf(u, c) :
        \E n \in {r} \cup (IF did[<<t, d>>] = NoDid THEN {} ELSE {did[<<t, d>>].number}) :
            BeginPost(r, "did", u, t, d, [code |-> c, key |-> NoKey, active |-> TRUE, number |-> n])

\* did.deleted; without a tenant nothing is deleted.
DidDeleted(r, u, c, d) ==
    \E t \in TenantOf(u, c) : HasTenant(t) /\ BeginPost(r, "gone", u, t, d, [number |-> NoDid])

-----------------------------------------------------------------------------
(* The save and the end of the transaction.                                *)

InsertsTenant(r) == post[r].op = "create" \/ (post[r].op = "did" /\ post[r].found = NoTenant)

WritesTenant(r) == post[r].op \in {"upsert", "create", "patch"} \/ InsertsTenant(r)

LineOf(r) == <<post[r].of, post[r].line>>

WritesLine(r) ==
    post[r].op = "did" \/ (post[r].op = "gone" /\ post[r].did # NoDid)

Meets(q, r) ==
    \/ WritesTenant(q) /\ WritesTenant(r) /\ post[q].of = post[r].of
    \/ WritesLine(q) /\ WritesLine(r) /\ LineOf(q) = LineOf(r)

Blocked(r) == \E q \in Posts : postPhase[q] = "saved" /\ Meets(q, r)

\* The row it found is the one there is now.
SameDid(r) == post[r].did # NoDid /\ did[LineOf(r)] # NoDid /\ post[r].did.row = did[LineOf(r)].row

\* A second row for one UUID, or for one object of a tenant.
Duplicates(r) ==
    \/ InsertsTenant(r) /\ HasTenant(post[r].of)
    \/ post[r].op = "did" /\ did[LineOf(r)] # NoDid /\ ~SameDid(r)

SavePost(r) ==
    /\ postPhase[r] = "read" /\ ~Blocked(r) /\ ~Duplicates(r)
    /\ postPhase' = [postPhase EXCEPT ![r] = "saved"]
    /\ UNCHANGED <<tenant, did, post, meantTenant, toldNumber, restored, wiped, mixed>>

\* Always for a duplicate.  The webhook is answered 500 or, about a tenant, 202.
PostRaises(r) ==
    /\ postPhase[r] \in {"read", "saved"} /\ ~Blocked(r)
    /\ postPhase' = [postPhase EXCEPT ![r] = "done"]
    /\ UNCHANGED <<tenant, did, post, meantTenant, toldNumber, restored, wiped, mixed>>

Given(row, ask) ==
    [x \in {"code", "key", "active"} |-> IF x \in DOMAIN ask THEN ask[x] ELSE row[x]]

\* A tenant that is not there is inserted, otherwise the locked row or, by a PATCH, the row
\* it read gets the columns that were given.
SavedTenant(r) ==
    Given(IF post[r].op = "patch" THEN post[r].found ELSE tenant[post[r].of], post[r].ask)

\* What a request was about: a post without a key says nothing about the key of a tenant
\* that has one.
MeantTenant(r) ==
    LET u == post[r].of
        keyless == post[r].op = "upsert" /\ ("key" \in DOMAIN post[r].ask => post[r].ask.key = NoKey)
        old == IF meantTenant[u] = NoTenant THEN NoKey ELSE meantTenant[u].key IN
    IF keyless THEN [code |-> post[r].ask.code, active |-> TRUE, key |-> old]
    ELSE Given(meantTenant[u], post[r].ask)

ToldLine(r) == <<post[r].named, post[r].line>>

CommitTenant(r) ==
    LET u == post[r].of IN
    IF WritesTenant(r)
    THEN /\ tenant' = [tenant EXCEPT ![u] = SavedTenant(r)]
         /\ meantTenant' = [meantTenant EXCEPT ![u] = MeantTenant(r)]
         /\ restored' = IF post[r].op = "patch" /\ post[r].found # tenant[u]
                      THEN restored \cup {u} ELSE restored
         /\ wiped' = IF /\ post[r].op = "upsert" /\ post[r].found = NoTenant
                        /\ HasTenant(u) /\ tenant[u].key # NoKey /\ post[r].ask.key = NoKey
                     THEN wiped \cup {u} ELSE wiped
    ELSE UNCHANGED <<tenant, meantTenant, restored, wiped>>

\* A save of a row that is gone inserts it again; only the row that was found is deleted.
SavedDid(r) ==
    IF post[r].op = "did"
    THEN [row |-> IF post[r].did = NoDid THEN r ELSE post[r].did.row, number |-> post[r].ask.number]
    ELSE IF SameDid(r) THEN NoDid ELSE did[LineOf(r)]

CommitLine(r) ==
    IF post[r].line = NoDid THEN UNCHANGED <<did, toldNumber, mixed>>
    ELSE /\ did' = [did EXCEPT ![LineOf(r)] = SavedDid(r)]
         /\ toldNumber' = [toldNumber EXCEPT ![ToldLine(r)] = post[r].ask.number]
         /\ mixed' = IF \/ post[r].did # did[LineOf(r)]
                        \/ post[r].named # post[r].of /\ ~post[r].known
                     THEN mixed \cup {ToldLine(r), LineOf(r)} ELSE mixed

CommitPost(r) ==
    /\ postPhase[r] = "saved"
    /\ postPhase' = [postPhase EXCEPT ![r] = "done"]
    /\ CommitTenant(r) /\ CommitLine(r)
    /\ UNCHANGED post

ProvisionNext ==
    \E r \in Posts :
        \/ \E u \in Tenants :
               \/ PatchTenant(r, u)
               \/ \E c \in PostCodes :
                      \/ TenantPost(r, u, c)
                      \/ c \in Codes /\ CreateTenant(r, u, c)
                      \/ \E d \in Dids : DidPost(r, u, c, d) \/ DidDeleted(r, u, c, d)
        \/ SavePost(r) \/ PostRaises(r) \/ CommitPost(r)

ProvisionSpec == ProvisionInit /\ [][ProvisionNext]_provisionVars

-----------------------------------------------------------------------------
(* Properties.                                                             *)

\* A tenant has the code, the API key and the state that the committed posts and requests
\* gave it last: a post without a key leaves the key alone, and posts about its lines
\* leave all of it alone.  Except that a PATCH puts back what it read, and that a
\* "tenant.created" that found no tenant empties the key another post gave it meanwhile.
TenantAsProvisioned ==
    \A u \in Tenants \ restored :
        /\ tenant[u] = NoTenant <=> meantTenant[u] = NoTenant
        /\ tenant[u] # NoTenant =>
               /\ tenant[u].code = meantTenant[u].code
               /\ tenant[u].active = meantTenant[u].active
               /\ u \in wiped \/ tenant[u].key = meantTenant[u].key

\* A line is with the tenant it was reported for, under the number last reported, and gone
\* once it was reported deleted, unless two posts about it overlapped or the tenant was
\* unknown by its UUID and another one had its code.
LineAsReported ==
    \A l \in DidKeys \ mixed :
        toldNumber[l] = IF did[l] = NoDid THEN NoDid ELSE did[l].number

=============================================================================
