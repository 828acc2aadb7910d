# A TLA+ model of the unified communication backend

The repository is a Django, Channels and Celery backend for a multi-tenant
telephony product. FreeSWITCH owns extensions, numbers, call records, faxes and
voicemail; Telnyx carries text messages; this program mirrors what it needs of
both in PostgreSQL, serves it to clients over REST and pushes changes to them
over WebSockets. This directory holds the specifications of its core, the TLC
configurations that check them, and proofs of their main safety properties.

Run `tlc -config X.cfg MCY.tla` for a check and `tlapm YProofs.tla` for a proof.

## The rules every model rests on

* `ATOMIC_REQUESTS = True` (`config/settings/base.py:143`): each HTTP request,
  webhooks included, is one PostgreSQL transaction at READ COMMITTED. A returned
  response commits, also a 4xx or a 502; an exception that leaves the view
  rolls everything back. Reads see what others have committed; a row that was
  written is locked until its writer ends.
* A Celery task and a consumer commit statement by statement. Tasks are
  acknowledged late; beat starts the dispatch task every 2 seconds
  (`base.py:192-207`), whether or not the last one has ended.
* No code takes an explicit lock (`select_for_update`) and no view retries. What
  keeps concurrent requests apart is row locks of updates and unique indexes.

## Inventory

| Component | State | Operations | Talks to | Hard because |
|---|---|---|---|---|
| Outbox (`apps/outbox`) | `OutboxEvent` rows; per-connection channel queues in Redis | insert in a request, dispatch task, connect, deliver, disconnect | written by messaging and the webhooks; published to Channels | overlapping ticks, crash between publish and mark, lost answers, bounded channels |
| Messaging (`apps/messaging`, Telnyx webhooks) | `Conversation`, participants, `Message`, `ConversationRead` | send, inbound webhook, status webhook, mark read, list | calls Telnyx inside the transaction; emits outbox events | find-or-create without a constraint, repeated webhooks, stamps written out of order, status reports before the commit |
| Telephony sync (FreeSWITCH webhooks, `apps/extensions`) | `Extension` and `DID` rows, `Tenant` | created, updated, deleted webhooks; assign, unassign | fetches from FreeSWITCH mid-transaction; emits outbox events | full-row saves of rows read earlier, posts in any order, failed fetches |
| Users and authentication (`apps/users`) | `User` with its password flags and JSON box lists, `QRLoginToken` | create, invite, update, delete, login, change and reset the password, reinvite, the invite command, box assignment, QR login | Celery mail tasks | mail queued before the commit, full-row saves, check-then-write on QR tokens and JSON lists |
| Tenants and number sync (`apps/tenants`, FreeSWITCH webhooks) | `Tenant`, `DID` | tenant and key webhooks, `did.*` webhooks, admin create and PATCH | FreeSWITCH | a lookup by UUID, then by code; two statements for one decision; full-row saves |
| Numbers and grants (`apps/dids`) | `UserDID`, division assignments, access groups, entries, grants | assign, revoke, group and entry CRUD, grant, cascading deletions | read by team lead scoping | five tables that have to agree |
| Team lead scoping (`apps/common/tl_scoping.py`) | none: functions of the grants | four resolvers | call records, lists, roster | empty filters, cross products, null divisions |
| Call records (`apps/common/cdr_views.py`) | label cache in Redis | scoping, fan-out and merge, labels | FreeSWITCH | partial failure of a fan-out, cache cleared before the commit |
| Fax (`apps/common/fax_views.py`), recordings (`recording_views.py`) | `FaxTag` | first read, assign, review; listings merged from several fetches | FreeSWITCH | check-then-write; rows that come and go between two pages |
| Contacts (`apps/contacts`) | `Contact`, `ContactNumber` | create, update with replacement of the numbers, delete | call records (saved flag) | full-row save of a row deleted meanwhile, two tables in one update |
| Downloads (`apps/downloads`) | `DesktopDownloadToken` | issue, fetch | update server | check-then-mark, a mark that may be rolled back |
| Live pages (`apps/extensions/views.py`) | none | registrations, active calls | FreeSWITCH, twice per page | two reads at different times, one of which may fail |
| Voicemail, webhook log, audit log | their rows | proxied list with read marks; append-only tables | FreeSWITCH (voicemail) | small; the documented tasks on the webhook log do not exist |
| Communications, billing | none | proxies | upstream | stateless |

What makes each correct, in short:

* Outbox: publish only what was committed, call dispatched only what was
  published, keep the order of a request, reach exactly those addressed, lose
  nothing silently except where the channel layer may.
* Messaging: one row per inbound message, in the conversation of exactly its
  participants; one conversation per participant set; a viewer is told of what
  is stored and sees later messages as unread.
* Telephony sync: the mirror ends as the provider has it; syncing never changes
  who an extension belongs to; a user holds one extension and its current
  credentials.
* Users: the owner of an account can get in, with a password that must be changed
  if it was mailed; what requests asked of an account is what it has; a QR token
  mints one session.
* Tenants and numbers: a tenant keeps the key it was given, a line is where it was
  last reported.
* Grants: roster, call logs, lists and filters of a lead tell one story, and taking
  a grant away never shows more.
* The rest: labels, listings, dashboard and live pages show what was there while
  they were put together; a fax keeps its first reader, a contact its numbers, a
  link its window, a message the status it was last reported with.

## Modules

| Module | Stands for | Runs | Proofs |
|---|---|---|---|
| `EventDelivery` | what the outbox promises, without workers, transactions or connections | as a property of `outbox_delivery` | `RefinesDelivery` (safety) |
| `Outbox` | requests, dispatch task, channel layer, consumers | `outbox_dispatch`, `outbox_delivery`, `outbox_retry` | `OutboxProofs` |
| `Messaging` | send, inbound webhook, conversation resolution, read positions | `messaging_threads`, `messaging_inbound`, `messaging_split`, `messaging_unread` | `MessagingProofs` |
| `TelephonySync` | extension webhooks next to assignment requests | `telephony_sync`, `telephony_stale` | `TelephonyProofs` |
| `Access` | assignments, access groups, grants; the resolvers, the roster, the lists and the filters | `access`, `access_empty` | `AccessProofs` |
| `Accounts` | users' rows, passwords, mails, boxes | `services` | `AccountsProofs` |
| `QRLogin` | QR tokens | `services` | `LinksProofs` |
| `Provisioning` | tenants and numbers from webhooks and admins | `services` | `RecordsProofs` |
| `MessageStatus` | delivery reports | `services` | `RecordsProofs` |
| `Labels` | the label cache | `services` | `PagesProofs` |
| `Dashboard` | scoping, fan-out and merge of call statistics | `services` | `PagesProofs` |
| `FaxTriage` | `FaxTag` rows | `services` | `RecordsProofs` |
| `Listings` | faxes fetched page by page, recordings merged | `services` | `PagesProofs` |
| `Contacts` | contacts and their numbers | `services` | `RecordsProofs` |
| `Downloads` | installer links | `services` | `LinksProofs` |
| `Presence` | registrations and live calls | `services` | `PagesProofs` |

The `MC` modules give the constants their values for TLC. `MCServices` holds eleven
modules at once: they share no table and no step of one reads a row of another, so
a constant chosen in the initial state (`focus`) says which of them moves and the
rest stand still. The run is the sum of eleven explorations, not their product, and
an interleaving of two of them could show nothing more. Some constants share model
values between modules (the requests of `Accounts`, `Contacts`, `Provisioning`,
`FaxTriage`, `Labels`); none of these modules tells two such values apart, so the
permutation of them is a symmetry of each.
 A definition whose comment starts with "Mutation of" or "Mutant" is a plausible
defect of the definition it names, or of the one that follows it; the specification never uses it. Each
property is shown to fail with one of them in place (`mutants` in `PROJECT.json`).

### Outbox

`phase` is a request's transaction, `status` and `created` are the columns of its
rows, `step`, `batch` and `event` are the local variables of one execution of
`dispatch_pending_outbox_events`, `conn` and `inbox` a WebSocket connection and
its Redis channel. `Emit` is one `OutboxEvent.objects.create`; `Tick` is the query
at `tasks.py:39-42` (one statement, so one step); `SendSucceeds`, `SendFails` and
`SendTimesOut` are the three outcomes of `group_send` (taken, not taken, taken
but the answer lost); `MarkDispatched` and `MarkFailed` are the two updates;
`Crash` is a killed process or a query that raises. A tick over an empty table
changes nothing and is left out. `Join`/`Accept` are the two awaits of `connect`,
with the identity and tenant checks folded into `Authorized`; `Expire` and the full
inbox in `Publish` are the channel layer's `expiry` and `capacity`.

`lost`, `pubs` and `redone` are history variables: no guard reads them.

Payloads, serialisation and logging are abstracted away. A batch is kept as a set
and taken in `created` order, which is what a sorted list gives.

### Messaging

A conversation is named by the request that created it. `phase` is where the
handler stands: `calling` (waiting for Telnyx, queued row inserted), `resolved`
and `inserted` (inbound), `stamped` (the time that will be `last_message_at` is
taken), `closing` (everything is written, the row locked), then `committed` or
`rolledback`. `Candidates` compares what is committed on digits only, as
`normalize_number` does. `Twins`, `Insert` and `InsertRaises` are the unique index
on `telnyx_message_id`: the second insert waits, then raises if the first
committed. `Touch` waits for the conversation's row lock. A send that Telnyx
refuses commits a failed row (the view returns a 502) and announces nothing. An
inbound webhook that is answered with a 500 is posted again (`Repost`, the
carrier). `met` records which requests were open together: a history variable.

Bounds: `MaxFaults` exceptions, and `MaxClock` on the instants at which a viewer
marks read.

### TelephonySync

A post is identified by its extension and its number in the provider's history of
it; `hook` is where its handler stands, `copy` the credentials it has in hand
(from the payload for `extension.created`, fetched for `extension.updated`), `seen`
the row it read. `Save` writes all of `Saved(p)`: the row as read, with new
credentials, which is what `ext.save()` without `update_fields` does; if the row has
been deleted meanwhile Django inserts it again. The assignment view is two
statements, so `AssignClear` and `AssignSet` are two steps with the row locks in
between (`held`). `told` is the version of the credentials the extension's user was
given or sent an event about. `granted`, `late`, `raced`, `missed` and `crossed` are
history variables that name the races the properties exclude.

Left out: tenant resolution (the tenant exists), partial payloads, the
`WebhookLog` row (nothing reads it), feature-flag and tenant refusals (they
change nothing), and assignment inside the user serializers (the same two
statements). A clash on
`extension_number` and a missing API key are among the exceptions of `Raise`.

### Access

The state is the tables: `holds` is `UserDID`, `work` is `UserDIDDivisionAssignment`,
`groups`, `entries` and `grants` the access groups, their entries and
`TLGroupAccess`. Each request is one action: no request depends on a row another one
may change under it.

The directory is what of lines and departments is another tenant's (`foreign`) and
which department a line is in. A line comes from the provider without one; the admin
site saves it with any tenant and any department (`SaveLine`), and a PATCH of a
department may give it another tenant while its lines stay (`MoveDepartment`): the
check that both are of one tenant is in a serializer that only reads use, so that
nothing in the model or the code keeps them together. `Abroad` bounds what may change
tenant. A line of another tenant in a granted department is on the roster, which
follows the department, and not in the call logs, which look up the department's
lines in the lead's tenant; `RosterIsVisible` excepts exactly that, and `ListsAgree`
a department of another tenant with a line of this one.

The resolvers are operators with the names of what they return: `Rows` and `Scope`
are `_tl_entries`, with the row of nulls that the outer join gives for an empty
group; `Selected` and `Matches` build the combined filter of
`resolve_tl_extensions`, the cross product of departments and the empty `Q()` that
matches everything included. Where the code returns `None` for "no restriction" the
operators give every id. `Roster` is the other reading of the same grants, entry by
entry, by `MyLogAccessRosterView`, and `RosterIsVisible` and `VisibleIsOnRoster` say
how far the two agree. `ListedUsers`, `ListedLines`, `ListedDepartments` and
`ListedDivisions` are the querysets of the list views, `UsersOf...`, `LinesOf...`
and `DivisionsOf...` their filters. `loose` is a history variable: the lines that are
worked after they were revoked, or without ever having been assigned.

### Accounts and QRLogin

A row of `account` has the columns the properties tell apart; a password and a
primary key are named by the request that made them. Each endpoint is an action
that reads the row and fills `job`: what it was asked, which columns it will save
(all of them for `instance.save()`, the named ones for `update_fields`), which mail
it queues. `Save` waits for the row's lock and for a unique address, `Commit` and
`Rollback` end the transaction. The mail is queued at the save, so `WelcomeArrives`
and `ResetArrives` may run before the commit; `MailFails` is an SMTP error that no
retry follows. The command has no transaction: `CommandSave`, `CommandMail` and
`CommandStops` (a crash) are steps of their own. `asked` is what the row would be if
each committed request had changed only what it was asked to.

`QRLogin` reads a token in one step and saves in another (`Read`/`Approve`,
`Poll`/`Mint`, `Drop`), `Raise` is the save of a row that is gone.

### Provisioning

`BeginPost` looks the tenant up by UUID, then by code (`TenantOf`); `TenantDefaults`
are the columns `update_or_create` is given, with the empty key when `exists()`
found no tenant; `Blocked` and `Duplicates` are the row locks and unique keys;
`CommitTenant` and `CommitLine` write the columns each kind of request saves.
`meantTenant` and `toldNumber` are what was meant, `restored`, `wiped` and `mixed` name
the exceptions. A provisioning that raises is swallowed by the view and answered
202: `PostRaises`.

### The smaller ones

* `MessageStatus`: a webhook reads the row (`FindText`) and saves four columns
  (`SaveStatus`); `NewStatus` is the cascade of conditions.
* `Labels`: a map is the set of changes it shows. A signal drops the map inside the
  transaction (`SaveNamed`), queryset updates drop nothing (`SaveSilently`), a reader
  builds it in one step (`Build`) and caches it in another (`Cache`).
* `Dashboard`: `Allowed` and `Requested` are the scoping and the choice of extensions,
  with the empty string an empty scope becomes; `FanOut` makes one call per section
  and extension, `Answer` is one of them succeeding or failing, `MergeSection` sums.
* `FaxTriage`: `GetOrCreate` and `SaveTag` are the two statements; `SavedTag` writes
  the columns in `update_fields`.
* `Listings`: rows are numbers, the provider pages them newest first, and rows come
  and go between two fetches. `hidden` are the recordings that
  `_is_logs_row_excluded` drops when they are asked for as logs, chosen with the
  request, for which alone they count: after the newest
  `FetchLimit` of each extension were fetched and before the page is cut (`Merged`).
  `GoesBack` says of an extension's fetch that it was not cut off, or that as many of
  the merged rows as the page needs are no older than its oldest.
* `Contacts`: `SaveContact` saves the row it read, which inserts it if it is gone;
  `ReplaceNumbers` drops the numbers it sees and adds its own.
* `Downloads`: `OpenLink` is the check, `MarkUsed` the mark.
* `Presence`: `ReadOnline` and `ReadLive` are the two upstream reads, either of which
  may fail; `BusyRows` looks up one field of a call, `CallsOfRows` all of them.

## What the checks show

| Run | Instance | States | Shows |
|---|---|---|---|
| `outbox_dispatch` | 2 requests, 3 events, 2 executions, batch of 2, 1 crash | 172,515 | `PublishedOnlyIfCommitted`, `DispatchedWasPublished`, `DuplicateOnlyByOverlapOrCrash`, `SettledInCreationOrder` |
| `outbox_delivery` | 1 request, 2 events for 2 groups, 2 executions, one connection let in and one not, channels of 1 message, 1 crash | 78,340 | `DeliveredAsAddressed`, `CommittedReachesConnected`, `ImplementsDelivery` |
| `messaging_threads` | 2 sends, 2 posts of one message, one group, 1 viewer, 1 exception | 1,183,770 | `InboundStoredOnce`, `SplitOnlyByRace`, `AnnouncedIffStored`, `UnreadMissedOnlyByRace` |
| `messaging_inbound` | 1 send, 3 posts (2 of one message, 1 for an unknown number), 2 exceptions | 280,585 | `StoredInItsThread`, `InboundEventuallyStored` |
| `telephony_sync` | an extension with 3 provider changes, one with 1, 2 users, 2 assignments, 1 fault | 744,838 | `MirrorsProvider`, `OwnerIsLastAssigned`, `OwnerHoldsCurrentSecret`, `OneExtensionPerUser` |
| `services` | each module with two or three requests on one or two rows: see below | 1,045,273 | sixteen properties, below |
| `access` | 1 lead, 1 caller, 2 lines, 2 departments, 2 divisions, 2 groups, 2 entries, 1 assignment; one line and one department may change tenant | 288,288 | `RosterIsVisible`, `VisibleIsOnRoster`, `ListsAgree`, `FiltersMeet`, `RemovingNarrows` |
| `access_empty` | 1 lead, 1 caller, 1 line, 1 department that may change tenant, 1 entry | | violates `EmptyGrantsShowNobody` |
| `outbox_retry` | as `outbox_delivery` | | violates `FailedIsRetried` |
| `messaging_split` | as `messaging_threads` | | violates `OneThreadPerGroup` |
| `messaging_unread` | as `messaging_threads` | | violates `UnreadWhenNewer` |
| `telephony_stale` | as `telephony_sync` | | violates `DeletedStaysDeleted` |

Why the bounds are enough. Every hazard of the outbox is about one row in two
executions, or about one execution whose batch leaves a row behind: two
executions, three rows and a batch of two produce each, the third row makes the
backlog larger than the batch, and the second request lets a row become visible
between two ticks. The races of messaging are between two requests to one
participant set; the two other transactions let a third one join either thread.
A sync race needs a created, a changed and a deleted post of one extension and
two assignments; the second extension is needed for a user to have two. One
fault is enough for the mirror to miss a post, and two let an inbound webhook fail
and fail again. In `services` every hazard is about one row and two requests; a
third is there where a request has to prepare the row first, and a second row where
a property relates two (boxes, two tenants of one code, lines of a merged page, two
calls of one fan-out). Four calls on one QR token allow two confirmations and two
polls. Three rows of one extension, of which the newest is left out of the
logs (`MaxBlocked`), are one more than a fetch of two brings. In `access` the cross product needs two departments with a line each and two
entries of different divisions; a filter that matches too much shows in one
assignment, and `MaxWork` and `MaxEntries` cap both tables. Symmetry is used for workers, posts of one message, users and
assignments, divisions, groups and requests; the action properties checked under it
(`ConsumedIsFinal`, `RemovingNarrows`) tell none of the permuted values apart.

Deadlock is not checked: requests, clients and crashes are bounded, and the system
may come to rest when they are used up.

What the sixteen properties of `services` say, by module:

* `Accounts`: `AccountAsAsked` (what was asked and committed is what the row has),
  `NoLockout` (the owner knows the password, or a mail with it is on its way),
  `TemporaryMustChange` (a mailed password has to be changed).
* `QRLogin`: `OneSessionPerToken`, `ConsumedIsFinal`.
* `Provisioning`: `TenantAsProvisioned`, `LineAsReported`.
* `MessageStatus`: `StatusAsReported`. `Labels`: `LabelsCurrent`. `Dashboard`:
  `DashboardInScope`. `FaxTriage`: `TriageAsAsked`. `Listings`: `FaxListingComplete`
  and `RecordingPageRight`. `Contacts`: `ContactUsable`. `Downloads`:
  `WindowFromFirstUse`. `Presence`: `PresenceTrue`.

Many of them end in "unless": the code reads, decides and writes without a lock, and
the exception names exactly the overlap that breaks the promise. What is left is
that nothing else does, a retry, a late answer or a failing step included.

The five violated properties are disagreements between the code and what its
documentation says of it:

* `FailedIsRetried`: `outbox/models.py:8` and `:168` and `outbox/tasks.py:9` speak
  of re-dispatching failed events; no query selects them.
* `OneThreadPerGroup`: `messaging/services.py:6-7`; two overlapping requests
  split a group. `SplitOnlyByRace` is what does hold.
* `UnreadWhenNewer`: `messaging/serializers.py:61`; two overlapping messages
  move `last_message_at` backwards. `UnreadMissedOnlyByRace` is what does hold.
* `DeletedStaysDeleted`: `webhooks/models.py:115`; the provider's timestamp is
  stored for stale-event detection and never compared. `MirrorsProvider` is what
  does hold.
* `EmptyGrantsShowNobody`: `common/tl_scoping.py:88-90` and `extensions/views.py:59-61`;
  a lead whose entries lead to no line gets an empty filter, which shows everyone.
  `VisibleIsOnRoster` is what does hold.

Two more have no run of their own, and a property with an exception instead.
`dids/models.py:135` says that the department of a line "must belong to the same
tenant", which no write checks; `RosterIsVisible` and `ListsAgree` name what a lead
then sees on one page and not on the other. `common/recording_views.py:21-22` calls
the fetch limit high enough for realistic page sizes, but the rows that logs leave out
use it up; `RecordingPageRight` names the pages that are right all the same.

## Fairness

* `Outbox`: some execution of the task starts whenever rows are pending (beat runs
  every 2 seconds), an execution goes on until it ends or dies, an accepted
  socket is served. Crashes, clients, requests, expiry: nothing is assumed. An
  operating system that never schedules a live worker is outside the model.
* `Messaging`: a handler that started goes on, and the carrier delivers a webhook
  and repeats it until it is answered with a 2xx. Sends and readers come when
  they like. The exceptions are bounded, so that a webhook is not refused for
  ever: with an unbounded number nothing could be promised.
* The modules of `services` and `Access` have safety properties only: each request
  ends by itself, and what has to happen in the end (a mail that is sent, a report
  that is repeated) is up to services the code does not retry.
* `TelephonySync` has safety properties only. `MirrorsProvider` speaks of states in
  which every post has been handled, in place of a liveness property.

## What is proved

Each theorem holds for every value of the constants that satisfies the module's
`ASSUME` (finitely many events for the outbox's batches, disjoint requests,
bounds that are natural numbers, and that the values that stand for "no row", "no
restriction" or "an error" are none of the rows and lists they are told apart from);
TLC evaluates the assumptions in every run. Together the theorems state every
invariant and action property that a passing run checks.

`OutboxProofs`. `DispatchInv` says that whatever an execution holds is visible and
that a sent row was published; it gives `PublishedCommitted` and
`DispatchedPublished`. `VisibleStays` (a committed row is not undone) is why it is
preserved by the steps of requests. `OnceInv` adds that a row published by an
undisturbed execution is no longer pending or is in the hands of that execution
only, which gives `AtMostOnceUndisturbed`. `OrderInv` says that while a row waits,
no later row of its request is in a batch that lacks it or was published; the
query's limit needs `OldestIsDownward`: the first n rows by creation contain every
row older than one of theirs. `AddressInv` says of what is queued for a connection
what the property says of what was delivered to it, which gives
`DeliveredToAddressees`. `RefinesDelivery` maps each step to a step or a
stutter of `EventDelivery`; a commit maps to `Store` of all its rows at once.

`MessagingProofs`. `LifeInv` ties the row, the thread and the stamp of a request to
its phase. `ThreadInv` says that a request's thread is its own or a committed one
with its line and participants: a transaction never joins a thread that may yet
be undone, so `MessagesInThreads` survives rollbacks. `OnceInv` says that of the
posts of one message at most one has a row, committed or not; an invariant about
committed rows alone is not inductive. `AnnounceInv` relates the outbox rows to
the status at each phase. `SplitInv` strengthens the split property to threads
that are not yet committed. `MetInv`, `StampInv` and `ReadInv` together say that
`last_message_at` is behind the stamp of a stored message only if a request in its
conversation was open with it; they give `UnreadByRace`.

`TelephonyProofs`. `CopyInv` bounds what a handler has in hand by what the provider
has made, which types the mirror. `OneExtension` is inductive by itself once the
unique constraint and the row locks are spelled out (`OneStep`). `OwnerInv` says
that a handler that is alone on its extension has read its present owner unless a
request reassigned it since; `RaceInv` supplies that two handlers at once make
the extension raced. They give `OwnerStays`. `SecretInv` adds that a row is there
only after a post of its extension was handled, so that a first post that finds a
row is a late one (`OwnerHoldsSecret`). For the mirror the provider's last post
decides: `BornInv` says that no post is skipped unrecorded, `MirrorInv` that once
the last one is handled the row is right and every handler still at work on the
extension has in hand what the provider has now (`MirrorsAtRest`).

`AccessProofs`. The lists are functions of the state, so `AccessInv` is short: rows
are typed, entries and grants are of groups that exist, a caller works assigned lines
only (but for `loose` ones). No theorem supposes that a line and its department are of
one tenant: both may be moved at any time. The theorems are about the operators: an entry
gives a row of the scope and a row of the scope that names something is an entry
(`RowOfEntry`, `RowIsOfEntry`), a selected pair comes from a row (`SelectedLeads`),
and fewer entries give fewer rows and lines (`FewerRows`, `FewerLines`), which gives
`RemovalsNarrow`.

`AccountsProofs`. A request writes back a row that it read earlier, with the
password in it, so what holds of the row of an account must hold of every row some
request may still put back: `Rows(u)` are all of them. `AccountInv` says of each
that its password was heard (`Heard`: the owner knows it, a letter with it is on
its way, the command is about to send one, or a letter was lost), and that a
made-up password comes with the mark that it must be changed, or was waived
(`Paired`). That no step makes a password unheard is a lemma of its own.
`JobOK` and `HoldsRow` say what a request at work has read and been asked, and that
the row it holds is locked, which `AsAsked` needs: when a request saves, the columns
it does not mean to set are those of the present row, or `lapped` and `crossed` name
the account. The three theorems `AccountIsAsAsked`, `NobodyIsLockedOut` and
`TemporaryIsChanged` are read off that one invariant.

`LinksProofs`. `QRInv` says what a call under way can have read and what its token
can have become since, and of every token without a clash what was told and handed
out at each status. `DownloadInv`: `first_used_at` is the hour of the first mark, for
every length of the window.

`RecordsProofs`. `ProvisionInv`: a post under way asks for well-formed columns
(`PostOK`), a tenant it found is never gone again, and `Provisioned` and
`LineReported` compare each row with what was meant, also while a lock is held
(`TenantIsAsProvisioned`, `LineIsAsReported`). `ContactInv`: at most one update of a
contact is between its save and its end (the row lock), the numbers it drops are then
those that are there, and no row is owned by a user who is gone; that gives
`ContactsAreUsable`. `FaxInv`: a call that found a fax asks to set some of its
columns, and since it saves those alone each column is the last that was wished
(`TriageIsAsAsked`). `StatusInv`: of a message whose reports came one by one, the row
is the last report's and the webhook at work has read it as it is.

`PagesProofs`. `LabelsInv`: what a cached map, or one that a reader holds, lacks of
the committed and the open changes was saved silently or across a build. `DashInv`:
once the fan-out is chosen it is what the viewer asked for and may see, and a section
that is shown adds up the calls that succeeded (`ScopeIsKept`; `FanIsScope` compares
the code's choice of extensions with the reference, case by case). `ListInv`: as long
as none was deleted, every fax is on a page fetched so far or ranks beyond them
(`NoneMissed`), and as long as none came, no page shares a row with another. Ranks are
counted, so these rest on lemmas about cardinalities: the n newest rows number at most
n (`TopAtMost`), exactly n if a row is left over (`TopIsFull`), a page followed by
another row is full (`PageIsFull`), hence a short page is the last (`LastPage`).
`RecordingPageIsRight` needs `MergeKeepsNewest`: less the rows left out, the F newest
of each line hold the N newest of all, since a row that was not fetched is older than
one whose fetch goes back as far as N merged rows. `PresenceInv`: what was read of live calls was true at some time since
the page was asked for.

Most of these properties are not inductive as they stand: `NoLockout` breaks on a row
that is put back after a reset, unless the rows that were read are in the invariant;
`ContactUsable` needs the lock and the numbers a save in flight will drop;
`FaxListingComplete` says nothing while pages are still fetched.

Only model-checked, because liveness is out of the prover's reach:
`CommittedReachesConnected`, `InboundEventuallyStored` and the fairness part of
`ImplementsDelivery`.

## Not modelled, and why

* Voicemail: a proxied list with read marks that only that list reads.
* Communications and billing: stateless proxies.
* Provider clients and secrets: HTTP and encryption; their outcomes are actions of
  the models.
* Webhook log: written by every webhook and read by one list. Its documented
  lifecycle (`webhooks/models.py:56-63`) has no code: no task processes or purges it.
* Audit log: no code writes it.
* `ResetPasswordView` needs a `PasswordResetToken`, and no code creates one.
* Configuration: its settings are the assumptions at the top of this file and
  actions of the modules.
* Rendering, permissions that only filter a list, migrations: no state of interest.
* The admin site, except for a line that is saved with another tenant or department
  and the tenants of `Provisioning`: it writes rows with no rule of their own.

Two hazards have a step in a model and no property, because the code promises
nothing about them: a text the carrier accepted in a transaction that then rolls
back, and a delivery report that is answered before its row is visible.

## Plan

1. Done: `Outbox` with `EventDelivery`; `Messaging`; `TelephonySync`; `Access`; the
   services; the proofs listed above.
2. Done: proofs of every safety property of the services.
3. The requests of `Messaging` as the requests of `Outbox`.
4. The assignment of extensions and lines inside one user update, next to the
   requests of `TelephonySync` and `Access`.
