# Infra-hub: specification and proofs

Infra-hub is a Django back end (the xadmin framework: users, roles, caches,
settings, notifications, background tasks) with one domain of its own, the
virtualisation centre `apps/virt_center`: it keeps a database copy of what
VMware vCenters manage. The copy is maintained by Celery tasks that run side by
side, retry, crash, and read vCenters that change under them; the framework
around it keeps a good part of its state in Redis, in the memory of its processes
and in pid files. This directory models that concurrent core in TLA+, checks it
with TLC and proves its safety properties and refinements with TLAPS. Paths below are relative to `src/`.

## 1. The system

### Components, their state and their operations

| component | state | operations | hard behaviour |
|---|---|---|---|
| host synchronisation (`virt_center/tasks.py` sync_hosts) | table virt_host | list, parse, upsert per host, deactivate what was not seen, retry | overlapping tasks, inventory changing meanwhile, partial failures, crash, unique keys |
| machines and templates (sync_vms, sync_templates) | tables virt_virtual_machine, virt_vm_template | as above, over one list split in two | two listings at different times, conversions |
| datastores (sync_datastores) | table virt_datastore and its hosts | as above, plus the many-to-many link | links resolved by name in a table that another task maintains |
| platform record | the row virt_platform and its credential | sync_platform_info, test_connection, PATCH, DELETE | three kinds of writers of one row, lost updates, a password that is converted at each passage |
| full synchronisation (sync_all_platform_data) | Celery queue, threads, results | publish a group, wait for it, announce | waiting inside a worker thread, timeout, late results, crash |
| platform signals and messages | subscriptions | completion, failure, status change | announced once, announced truthfully |
| permission and data caches (`common/base/magic.py`) | Redis keys with ready/ok entries, a lock | get or make, invalidate from model signals | stale write-back, waiting for a dead maker, transactions |
| configuration cache (`common/core/config.py`) | Redis keys, 30 days | get, edit, delete, invalidate | stale write-back, values inherited or rendered from other rows, rollback |
| system settings (`settings/`) | database, one copy per process | save, publish, subscribe, resubscribe | rollback after publishing, lost messages |
| login blocking, codes, tokens, captchas (`settings/utils/security.py`, `common/utils/`, `captcha/`) | counters, blocks, codes and tokens in Redis; captcha rows | count, block, verify and delete, unblock | read-modify-write, check-then-delete, Redis outside of the transaction |
| login and registration (`system/views/auth/`) | user rows | log in, reset, bind, register | two accounts with one contact |
| batch jobs (`common/tasks.py`) | a Redis list per job | split, push result, last one reports | exactly one report, failures, trimmed lists, expiring locks |
| deletion (`common/core/modelset.py`, all models) | 33 tables, files | destroy, batch destroy, with all that refers to a row | rows inserted meanwhile, foreign keys, protected rows, files gone before the commit |
| process management (`manage.py start, stop, restart`) | pid files, processes, the daemon | start, stop, restart, watch | no lock between commands, signal handlers, crashes |
| worker start, periodic tasks | PeriodicTask rows, flags | register, start, clean | several workers at once |
| the rest (edits of users and roles, notifications, websockets, import and export formats, settings modules) | mostly database rows or none | request handlers | see "Not modelled" |

Interactions: the views publish Celery tasks; `sync_all_platform_data` publishes
the five synchronisation tasks as a group and waits for them in its own thread;
all of them read the platform row and its credential, and write their own table;
machines and datastores refer to hosts by the *name* in virt_host, which only
`sync_hosts` maintains. Completion and failure are Django signals whose
receivers publish messages to subscribers. Users change platforms through the
generic view sets, inside one transaction per request (`ATOMIC_REQUESTS`), which an
APIException rolls back; the tasks commit every statement by itself. Redis takes
part in no transaction: what a request has written there stays when it is rolled back,
and is seen before it commits. Nothing locks a platform: two
synchronisations of the same one overlap freely.

### What makes each part correct

* tables: no two rows for one uuid or one name, none for a deleted platform, and
  after a synchronisation that read an unchanged inventory without a failure,
  exactly the inventory is active, whatever other tasks wrote meanwhile;
* the platform row: a background writer touches only its own columns, never
  undoes an edit, never brings a deleted platform back, and reports an outage;
* the full synchronisation: every request is answered once, success means that
  every subtask returned, and its threads are given back although jobs and
  subtasks compete for them;
* links: a link written while the host table knew the current name is right, that of a datastore
  until another one of its name is written over it;
* every task ends: the retries are bounded;
* caches and copies: what they hold is what the rows say, except in the races and for
  the reasons a property names one by one;
* sign-in: nobody is blocked without his failures, an undisturbed counter is exact, a
  code, token or captcha serves one request, a contact has one account;
* background imports: rows come after their parents, and the user gets one message, a
  true one, as long as no lock or list runs out under a task that collects the results;
* deletion: no dangling reference, an inventory goes as a whole and with its platform
  only, nobody loses his department, files go with their rows;
* processes: one per service, none after a stop of all, and a watched one comes back.

`PROJECT.json` lists the hazards at their lines, with the properties that watch
them.

## 2. Modules

| module | models | composed with |
|---|---|---|
| `HostSync` | sync_hosts, parse_host_info, sync_host_to_db, the constraints of virt_host, several platforms and tasks | `MCHostSync`, `HostSync_proofs` |
| `VmSync` | sync_vms and sync_templates on one list of machines and two tables, and sync_datastores | `MCVmSync`, `VmSync_proofs` |
| `HostLinks` | VirtualMachine.host and DataStore.hosts, written beside sync_hosts | `MCHostLinks`, `HostLinks_proofs` |
| `PlatformRow` | the row of a platform and the password of its credential, and their writers | `MCPlatformRow`, `HostLinks_proofs` |
| `SyncJobs` | sync_all_platform_data, its subtasks, threads and queue | `MCSyncJobs`, `SyncJobs_proofs`, implements `SyncOutcome` |
| `PermissionCache` | make_cache around get_user_permission, and the changes of permissions that delete an entry, or do not | `MCPermissionCache`, `PermissionCache_proofs` |
| `ConfigCache` | one key of the configuration cache, for the system and for a user | `MCConfigCache`, `PermissionCache_proofs` |
| `SettingsSync` | the settings: table, copies in the processes, Redis channel, forms | `MCSettingsSync`, `SyncJobs_proofs` |
| `SignIn` | logins, codes, resets, binds, registrations, with counters, blocks, tokens and captchas | `MCSignIn`, `SignIn_proofs` |
| `BatchJobs` | an import in the background, from the view to the message | `MCBatchJobs`, `BatchJobs_proofs`, implements `JobReport` |
| `Schema` | the tables: references in the database (migrations) and on_delete (models) | used by `MCDeletion` |
| `Deletion` | destroy and batch destroy over any schema | `MCDeletion` (with `Schema`), `Deletion_proofs` |
| `Services` | manage.py start, stop, restart; pid files, processes, the daemon | `MCServices`, `BatchJobs_proofs` |
| `JobReport` | what the user may expect of a background import | instantiated by `BatchJobs` |
| `SyncOutcome` | what a full synchronisation promises whoever requested it | instantiated by `SyncJobs` |

The `MC...` modules add symmetry sets and structured constants; the values of the constants are in the
`.cfg` files. A definition whose comment begins with "Mutant:" is a deliberately wrong
variant of the definition that follows it; no specification uses one. They
document which bug each property would catch.

### HostSync

`inv[p]` is what vCenter `p` manages, `hostRows` the table reduced to the columns
that matter: uuid and name (both unique in their way), platform, is_active.
`task[t]` holds a task's program counter and local variables: the
hosts still to do, the parsed item, the uuids collected for the exclude
list, the number of failures, the retries. `Begin` is the platform lookup, `List`
connects and lists, `ParseHost`, `ParseFails` and `HostVanished` are the three
ends of `parse_host_info` (the last one leaves the loop, because the handler
reads `host.name` from the vCenter once more), `WriteHost` and `WriteFails` the
`update_or_create` with the database's constraints, `MarkMissing` the
deactivation and the return. `ConnectionLost` and `Aborted` lead to `self.retry`;
`Crash` loses the task, as messages are acknowledged on receipt. `fresh` is a
history variable: the inventory is as the task listed it, no call of the task has
failed for a lost connection, and no task with an older listing wrote to the platform since. The atomic steps are the code's database statements and vCenter
calls.

### VmSync

The same loop for the kinds of task over one inventory, in which a machine may be
converted between machine and template. A task of one kind passes over
the entries of the other (`SkipOtherKind`), and keeps the uuids it parsed even if
their write fails. sync_datastores is the same loop over another list (`Listed`) and another key
(`Key`): a datastore's row is found by its name, so a renamed datastore gets a new row and
two of one name share theirs. Machines and datastores share neither list nor table, so a behaviour
has either (`Scopes`). One platform is enough: the keys are per platform, and
HostSync covers what a key over all platforms changes.

### HostLinks

Host names in the vCenter, in the rows of virt_host, and in parsed items that are
not yet written. `ParseVm`/`WriteVm` and `ParseStore`/`WriteStore` are separated, so names can change
between the two; the lookup takes inactive rows, as in the code. A datastore has a name of its
own (`storeName`), which need not be unique and may change (`StoreRenamed`); its row is found by that
name, so `shares` is a function of names, and `WriteStore` of one datastore overwrites the hosts of
another one with its name. `right` is history: the objects last written from names the table knew; for
datastores also those whose row nobody has written since. The retries of
the tasks are left to the two modules above: here the items come one after
another, for ever.

### PlatformRow

`row` is the row or `Gone`; status stands for all columns the synchronisation
owns, active and label for what the user edits. A task keeps the instance it
loaded (`copy`), a PATCH keeps the instance it will save whole. `save` with
`update_fields` on a row that is gone raises, `save` without inserts it again.
`secret` is the password text in the database under the current key. What
`EncryptedCharField` does to it on the way in (`Stored`) and out (`Loaded`), and
`get_vsphere_client` to what came out (`Opens`), is modelled by what these
conversions do to five classes of text.

### SyncJobs and SyncOutcome

A job takes a thread, publishes its subtasks at the end of the queue, and keeps the thread
while it waits in `result.get(timeout=600)`. `mayJoin` says which kind of pool
the worker runs: Celery may forbid waiting inside a task, in which case `get`
raises at once (`JoinRefused`); both kinds are checked. A subtask returns, returns a refusal (the platform was
disabled meanwhile), or raises and is retried. `SyncOutcome` is the
abstract view: a request is pending, then over, and announced at most once with
one of the two signals. `Outcome` in SyncJobs is the refinement mapping.

### PermissionCache

One key of the cache: one user and one HTTP method. `db` is the version of the
committed permissions, `entry` the Redis entry (unfinished, "ready", or finished,
"ok"), `lock` the Redis lock, `call[c]` one call of the wrapper: `Enter` is the
first read, `Poll` the end of the waiting, `Acquire` the lock, which a call takes also to
return what it has (`ReturnCached`), `MarkReady`, `Query`/`QueryFails`, `Publish`
and `Release` the making under the lock. `BeginEdit` stands for the receivers of
post_save and pre_delete of menus, roles, departments and users: the entry is
deleted inside the transaction of the request (`ATOMIC_REQUESTS`), before the
many-to-many rows are written, and `EndEdit` commits or rolls back. `Empower` is
the action that sets the roles of a user and saves nothing, hence sends no signal.
Queries see what is committed. An entry lives for a day (`GrowOld`: its
`c_time` is too old; `EntryExpires`: Redis drops it), and so does the lock of a
process that died (`LockExpires`); a call that lives makes its entry within the day. `raced` is
history: the data may be older than the permissions, because of an edit that
overlapped the reading or of one that sent no signal.

### ConfigCache

One key: the row and the entry of the system, and those of a user. `Look`, `Load` and
`Fill` are the three parts of `get_data` (Redis, database, Redis); `Plan` lists the
steps of each request in the order of the views, serializers and signal handlers, so that
an edit saves, drops the entry and reads it again before it commits. A user without an
active row gets an entry made from the system's data (`Inherited`); a value may be a
template, rendered from the rows of other keys (`EditOther`). `raced` is history:
the reasons for which an entry may be stale.

### SettingsSync

A process boots with the configuration file, reads the table (`Refresh`; a row
that cannot be decrypted ends the loop), then subscribes in another thread. A form is saved name
by name in one transaction; `Save` waits for the row's lock and publishes in
post_save, before `Commit` or `Undo`. `missed` is history: the names whose last
change the process was not told.

### SignIn

One request per member of `Request`, step by step: its pass (a token or captcha
of its own, or a shared one, which somebody made and which may run out),
the gate (`check_is_block`), its kind (password, send, login by code, reset, bind,
register), failures, and `Commit` or `Rollback`. Redis commands are steps of
their own, database writes wait in `rows` for the commit. `Mixes` bounds which
kinds of requests a behaviour combines. `mixed`, `shared` and `crossed` are history: the keys, passes
and contacts at which two requests really overlapped; the properties speak of the others. At the
start one code may be out, for one contact.

### BatchJobs and JobReport

`Sort` orders the rows of a model that refers to itself into one batch, `Split` cuts others; of no rows
there is no batch, and the request is over. `Send` publishes the batches. A task runs the view (`View`,
one transaction), and from there every Redis command is a step of its own: the push (`Push`), the
length (`Measure`) and the trim (`Trim`) outside of the lock; under it the two `cache.len()` (`Look`,
`Check`), `cache.get_all()` (`Take`), `cache.delete()` (`Drop`) and the message (`Publish`). Nothing but
the lock keeps two tasks from mixing these steps, and the lock runs out after 180 seconds
(`LockExpires`), its holder at the list or not. A dead worker, that lock, an expired list and a failing broker are the
faults. `disturbed` is history: the lock ran out under a task at the list, or the list was trimmed or
expired between a task's `len()` and its `get_all()`. An answer is "accepted" or "rejected";
with `ignore_error` an accepted batch is one without the rows that do not validate.

`JobReport` is the abstract view. Parts end; a message comes after all of them, and one that says
failure is right, always. Unless a task was disturbed there is one message at most, and it says success
exactly if every part was accepted.

### Schema and Deletion

`Schema` has two records per table: what refers to what according to the migrations, which the
database enforces, and on_delete according to the models, which only Django knows. `Deletion` is
parameterised by both: `Collect` is Django's collection, by queries, of what goes with
a row, `Delete` the statements and then the removal of the files, in the open
transaction, `Finish` its end. Rows inserted in between (`Insert`) stop the statements
through their foreign keys, except those of tables Django deletes by query (`FastDeleted`: tables to
which nothing refers that Django would have to follow, the tables of their own many-to-many fields included).
Both requests run over all 33 tables at once. What the argument needs of a schema and of the rows is
stated as `RowAssumption`, `SchemaAssumption` and `InventoryAssumption`, which TLC evaluates for
the tables of `Schema`.

### Services

A command of `manage.py` is a stack of frames: the phases it goes through, and on top of
them the handler of a SIGTERM, which runs wherever the daemon was. `Spawn` and `WritePid` are
separate steps, as are `StopService`, `Kill`, `Wait` and `Unlink`; commands share only
pid files and the processes. `raced` and `upset` are history. `raced` holds the services that
two commands worked on at once, or that a command was at work on when it was killed or when an exception of
its signal handler ended what it was interrupting (`Interrupted`); `upset` says that some command was killed or died of an exception.

## 3. What TLC checks

| run | instance | shows |
|---|---|---|
| `host_sync` | 2 platforms, 2 hosts, either of which both may manage, 1 name, 2 tasks, 1 retry, 1 change, 1 fault, fair | the inductive invariant HostSyncInv (types, no ambiguous lookup, no orphan rows), CleanSyncMirrors, RowsStayWithTheirPlatform, EverySyncEnds |
| `vm_overlap` | 2 machines or 2 datastores, 2 names, 2 tasks of any of their kinds, 1 retry, 1 change, 1 fault | VmSyncInv (types, unambiguous rows, no orphans), CleanSyncsPartition, ReadMachinesStayActive |
| `links_hold` | 2 hosts, 2 names, 2 machines, 2 datastores with 2 names that they may share, 6 changes | HostLinksInv, RightLinks, RightShares |
| `platform_row` | 1 sync, 1 test, 1 PATCH, 1 retry, 2 changes, 1 fault, fair | UserEditsSurviveSync, UnreachableIsReported, EverySyncEnds |
| `jobs` | 2 jobs of 2 subtasks on 2 threads, 1 retry, 1 change of the platform, 2 faults, fair | SyncJobsInv (types, the queue holds what waits, success only when all returned), AnnouncesOnce (refinement), EveryJobIsAnswered, EverySubtaskEnds |
| `permission_cache` | 3 calls, 2 changes (edits, empower, an old entry), 1 crash, fair | OneMaker, AnswersAreCurrent, CallsEnd and the inductive invariant PermissionCacheInv |
| `config_cache` | 1 key, 1 user, 2 requests repeated for ever, 3 rows of each, 2 renderings | EntriesAreCurrent |
| `settings_sync` | 1 process, 2 administrators, 2 settings of 2 values, 2 forms, 2 faults, fair | StaleOnlyIfMissed, EveryProcessConverges |
| `sign_in` | 3 requests of 5 mixes, 2 addresses, 1 account and 2 to come, 1 contact, limit 2, 2 codes, 1 expiry or unblocking | BlocksAreEarned, LoneFailuresAreCounted, PassesServeOnce, ContactsStayDistinct |
| `batch_jobs` | 3 rows with any parents, or 0 to 3 batches on a list of 2, 1 fault, fair | the inductive invariant BatchJobsInv (types, parents first, sound tasks and results, one task at the list), OneTrueReport (refinement; what it promises after a disturbance is less), EveryImportIsReported (except after a fault, for an import of no rows, and for one longer than the list), EveryBatchEnds |
| `deletion` | 33 tables, 1 or 2 rows each, 2 requests, 3 late rows | the inductive invariant DeletionInv (types, no dangling reference), FilesFollowRows, PlatformsAreWholes, MembersKeepTheirDepartment |
| `services` | 2 services, 2 commands, 6 pids, 1 restart by the watch, 1 fault, fair | OneProcessPerService, StopEndsAll, WatchedComesBack |

**Bounds.** `MaxMoves` bounds what the environment does (the inventory, the platform, the
credential), `MaxFaults` the failures and crashes, `MaxRetries` is the code's
`max_retries` (3), made small. The hazards here need at most two tasks, one of
them slower than the other, and one or two changes between their steps: two hosts
and two names are enough for a rename, a swap and a replacement, two jobs of two
subtasks on two threads for every thread to be occupied by a waiting job. One retry
reaches the boundary of the counter; the proofs cover every other value.
Three calls are a maker, one that waits for it and one that comes after an edit; each call happens once, as a
later call differs from it only in the cache it meets.
In `host_sync` one name is enough for a host to be replaced under its name and for two platforms
to claim one host; renames and swaps run in `vm_overlap` and `links_hold`, and the proofs of
HostSync cover any names. In `sign_in` three requests are two that fail and one that is
blocked or lifts the block, or a code sent, used twice, or used across a registration and a bind. In
`batch_jobs` the list is shorter than the longest import, so trimming happens, also between another
task's `len()` and `get_all()`, and the one fault may be the lock that runs out at any of the commands under it;
`links_hold` has two datastores because one cannot be overwritten by another of its name;
in `services` two commands are one that becomes the daemon and one that stops, restarts or
starts beside it, and `MaxRetry` 0 (3 in the code) still allows one restart,
as the comparison is `>`. In `settings_sync` processes do not influence each other, so one is enough. In `deletion` row
2 of a table refers to rows 2 of the others, and all was created by user 2.
In `platform_row` one sync is enough as the connection test is a second
writer of the same column.

**Symmetry** (hosts, names, tasks, ...) is used only in the runs without liveness
properties. **Deadlock** is checked in `config_cache`; elsewhere the system may stop, when every
platform has been deleted, every request has run or the bounds are used up and all is idle.

**Fairness.** `FairSpec` assumes weak fairness of the steps of each task, and nothing of
requests, the environment and faults: a worker thread keeps running what it took,
Celery delivers queued and retried messages, and `result.get` watches its clock.
In SyncJobs `Dispatch` is fair as one action: some free thread takes the *oldest* message.
In PermissionCache the steps of a call that has begun are fair, and Redis drops what has
expired; nobody has to call, to edit or to commit. The Redis lock keeps no queue:
weak fairness suffices because the calls are finitely many.
In SettingsSync a process is started again, subscribes again and handles its messages, and a
form that was sent is finished; in BatchJobs the request goes on, workers run the batches and Redis drops the lock of the dead; in
Services commands go on and a process that got SIGTERM ends.
`EveryJobIsAnswered` does not assume that subtasks get a thread;
the timeout has to provide it.

## 4. What is proved

`HostSync_proofs` proves, for any finite or infinite sets of platforms, hosts,
names and tasks and any bounds, with only the assumptions named in `HostSync`
(`BlankAssumption`: the blank uuid is no host; `BoundAssumption`: the bounds are natural numbers):

* `Invariance`: `Spec => []HostSyncInv`, the inductive invariant;
* `TypeCorrectness`, `LookupUnambiguous`, `NoOrphans`, `CleanSync`: the types, the two facts
  about the table that HostSyncInv contains, and `CleanSyncMirrors`.

The argument. `CleanSyncMirrors` is not inductive: it speaks of tasks that have
succeeded and says nothing of how they came to. `HostSyncInv` adds what holds
on the way there. For a task that is fresh, the hosts it listed are exactly those it has
still to do, is parsing, has written or has counted as failed; the item it is about
to write is what the inventory says; and each host it has written and not failed is an active
row with its current name. That last part has to survive the writes of all other tasks, so the
invariant says of *every* fresh task what it may write, and of a stale one that
its writing ends the freshness of the others. The
constraints of the table (unique uuid, unique name per platform, foreign key) are
the other half: they make the write of one task unable to remove or duplicate the
row of another. The proof has one lemma or step per action, and under it one step per
conjunct the action can disturb; `PTL` closes the theorems.

`PermissionCache_proofs` proves, for any set of callers and any bounds, with the
assumptions named in the module (the bounds are natural numbers; the values for
"nobody", "dead", "failed" and "no entry" are none of the values they are told apart from):

* `Invariance`: `Spec => []PermissionCacheInv`;
* `TypeCorrectness`, `OneAtATime`, `CurrentAnswers`, `UnfinishedHasMaker`.

The argument. `AnswersAreCurrent` compares what a call has read with the version at its start,
and says nothing of the entry it was read from. The invariant follows the data on
their way: what a call has made, and then the entry, without an edit in its history is
exactly what is committed, and no edit is open (`MadeCurrent`, `EntryCurrent`). An edit that begins
deletes the entry and marks what is being made; an edit that ends was open
before, which excludes both. Hence the data are current when a call reads them
(`ReadCurrent`), and versions only grow. `OwnsLock` is the mutual exclusion, and
`Committed` bounds the versions by the edits begun.

`HostSync_proofs` also proves `RowsStay` (`RowsStayWithTheirPlatform`): a row leaves `hostRows` only
for one with its uuid and platform, or with its platform.

`VmSync_proofs` proves `Invariance`, `CleanSyncs` (`CleanSyncsPartition`) and the action property `ReadStayActive`
(`ReadMachinesStayActive`), for any machines, datastores, names and tasks; `KindsAssumption` says
that a machine is no datastore. The argument is that of HostSync, for each kind of
entry: a fresh task knows of every object of its kind or has it still to look at, and what it looked at
and did not fail on is active, or about to be. New are the passing of a machine from one table to the other, and
datastores, found by names that may be shared (`RowsAreUnambiguous` is by key).

`HostLinks_proofs` proves `Invariance` (`HostLinksInv`), `LinksAreRight` (`RightLinks`) and `SharesAreRight`
(`RightShares`). A link is resolved by name, so it is right when the name finds one row, the right one: the
invariant says that no two rows share a name (`LookupIsUnambiguous`: the
database refuses the write that would make them) and that the hosts that mount a datastore are there. For the row of
a datastore the argument needs that no other datastore of the name was written since, which is what
`right` remembers: without it `RightShares` is false as soon as two datastores share a name.

`SyncJobs_proofs` proves `Invariance` (`SyncJobsInv`: what is queued is exactly what waits, a thread has one
task, and a job that announced success had every subtask return) and `Refinement`: the initial states
map to initial states of `SyncOutcome` and every step to a step of it or to a stutter, job by job, so
`AnnouncesOnce` holds for any jobs, subtasks, threads and bounds. The simulation uses the invariant: a job that is not over has
announced nothing, and one that completes has nothing running.

The second half of `SyncJobs_proofs` proves `SettingsInvariance` (`SettingsInv`) and `NothingStale`
(`StaleOnlyIfMissed`) of SettingsSync, for any processes,
names, values and forms. What a process will hold of a name is a property of its copy and of all messages
it has yet to handle (`Settles`); the lemmas say what handling, publishing and rereading the table
do to it. The messages are those of the channel in its order, and `missed` is what they leave out.

The second half of `HostLinks_proofs` proves of PlatformRow, for any bounds, the types (`PlatformRowTypes`: a task
that runs has loaded the row, none counts more than MaxRetries retries) and the action property `UserEditsSurvive`
(`UserEditsSurviveSync`). The latter is about the instance a task loaded: it saves only columns of its own, under
`update_fields`, on the row as it is at that moment.

The second half of `PermissionCache_proofs` proves `CurrentEntries` (`EntriesAreCurrent`) of ConfigCache, for any users,
requests, rows, values and defaults. The property speaks of the entries that history does not excuse (`Claimed`) and of keys that nobody is editing. The invariant says the same of what a reader has
loaded and is about to fill in (`HeldIsCurrent`), and of an editor: once it has dropped the entry, whatever is there is made from the row
it is going to commit (`EntriesFollowEdits`). One request at a time has written a row (`OneWriter`), and one that fills an entry while
another edits its key is in `raced` (`HeldIsUnedited`).

`BatchJobs_proofs` proves, for any finite set of rows with any references, any number of batches, any `max_size` and any faults:

* `SortsOrRefuses`: `topological_sort` puts every row once and after its parent, or leaves rows out, and then
  some refer to each other in a circle. The rounds of its loop are a recursive function; that the function exists and
  that order and queue keep their invariant is shown by a least counterexample (`WFMin` on the natural numbers),
  for the library's induction is out of the provers' reach;
* `BatchesAreSound`: `Spec => []BatchJobsInv`, the inductive invariant. Beside the types and the order it has two parts.
  `SoundTasks`, `SoundResults` and `SoundFinal` hold whatever happens: the list has at most one result of a task, each of
  them true, a task trims only when it saw the list longer than `max_size`, and who has counted a full list, or sent a message, comes
  after all pushes, because different results are as many as the batches. `OneFinal` is what the lock is for, and holds until
  something disturbs a task at the list: only the holder is between `Look` and `Drop`, one task at most goes beyond `Check`,
  what it reads are the results of all, and from `Drop` on the list stays empty;
* `ReportsOnceAndTruly` (`OneTrueReport`): the initial states map to initial states of `JobReport`, and every step of the request,
  the tasks, the broker and Redis to a step of it or to a stutter. `Sort`, `Split`, the end of a view,
  a part that is lost, `Publish`, and whatever disturbs a task (`Trim`, `LockExpires`, `ListExpires`) are the steps the user could
  see; all others leave the abstract import as it is.

The second half of `BatchJobs_proofs` proves of Services `ServicesInvariance` (`ServicesInv`) and `OneProcessEach`
(`OneProcessPerService`), for any services, commands, lists, pids and bounds. The invariant says of a service outside of `raced` that
one command at most has a frame at work on it, and, by the state of this frame, where the one process
can be: a process without a pid file is the one just spawned by the frame that is about to write its pid, and a
frame that is about to spawn or to remove the file has seen that none is running (`SoundFor`). Handlers make this harder: the frames of one
command may be at work on different services, and only the lowest one is no handler's (`SoundStack`). The
invariant was checked by TLC on the instance of `services` first.

`SignIn_proofs` proves `Invariance` (`SignInInv`), `PassesServe` (`PassesServeOnce`), `ContactsDiffer`
(`ContactsStayDistinct`), `BlocksEarned` (`BlocksAreEarned`) and `LoneFailures` (`LoneFailuresAreCounted`),
for any finite sets of requests and accounts (`SignInAssumption`). The invariant has four parts that do not need each other, over
the types and the places requests can be in: a pass that was read once is held or gone
(`PassesAreSpent`); a contact is held by an account, or by requests that would give it, which overlap (`ContactsAreHeld`);
a counter is no more than the failures (`CountsAreEarned`); the counter of a key on which requests came one by one
is exact (`LoneRequests`). Each action disturbs one or two of them; frame lemmas dispose of the rest. The lock of the registration is
used nowhere in the proof. `SettingsInv` and `SignInInv` are the strengthenings only;
TLC checked them on the instances of `settings_sync` and `sign_in`, and SignInInv with a second contact, before they were proved.

`Deletion_proofs` proves, for any rows, tables and rules that meet the three assumptions named above, any requests
and any late rows: `Invariance` (`DeletionInv`), `FilesAndRows` (`FilesFollowRows`), and the action properties
`WholePlatforms` (`PlatformsAreWholes`) and `MembersStay` (`MembersKeepTheirDepartment`). `NoDanglingReference`
speaks of committed rows; the invariant adds that what an open transaction has deleted includes all that
refers to it by CASCADE or PROTECT (`TransactionsAreApart`), which is what the check of the foreign keys makes true and the locks keep
true. `ReferencesStay`: columns with these rules are never written, so a row's platform is the one it was
inserted with. `PlatformsGoFirst`: with a row of the inventory a request deletes its platform. This one rests on what
`Collected`, a recursive function over sets of rows, computes: `CollectedIs` shows that the recursion defines a function (the intersection
of all closed sets solves its equation) and `CollectedCloses`, by induction over the rows not yet
collected, that it is the least closed set. The induction theorems of the library cannot be used by
the provers; the proof takes a largest counterexample instead (`LargestSet`, from `WFMin` on the natural numbers).

The models and the proofs changed each other in three places. `Init` of SignIn let one code be out for
two contacts, which refutes PassesServeOnce once there are two; `send` makes a code for one contact, and Init now
says so. The proof of `DeletionInv` showed which facts about the schema it needs, now assumptions.
`OneProcessPerService` was false with three commands: a step of the proof that would not go through, the handler's exception on
top of a restart, became a counterexample of 32 states in TLC (section 5); `raced` now names this case.

**How four of the models are hosted.** PlatformRow, ConfigCache, SettingsSync and Services are proved in the module of
another component, as `P`, `C`, `F` and `V == INSTANCE ...`: their names clash with those of the module
extended there. Their constants are declared anew, and renamed in
the `WITH` where a name clashes; only SettingsSync shares one with its host, `MaxFaults`, of which both assume that it is a natural
number. The named assumptions of the instance are hypotheses of its theorems, and TLC evaluates them for the
instances of the runs.

**Model-checked only.** Liveness under fairness (`EverySyncEnds`, `EveryJobIsAnswered`, `EverySubtaskEnds`,
`CallsEnd`, `EveryProcessConverges`, `EveryImportIsReported`, `EveryBatchEnds`, `StopEndsAll`, `WatchedComesBack`,
`UnreachableIsReported`) and everything about ENABLED: out of the prover's reach.
Every other property of the runs (invariants, action properties and the two refinements) is a theorem.

## 5. What the models brought to light

Each of these follows from the code; the properties of the runs are stated so that they
separate it from everything else, or leave it out where it is said so.

Synchronisation:

* The deactivation "marks hosts that no longer exist" (`tasks.py:185`), but its exclude list
  holds only what was parsed: one unreadable property makes the row of a present
  host inactive (180-183; the same in 268, 346 and 428).
* Hosts are "found or created by UUID" (`sync_data.py:76`), but (platform, name) is unique too
  and rows of vanished hosts stay: a host replaced under its name is never
  recorded, at no later sync, and the syncs succeed.
* `serializers/platform.py:46` declares status, totals and version read-only, but the update
  saves all columns of the instance it loaded (`modelset.py:524`): a PATCH that overlaps a sync or a test
  writes them back to what they were.
* `docs/virt-center-guide.md:55` creates a credential with the plain password and connects. It is
  decrypted when the row is loaded (`fields/encrypted.py:24`) and once more by `get_vsphere_client`
  (`vsphere_client.py:309`), which raises.
* `tasks.py:500` announces a completed synchronisation, also when every subtask
  refused to run because the platform was disabled meanwhile (491: results are not looked at).
* A synchronisation that listed the hosts before a new one was added deactivates
  the row that a faster one has already written (`tasks.py:185`, the same shape in all four tasks).
* Two machines with the same name in different folders: the second is refused by
  (platform, name) at every sync, which still succeeds (`models/vm.py`).
* A machine of a replaced host is linked to the old row that owns the name
  (`sync_data.py:136`), and a datastore that no host mounts any more keeps its
  hosts (`sync_data.py:233`).
* Datastores of one name in two datacenters share a row, as the key is (platform, name)
  (`sync_data.py:204`): the hosts of the row are those of the one that was written last (233), and so is what
  RightShares promises. An accessible datastore is recorded as read-only, one that is not as read-write
  (`data_parser.py:379`; seen while reading, no run is about that column).
* `platform_status_changed` is sent at every retry, from error to error
  (`tasks.py:118`), and never when a platform recovers or when test_connection changes the status.
* `get_vsphere_client` runs before the `try` that marks the platform
  (`tasks.py:62`): a credential that cannot be opened leaves the status as it was.
* `sync_all_platforms` (`tasks.py:533`) is registered as periodic but is no shared
  task: beat's message names an unregistered task, and `.delay()` in `views/sync.py` raises.
* `auto_sync_platform_on_created` (`signal_handlers.py:22`) looks for a credential that
  cannot exist yet when the platform is created.
* `empower` (`system/utils/modelset.py:47`) with roles and no rules deletes no cached
  permissions: the user keeps the old ones for up to a day.
* A query that overlaps an edit writes the old permissions back after the signal
  deleted them, also for a day (`common/base/magic.py:204`, `system/signal_handler.py:59`).
* A failing query is cached as the empty text (`magic.py:189`), on which `get_menu_pk`
  calls `.get`: the requests of the user with this method fail until the entry goes.
* A call that polls an unfinished entry which is then deleted polls until another call
  makes it again (`magic.py:174`): `CallsEnd` excepts this case.
* `invalid_user_cache_signal` with `user_pk="*"` (`settings/serializers/basic.py:57`) deletes
  nothing: `invalid_caches` calls `delete_many`, which knows no patterns.
* `docs/virt-center-guide.md:87` calls a task `sync_platform_data` that does not exist.

Settings and configuration:

* A process that was reconnecting, or was between reading the table and subscribing, keeps the
  old value of a setting until its next change (`connection.py:115`, `settings/signal_handlers.py:44`); a rolled-back form leaves its values in the processes (32); a row
  that cannot be decrypted leaves the rows after it unread (`settings/models.py:52`).
* A configuration entry filled by a read that overlapped an edit is stale for 30 days
  (`config.py:133`); so is a user's entry inherited from the system's row (124), and one rendered from the rows of other
  keys, which the comment in line 7 leaves to the user of the class.
* `UserPersonalConfigCache.get_default_data` (228) ignores the caller's default; a
  caller's default is cached for all callers. `get_render_value` for a user renders from the rows of all users
  (86). A PATCH of a row with access=False looks for one with access=True and violates the
  unique key.

Sign-in:

* Simultaneous failures count as one, and a code or token that two requests read before either deletes
  it serves both (`security.py:50`, `verify_code.py:57`, `token.py:42`).
* A failed login is never in the login log: it is saved in the transaction that the APIException rolls
  back (`auth.py`). For the same reason it gives its captcha back, but not its token.
* A login by code lifts the block of the user name and leaves the counters of other addresses:
  the next failure there blocks again.
* The lock of the registration ends before the commit (`register.py:84`): the unique user name, not the lock,
  prevents the second account. A bind takes no lock: two binds, or a bind and a registration, can give
  one contact to two accounts, after which a login by code finds two rows and fails.

Batch jobs and deletion:

* An import whose batch dies, or of more batches than `max_size` (1024), need not be reported (`common/tasks.py:169`,
  `cache/redis.py:57`).
* The commands of `common/tasks.py:174-176` are exclusive only as long as the lock lasts. When it runs out (180 seconds) between
  one task's `len()` and its `get_all()`, another one takes the list, deletes it and sends the message; the
  first then reads the same results, or none, and sends a second message. As `all([])` is true, the one made of none says that
  the import succeeded, also when batches were rejected. One fault is enough: TLC refutes "one message" in 23 states and
  "success means that all were accepted" in 13, when JobReport does not except `disturbed`. With more batches than `max_size`
  a trim between another task's `len()` and `get_all()` makes a false success without any fault.
* An import of no rows has no batch: the view answers "Task add success" (`modelset.py:88-97`) and no message ever comes.
* With `ignore_error` a batch whose rows were all skipped answers 1000 (`modelset.py:590`, `598-603`) and counts as successful.
* Files are removed before the commit (`core/models.py:53`): when the transaction is rolled back, the row is back without its
  file. A batch deletion that was rolled back still answers with its count, and
  `Menu.delete` returns nothing.

Process management:

* Two commands at work on one service can leave a process without a pid file, or remove
  the pid file of a process the watch has just started; a stop of a single service is undone by the watch.
* One command is enough for the former: when the daemon has restarted a service and has not yet written its pid, and a SIGTERM makes its handler stop
  a service that ends between `is_running` and `os.kill` (`base.py:140`), the ProcessLookupError leaves `clean_up` (`utils.py:84`)
  and ends the restart below it. The next start makes a second process.
* `os.kill` on a pid that is gone ends the command with an exception; if the pid file went in between, the signal goes
  to pid 0, the command's own process group (`base.py:140`).
* The retry counter never goes back and is compared with `>` (`base.py:181`): the watch gives up after `max_retry + 1` restarts in the
  daemon's whole life. A stale server.pid makes `start -d` end without a watch. A restart
  stops the services before it checks that they can start.

## 6. Not modelled, and why

* Parsing details of vSphere objects (columns no property tells apart), texts of messages and logs, import and
  export formats, captcha images: data conversion without shared state.
* The cache of whole responses has the races of PermissionCache without its lock.
* Edits of users, roles, menus and departments go through the generic update, whose effect on a
  row shared with other writers is shown once, in PlatformRow. The row filters of data permissions are
  translations into SQL.
* In SignIn: black and white lists and the exact count that blocks an address, edits of contacts by administrators,
  the ten seconds after which Redis drops the registration's lock, JWT and logout.
* In Services: `--force`, the foreground mode, pids used again after a reboot. In ConfigCache and PermissionCache:
  keys other than the one modelled. In BatchJobs: contents of rows, hence which of them `ignore_error` skips.
* `auto_clean_tmp_file` (`system/utils/ctasks.py:30`) deletes uploads that stayed temporary for a day, with their files, one by one and outside
  of a request's transaction; Deletion has the requests only.
* Start tasks run once per worker when workers start together (`common/signal_handlers.py:38`), and a limit
  of calls lets one more through (`magic.py:121`): the first are idempotent, the second is sequential.
* Notifications, websockets, file uploads, settings modules: I/O of backends and libraries.

The database is assumed to enforce its constraints at each statement, under READ COMMITTED (Django's
default for MySQL, which is the default `DB_ENGINE`); a request is one transaction. On PostgreSQL, which the compose file ships,
Django's foreign keys are deferred: a late row then fails the COMMIT instead of the statement. The committed rows are the
same, but the files of what was deleted are already gone, which is the loss Deletion shows for any other rollback.

## 7. Plan

Done: the modules of section 2, their runs, and a theorem for every safety property and refinement that a run checks.
What a reader might add, in this order:

1. several keys of the configuration in one model, to follow a rendered value from row to row (here `EditOther`);
2. notifications and websocket messages, once they keep state of their own;
3. the liveness properties, when the provers can treat ENABLED.
