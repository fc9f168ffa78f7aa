# Verification of the vCenter network tester

TLA+ models of `nettest`, a program that creates virtual machines in a vCenter, lets them probe each
other over the networks of a data centre, and destroys them again.  The modules here are translated
from the source under `src/`, checked by TLC on small instances, and, for the properties that matter
most, proved with TLAPS for every value of the constants.

## 1. Inventory

The program is a FastAPI server (`src/web_app.py`, `src/nettest/`) with an Angular client
(`src/ui`), a command line (`src/nettest_runner.py`) and a probe in Rust that runs in the test VMs
(`src/probe`).  Each request runs in a thread of a pool; each test run has a thread of its own; the
state they share is one SQLite file, one dictionary of running runs, and vCenter itself.  The client
is one page with tabs, hosted by the server or, as a plug-in, in a frame of the vSphere client.

| component | state | operations | what is hard | what makes it correct |
|---|---|---|---|---|
| run worker (`api/routes_run.py` `_worker`, `runner.py`, `provisioning.py`) | in-memory registry, instances, verdict, cancel event | start, cancel, phases, provision, register, check, `cleanup_vms`, prune, delete ISOs, finish | failure at any call, cancel at check points, registration long after creation | objects it has registered are never forgotten; a reported run has registered everything; a failed run keeps its VMs |
| registry (`db.py`) | tables `runs`, `created_objects` | upsert, set status, mark cleaned, finish, delete | written by worker and handlers, no transaction spans a read and a write | lists every live registered VM |
| clean-up endpoints (`routes_run.py`, `routes_history.py`) | locals of a request | clean up one run, clean up all, delete from history | read, minutes of vCenter calls, write back | the answer and the shown state are true |
| run stream (`routes_run.py`, log handlers in `runner.py`) | a queue per run | put lines, stream, sentinel, cancel | readers left behind by a broken connection, refused runs, colliding ids | every stream ends and carries the run's lines, whatever else is logged |
| probe servers (`serial_probe.py`, `vsock_probe.py`) | a thread per VM, ready events, results | wait, two-phase handshake, collect, join, answer | barrier between threads, timeouts, late results | no VM probes before its peers are configured; an answer within a time that the timeouts add up to, about every VM where they allow it |
| run-test page (`run-test.component.ts`) | log, indicator, result, event source | start, cancel, stream | awaits before state is set, a stream that reconnects | shows the state of the run it started |
| sign-on (`plugin-context.service.ts`, `api.service.ts`) | session, clone ticket, host, token | load and poll the SDK, messages, wait | a session that comes late or never | nobody waits for ever |
| input-networks page (`input-networks.component.ts`) | rows, inventory, lists of portgroups | load, import, sync, edit, save | answers in any order over edited rows, greedy matching | user rows survive a sync, each once; syncing twice is syncing once where VLANs differ |
| history page (`history.component.ts`), result panel (`result-panel.component.ts`) | list, spinners, drawer, matrices, export | load, clean up, delete, select, export | answers in any order, one slot per spinner, an axis order shared with the server | what is shown is what the server has, every case is seen |
| testsuite, custom-step, configuration pages | copies of what the server stores | edit, save as a whole, upload | replacement of everything by a stale copy | one edit changes one thing |
| guestinfo probing (`ovf_deploy.py`, `ovf/netprobe.start`) | keys of a VM's extraConfig | write, wait for status, poll | stale values, polling | a result belongs to the probe it was asked for |
| policy and checks (`policy.py`, `probe.py`, `runner.py`) | locals of a run: cases, attempt, results | cases, phases, batches, checks, merging, retries, report | keys that collide or differ, batch limits, clusters that results lack | no case and no result lost, a pass deserved, phases that fit |
| placement, input, inventory, plug-in, CLI, images | none of their own | searches, parsing, I/O | | not modelled, see section 7 |

They interact so: `POST /api/run` inserts a row and starts a worker.  The worker creates VMs and
ISO files in vCenter, collects the probes of a subnet through one of the probe servers, and calls
`on_vm_created` for each VM, which appends it to the in-memory registry and writes that whole
registry over the row in `created_objects`.  Its log goes through a handler on the package's logger
into a queue, from which the event stream of the run-test page takes it.  The clean-up endpoints read
the row, delete in vCenter what it lists, and write the remainder back; nothing prevents them from
doing so while the worker runs.  The history endpoint deletes both rows.  Nothing is recovered when
the server restarts.  The pages of the client keep copies of what the server stores and send them
back as a whole.

The hazards are listed, each with its line, in `PROJECT.json`.

## 2. Plan

Done, in this order: the core (`CreatedObjects`, `RunWorker`, `CleanupApi`, `RunLifecycle`); the barrier
and the probe servers with the refinement; the stream with the run-test page; sign-on and the
input-networks page; history and the settings pages; what a run tests and reports, with the result
panel (`TestCases`, `ResultPanel`, `TestRun`).  Of each of these the safety properties that the runs check are proved.

Left:

1. The accept loop of the vsock server with VMs that reconnect.
2. `GuestinfoHandshake`: keys in vCenter, server and boot script, with the stale status.

## 3. Modules and how they correspond to the code

### Runs and clean-ups

`CreatedObjects` is the shared state: `inventory` (VMs in vCenter), `datastore` (ISO files), `runrow`
(`runs.status`) and `objrow` (rows of `created_objects`).  Every function of `db.py` is one SQLite
transaction, and one operator: `UpsertCreatedObjects` replaces the lists and leaves the flag,
`SetCleanupStatus` the reverse.  `DeriveCleanupState`, `ShownCleanupState` and `DeleteIsos` are
the code shared by handlers, history and worker.

`RunWorker` is the thread of a run.  `pc` says where it is:

| `pc` | code |
|---|---|
| `init` | `_prepare_run_inputs`, connecting, probe servers |
| `phase` | head of the loop of `_run_phased_testing` |
| `cluster` | per-cluster loop of `provision_test_vms`: seed VM or ISO |
| `create` | VM loop of a subnet, and the probes collected after it |
| `register`, `seeds` | records and `on_vm_created` for the VMs of the subnet, then for the seeds |
| `test` | `run_icmp_checks`, all attempts of a classic run |
| `cleanup`, `cancelclean` | `cleanup_vms` after the checks, after a cancel |
| `iso` | `_cleanup_uploaded_isos` |
| `finish`, `mark` | the two transactions of `finish_run` |
| `error`, `rc` | `error_cb`, the `finally` clause |
| `rejected`, `lost` | the request was refused after the row was inserted; the server died |

`mem` is `created_registry`; `fresh`, `seeds`, `inst`, `allInst` are the lists through which a VM goes
until it is cleaned up; `todo`, `failedVms`, `cleaned` are `cleanup_vms`.  `created`, `registered`,
`destroyed` and `uploaded` are history variables.  The tests themselves are a verdict chosen freely.

`CleanupApi` has one record per request thread, `request[h]`, with the locals of the handler.  A step
is a database transaction or a call to vCenter, so that anything may happen in between.

`RunLifecycle` interleaves them, with restarts of the server, and states the properties.  `Quiesced`
distinguishes two worlds: with TRUE clean-up and deletion are only asked for runs that have ended,
and no run is started while a cleanup-all works; with FALSE a request may come at any time, which is
what the server allows.

A few things are chosen freely because the code does not determine them: whether a call to vCenter
fails, whether a task that failed or timed out took effect all the same, which VM of the run a
look-up by name finds, and whether a look-up of a VM that is gone raises.

Simplifications: VM prefixes are distinct and none is the beginning of another, and `business` stands
for any other name; `nics` and `tags` are never filled; SQLite itself does not fail; each run has
its own id (two runs in one second are in `RunStream`); the overall answer
of cleanup-all is not modelled, only what it does to rows.  A run of custom steps
(`api_start_custom_steps_run`) has the same worker and creates no VM: it is a run that goes from
`init` to `test`.  What the tests are and what becomes of their results is `TestRun`'s.  The command line calls the same `execute_run` without a database and is not
modelled.

### Streams and the run-test page

`RunStream` has, for each call of the start endpoint, a worker's lines (`worker`, `rcode`), and under
each run id the queue with what is left in it, who writes to it and who reads from it.  All handlers are
on one logger, so that `WriteLine` puts a line into the queues of all runs at work, and so does every
request that logs: a cancel (`CancelAtServer`), or one for the inventory (`LogAtServer`), whose lines
are `Notice`s.  A handler counts as on the logger while its worker is `Active`; the worker logs
nothing before or after.  A reader takes an item, or
after a second without one looks at the return code, and leaves when the run has gone; a reader whose
connection broke is still in the executor and takes one more item (`GhostTakes`).  Two requests in
one second have the same id and hence one queue.

`RunPage` is `run-test.component.ts`: `startRun` is split at its `await` (`ClickStart`, `Resume`,
`StartAnswered`), the event source at its events (`Connect`, `Receive`, `Drop`, `ConnectionError`).
Requests are answered in any order.

### Input networks and sign-on

`ClientAuth` is `plugin-context.service.ts`: search for the SDK, poll it, take a session or else a
clone ticket from it, take one from a message of the parent window, wait for one.  `NetworkMerge` is
the matching of rows with the inventory as pure operators: keys tried in turn, each row used once,
fields of the user kept.  An inventory is the list of the portgroups in the order in which the loops of
the code visit them.  The loop that takes rows off the table is a matching, a function from rows of the
inventory to numbers of rows of the table, each value being the best of those its predecessors have left;
there is exactly one.  `NetworksPage` composes both with the requests of the page.

### History and results

`TestCases` is `policy.py` and the parts of the runner and of `probe.py` that make cases, results and
merged results: `GenerateTestCases`, `BuildCustomCases`, `GeneratePhasedCases` with `BatchPhase`, `RunChecks` in
three modes, `MergeRetryResults`, `SelectRetryCases`.  Subnets, clusters and VRFs are numbers, since only
their order matters; this takes it that the page's `localeCompare` and the server's comparison put the names
in the same order.  Sorting by a key is an arrangement by an order (`Arranged`, `Sorted` of `Sublists`), which says
what a stable sort returns.  A key is a tuple of what the code joins in it.

`TestRun` is what a run does with them, from `_prepare_run_inputs` to the report.  `config` is the request and the
input, and never changes; `pc` is `attempts` (the loop of `_run_classic_testing`), `phases` (that of
`_run_phased_testing`), `done`, or `refused` (a suite that selects nothing); `attempt`, `current`, `phases` and
`results` are the locals of these loops, and `last` is a history variable.  What the probes find is any
function of what they are asked about (`Findings`): of a gateway and a probe, or of a VM and its target,
which may also be missing from what the VM reported.  `Report` is `_build_result_payload`, with the clusters it fills in, and the
rewriting of UDP steps after it.  VMs are created for every row, so that a VM is missing only where a
custom rule names no row.

`ResultPanel` computes from a result, with `processResult`, the axis, the phases and the cells of each matrix.
`HistoryPage` has the list, the requests of clean-up, removal and selection, and the panel
in the drawer with its export; a clean-up at the server is two steps, what is between them being
`CleanupApi`'s matter.

### Settings

`SuiteEditor`, `RulesPage` and `ConfigPage` model a page each and the endpoints it calls.
`SettingsPages` lets the user choose a tab at the beginning and work on it.  The pages share neither
variables nor requests nor tables, so that their interleavings are products of what each does alone.
On the page of the configuration the paths of the OVF and of the ISO file are entries of their own,
which an upload sets and the user may type over (`EditConfig`).

### Probe servers

`SubnetProbe` is `run_subnet_probe` of both servers (`server` says which, `sync` whether in two
phases).  A thread per VM goes through `pc`: `start` (serial only), `connect`, `hello` (serial only),
`ready` and, on a vsock, `peers` (both in two phases only), `done`, `close`, `ended`.  `until` is when the
call times out in which the thread waits, `lineBy` the deadline of the line it reads.  These differ: both
`recv` loops look at the deadline only when a piece of the line has come (`HearsPiece`), and then wait
for the next with the timeout of the socket, so that a line may take twice its time; and in the serial
server's wait for a hello the deadline is the grace period, the timeout the whole I/O timeout.  Sending
a line takes no time.  The caller
joins the threads one after the other, the vsock server each with the whole budget, the serial server
with what is left of one, and answers.  `SyncBarrier` is what the two-phase handshake is for: a VM is
configuring, ready, probing, done or failed, and goes on to probing only when nobody is configuring.
`Barrier` in `SubnetProbe` instantiates it, `phase` being a function of `pc`, `results` and `failed`,
and `waits` being true of the vsock server with `sync`.

### Lists

`Sublists` has what the pages and the server do with lists that lose elements or are ordered by
number: `Kept` is `Array.filter`, `InOrder` a set of numbers sorted, `Sorted` a sequence sorted by a key.  They are written as functions of the
position, since nothing could be proved about the recursive `SelectSeq` and `SortSeq`; `SublistProofs` says
which elements they keep and that they keep their order.

Operators whose comment begins with "Faulty" are used by no action.  They are slips the code could
contain; put in place of the operator they resemble, they make the property fail that is meant to
notice them (`mutants` in `PROJECT.json`).

## 4. What the runs check

Model values name VMs, ISO files, runs, threads and names; VMs of one prefix are symmetric
(never in a liveness run).  Deadlock is checked in `Cleanups` and `Concurrent`, which
shows that a worker always has a next step until it ends; a page, and a call of a probe server, may
really come to rest.

| run | instance | shows |
|---|---|---|
| `Cleanups` | 1 run of 8 kinds (phased or not, `cleanup_on_failure` or not, OVF or memory boot), up to 2 phases, 2 VMs and a foreign one, 2 prefixes, 1 ISO, careful operators, cancel, delete, restart; 2 request threads | `RegistryCoversLive`: no live registered VM drops out of its row, in any interleaving of two clean-ups. `ShownCleanMeansGone`: what the history shows as cleaned has no registered VM left. `ForeignVmsSurvive`. `CleanupAnswerIsTrue` |
| `Concurrent` | runs of 4 kinds (phased, cleaning up on failure, memory boot with a UDP rule, dry), a pre-staged ISO, clean-up, cancel, delete and restart at any time | `TypeOK`; `OutcomesAgree`: the stored status is an error if and only if the return code is one, and without a UDP rule 0 is PASS and 1 is FAIL; `MemoryCoversLive`, `ReportedRunRegisteredAll`, `RetainedForTroubleshooting` hold whatever the requests do |
| `RunPage` | 2 starts, 1 line of log each, one disturbance (a cancel, a broken connection, a restart, a refusal, a collision or a request that logs); or 1 start, 3 lines, up to 3 cancels and requests that log; fairness | undisturbed, the page shows a run while there is one, the verdict and the result of the last and its log, its lines once each and in order, between them only `Notice`s; Cancel hits the run it was pressed for. Disturbed or not, an open stream is closed in the end (`StreamsEnd`) |
| `NetworksPage` | 1 place, 2 portgroups, 2 VLANs, tables of up to 2 rows, 4 inventories (none, one portgroup without a VLAN, two with VLANs of their own, two with the same), 1 edit; fairness | `SyncKeepsUserRows`: after a sync each row is there once; `SyncIsIdempotent`; `ListsAreCurrent` in every order of answers; `SyncEnds` though no session comes |
| `HistoryPage` | 2 runs, one to a page, 3 results, 3 clicks | spinners, states, drawer and styles are right in every order of answers |
| `SettingsPages` | 2 cases, 2 suites, 2 rules, 2 paths for either file, 1 password, 3 clicks | `ShownSuitesAreStored`, `OneSuiteChanges`, `NoRuleIsLost`, `UploadIsKept` |
| `SubnetProbe` | both servers, 3 VMs, both modes, timeouts of 5 and 2 units, a grace period of 1; fairness | `AnswerInTime`; `AnswerIsComplete`: the serial server answers about every VM, however late its threads are, and VMs the answer of the vsock server leaves out are no more than whole budgets of a join fit into the time of a thread; `ThreadsEnd`; `ImplementsBarrier`: the server's behaviours are those of `SyncBarrier` |
| `TestRun` | 13 runs of 3 rows in which subnets, clusters and VRFs come in every order: attempts with rules, suites and up to 2 retries, phases in one batch and in several, all modes | `LastIsKept`: each case that was run has a result, that of its last check. `PassIsDeserved`: PASS says that every planned case was run and passed. `PhasesFit`: phases respect the limit where a subnet is one row, and test nothing twice. `CasesAreSeenOnce`: what is reported of two rows is in one cell of one matrix |

Four runs show a disagreement of the code with what is said of it; TLC finds a short counterexample
in each:

* `RegistryRace`: a clean-up during a run reads the row, deletes for minutes, and writes its copy
  back over what the worker has registered since.  `RegistryCoversLive`, which `Cleanups` and the
  theorem establish for ended runs, fails.
* `UdpVerdict`: a run with a UDP rule whose checks pass returns 0, then `_worker` rewrites the result to FAIL;
  `runner.py:932` says "0=PASS, 1=FAIL" (`CodeIsTheVerdict`).  Without a UDP rule they agree (`OutcomesAgree`).
* `SerialBarrier`: the serial server, with `sync`, sends a VM its targets as soon as that VM is ready.
  Its docstring promises that all have finished their configuration by then.
* `Batching`: where the subnets of a phase exceed a batch, cases between subnets of two batches are in none
  and are not run; nothing reports it, and the run may pass (`NoCaseIsDropped`).  Within one batch it holds
  (`NothingDropped`, section 5).

More properties are stated in the modules, do not hold, and are not among the runs; given as an
INVARIANT (or, where they speak of steps, as a PROPERTY) in place of a run's own, TLC finds the counterexample at once:

* `FailedAreRetried` (`TestRun`): cases to retry are found by a key with the reason, but the reason of a result
  says how it was checked and that of a case why it is tested (`policy.py:368`).  With any retry mode but `all`,
  and the default is another, no case is run a second time.
* `VmsFit` (`TestRun`): batches are sized by subnets, VMs created by rows (`runner.py:399`); a subnet in two
  clusters has twice the VMs.  `policy.py:159` says that live VMs "never" exceed the limit.
* `SeenOnceInPhases` (`TestRun`): results of phases checked from the controller have no clusters, and the report has an
  index of unphased cases only to look them up in (`runner.py:686`).  The panel puts endpoints without a
  cluster where they come first, so that a case may lie below the diagonal and is not shown.
* `ClustersAreReported` (`TestRun`): results of the controller are reported with the clusters of whatever case was
  last with the same subnets, or with none, while `runner.py:705` says that results carry them.
* `SavedRowsAreStored` (`NetworksPage`): the input-networks page sends `_id` and `_pgOptions` with each row, which the
  endpoint, taking rows of strings, refuses.  Whatever table is not empty cannot be saved.
* `PasswordIsSentOnce` (`SettingsPages`): after the password was exchanged for a session, the configuration is
  sent with it; `routes_config.py:44` says that it is not.
* `EveryCreatedVmTracked` (`Concurrent`): a VM is registered only after its whole subnet has been
  probed, a seed VM after every subnet; a failure or cancel before leaves VMs that no registry lists
  (cleanup-all finds them by prefix).  `provisioning.py:351` documents the callback as "called
  immediately after each VM is created".
* `PreStagedIsosStay` (`Concurrent`): a path the operator gave is registered like an upload and
  deleted at the end; `memboot.py:84` says of it that the operator pre-staged it.
* `FailedRunKeepsVms` (`Concurrent`): a UDP rule turns the result to FAIL after a passing run has
  destroyed its VMs.
* `GraceIsShort` (`SubnetProbe`): a VM on a serial port that sends no hello is waited for until the socket times
  out, not for the grace period; `serial_probe.py:123` says that the timeout of one call overrides that of
  the socket.
* `AuthorityIsSent` (`NetworksPage`): a plug-in with a clone ticket and no session considers itself
  authorised and sends neither; the comment at `plugin-context.service.ts:13` says that the
  server uses the ticket.

Nor does `SyncIsIdempotent` hold without its condition `Separate`.  The matching is greedy and tries the VLAN
before the portgroup: where a table has a row of portgroup `b` with another VLAN, and the inventory has `a`
and `b` with one VLAN, the first sync matches `a` with that row for its place and adds a row for
`b`; on the second sync `a` takes the row added, and `b` the user's row, whose VLAN it overwrites.

### Bounds

*Runs and clean-ups.*  Two VMs are the least with which one can be destroyed and another kept, one be
registered and another not yet, or one be the seed of the other; the properties speak of one VM at a
time, so that a third adds an uninvolved one.  One ISO is enough since entries are handled one by one.
Two phases make one that follows another.  Two handlers suffice for a race between them.  `MaxPhases`,
`Vms`, `Events`, `ErrorCodes` and two constraints on actions are the only bounds; a run that has used up the VMs
can still raise.  In `Concurrent`, `OneVmBesideIso` lets a memory-boot run create one VM.  In `Cleanups`,
`SecondForOvf` lets two requests overlap where the run is a classic one that deploys an OVF and stays in the
history, and where both use its prefix: there all of its VMs are deleted by either.

*Pages.*  Two starts are what it takes to confuse one run with another.  `FewLinesAndUpsets`, a constraint on
clicks, lines of log and disturbances, keeps them to one line each, so that a line may be before, between or after
those of the other run, and to one disturbance; once the page is disturbed, only one of the runs has a line, for
of such pages only `StreamsEnd` speaks, to which it is one item before the sentinel.  A single undisturbed start has
three lines, which is what it takes for an order with something in the middle, and three cancels or requests that
log, so that a `Notice` may come before, between and after them.  In `NetworksPage` two rows and two portgroups are what the greedy matching needs to
take the wrong one; `MaxEdits` is one, since loads, imports and syncs change the rows besides.
`AuthWhenItMatters` is a constraint on actions: the search for a session is interleaved only with a
sync that waits for one, for it touches nothing else.  Three clicks (`MaxClicks`) let a page send a
request, change something and send another.  `BlindPolls` and `SdkPolls` cut the number of polls.

*Test runs.*  Three rows are the least in which a case of one pair of rows can precede or follow another of
the same subnets, and in which two subnets are in one batch and a third in another; `Alternating` has VRFs so
that batches of one phase are not those of another.  Two retries merge a result that has been merged before.
The instances are `Configs`, and there is no other bound: a run ends by itself.

*Probe servers.*  Three VMs are the least for which the order of the joins and of the waits for peers
can leave a thread behind two others.  Time is in units and passes only when no thread can go on.  On
the vsock the timeouts are 5 and 2 units, so that, with `sync`, a thread may take 13 (`ThreadLimit`) where a
join waits for 8: there one VM can be left out of the answer, and never two.  The serial server's threads share nothing
but `abort` and wait for nobody, so that two that take their time suffice (`ThirdIsQuick`: the third
thread comes to its end before any time passes); the grace period is 1, and a thread may take far longer than the
one budget of 8.  `MaxTime` is the longest that a thread takes.  `SerialBarrier` has two VMs and a connect timeout
of 1.

### Fairness

`RunPage!FairSpec` assumes weak fairness of the next step of each worker and reader: every
wait has a timeout (`wait_for_task`, `delete_vm`, the probe servers, sockets), and a thread is not
suspended for ever.  It also assumes that requests are
answered and the browser reconnects an event source that it has not closed.  `NetworksPage!FairSpec`
assumes that a timer fires and that the inventory is answered or refused.  `SubnetProbe!FairSpec`
assumes that time passes, that threads go on, and that they give up a wait that has timed out.  Nothing is assumed of users or VMs: no click,
no connection and no answer of a VM need ever come, and no restart need ever happen.

### Abstractions of the pages

* `StreamsEnd` excepts two requests in one second: if the second is refused, the record under their
  id belongs to no thread, and its stream never ends.
* The properties of `RunPage`, `HistoryPage` and the settings pages say "calm": no connection broke
  and no two requests overlapped that write the same thing.  What is not calm is in the model
  and TLC goes through it; it is there that the code promises nothing (for instance a suite
  saved while the table is loaded is overwritten by the older table).
* "Calm" leaves out these hazards of section 1: two runs at work at once, whose logs mix; starts
  that overlap; the answer for a run that comes after another was selected; two pages that save the same
  table, or a save between the read and the write of an upload.
* Colours, tool tips, wording, the export as HTML and clearing the log are left out.

### Abstractions of test runs

* The branch of `in-guest` checks for a run without a vCenter (`probe.py:305`), which passes every case, is
  not among the modes; it differs from the mode `dry-run` in the reason and the clusters of results only.
* The cache of gateways (`GatewayOf`) does not have the TCP ports of a custom rule: two rules that test one
  gateway on different ports find the same.  Rules have phases of their own, hence results with keys of
  their own, so that no property relates the two.
* A run in phases does not run the custom rules that were sent with it (`_run_phased_testing` makes its cases
  from the rows alone); `Planned` leaves them out, and `PassIsDeserved` says nothing of them.
* `maxRetries` is a natural number.  The endpoint accepts -1 too, with which `_run_classic_testing` makes no
  attempt, has no result that failed, and the run passes.
* `LastIsKept` asks that each case have the result of its last check; an older result that has another
  reason, hence another key, may stay beside it.

## 5. What is proved

Every theorem holds for all values of the constants that satisfy the named assumptions of the modules
(`ASSUME` in each), which TLC evaluates in the runs.  They say no more than the code does or than the
bounds of the models need:

* `ObjectsAssumption`: there is a run and a prefix, and foreign VMs carry no prefix of ours.
  `WorkerAssumption`, `LifecycleAssumption`: requests, error codes and events are of their kinds.
* `ProbeAssumption`: the servers are those two, there is a VM, waiting for an answer takes some time and no less
  than the grace period, and the caller waits for more than nothing beyond both timeouts (30 seconds in the code).
* `ConfigsAssumption`: the runs that may be started have rows with names, rules and options of their types, and
  a run with a suite is not in phases (the server sees to it).
* `RunStreamAssumption`, `RunPageAssumption`: starts are numbered from 1, and there are finitely many.
* `HistoryAssumption`, `SettingsAssumption` and those of the settings pages: runs are numbers, `None` and
  the like are nothing else, and what is stored at first is of its type.
* `NetworkMergeAssumption`, `NetworksAssumption`, `ClientAuthAssumption`: the blank field is no name, tables
  and files hold rows without ids, and an inventory is a sequence of portgroups of places.

Each theorem follows from an inductive invariant, which TLC checked as an invariant of a run before it was
proved, and which has a lemma for each action or group of like actions.

### Runs and clean-ups

Runs, VMs, ISO files, prefixes and handlers may be any sets, finite or not.

* `LifecycleProofs!TypeCorrect`: `Spec => []TypeOK`.
* `LifecycleProofs!MemoryCorrect`: `Spec => []MemoryCoversLive`.  Not inductive: pruning takes `inst`
  minus `failedVms` off the registry, so one has to know that a member of `inst` that is neither
  still to visit nor failed is gone (`CleanedAreGone`), that VMs of a run stay its own and that it
  only handles VMs it created (`Own`; without it, another run's creation could bring a
  VM back).  `MemoryInv` is the conjunction of these with the goal, per run.
* `LifecycleProofs!ReportCorrect`: `Spec => []ReportedRunRegisteredAll`.  The strengthening,
  `NothingForgotten`, says of every `pc` that a VM created is registered or still in `fresh` or `seeds`,
  and that these are empty from the checks on.
* `LifecycleProofs!OutcomesCorrect`: `Spec => []OutcomesAgree`.  `OutcomeInv`: the return code is published
  last, and from the moment the status is stored the code the worker holds agrees with it.
* `LifecycleProofs!RetainedCorrect`: `Spec => []RetainedForTroubleshooting`.  `RetainInv` says for which
  requests, on which path, none of the VMs of the last checks has been destroyed so far.
* `LifecycleProofs!RegistryCorrect`: `Quiesced => (Spec => []RegistryCoversLive)`.  This is the theorem
  about which `RegistryRace` shows that its hypothesis is needed.  `RowCovers` says that the row of a
  running worker is its in-memory registry, and that of an ended run covers its live VMs;
  `HandlerCovers` says for every `pc` of a handler what its stale copy still covers: of the VMs
  it has read, those no longer in `todo` are in `failed` or gone, so that what it writes back covers
  what lives.  Any number of handlers may interleave, each ending with an error anywhere.
* `LifecycleProofs!ShownCleanCorrect`: `Quiesced => (Spec => []ShownCleanMeansGone)`, and
  `LifecycleProofs!CleanupAnswerCorrect`: `Quiesced => (Spec => CleanupAnswerIsTrue)`, an action property.
  `ShownInv` adds to the above what a row claims (`ClaimsTrue`: only an ended run, or a dry one, is
  shown as clean) and what a handler is about to claim (`HandlerTrue`: where it is about to mark a row, all
  that lives of the run is in its copy).
* `LifecycleProofs!ForeignCorrect`: `Spec => []ForeignVmsSurvive`.  Every VM the worker may destroy was
  created by a run (`MemoryInv`), and a handler only destroys VMs with its prefix.

### Probe servers

For every number of VMs and every value of the timeouts.

* `ProbeProofs!ProbeTypes`: `Spec => []TypeOK` of `SubnetProbe`.
* `ProbeProofs!ProbeImplementsBarrier`: `Spec => ImplementsBarrier`.  Each step of a thread is a step of
  the barrier or none.  A thread of the vsock server visits the events of its peers in order, so that
  the strengthening, `BarrierInv`, says that all before the one it waits for are ready; and that
  whoever has an event set is past its configuration or has failed.
* `ProbeProofs!BarrierHolds`: `NoneEarly` of `SyncBarrier`, for any set of VMs: where VMs wait, nobody
  is probing while somebody is configuring.  With the refinement it gives `ProbeProofs!VsockConfiguresFirst`:
  `AllConfiguredFirst` holds of the vsock server, and the run `SerialBarrier` shows that it does not of
  the serial one.
* `ProbeProofs!ProbeAnswersInTime`: `Spec => []AnswerInTime`: the vsock server answers in less than the connect
  timeout and two I/O timeouts for each line, the serial server within its one budget.  `TimeInv` bounds the
  deadline and the timeout of each step of a thread by what the steps up to it may take (`Early`): the vsock
  server gives each join a whole budget, but all threads have ended by `ThreadLimit`.
* `ProbeProofs!ProbeAnswerIsComplete`: `Spec => []AnswerIsComplete`: the serial server's answer has all VMs; that
  of the vsock server leaves out only so many that their budgets together are less than the time
  of a thread.  `AnswerInv` says that a thread which has ended has entered a result or an error, and that
  each VM passed over (`Missing`) has cost a whole budget: their number times `Budget`, and another, is
  at most the time until which the caller waits now.

### Run-test page

For every finite number of starts, any number of lines, and any disturbances.

* `RunPageProofs!RunPageTyped`: `Spec => []TypeOK`, by `TypeInv`, which also says that starts are counted
  without gaps (`Counted`), that the worker of an answered start has an id (`Threads`), that a stream has
  one, and a reader while it is open (`Source`), and that a page which holds a run has gone through a
  start (`Answered`).
* `NothingUnseen`, `VerdictOfRun`, `LogComplete`, `CancelHits`: `NothingRunsUnseen`, `VerdictIsTheRuns`,
  `LogIsComplete` and `CancelHitsShownRun` hold of `Spec`.  All rest on `CalmInv`, which says of a page
  that is still calm: everything under the id of a run is its own (`Own`); a start has come as far as
  its worker (`InStep`); a run at work is watched, and log and queue together are what it has written, in
  order, among lines of other requests (`Watched`, `Transcript`); a start that is not over is the last and nothing else is under way
  (`Newest`); the open stream, the run the page holds, the result asked for and the verdict are those of the
  start that went out last (`Followed`, `Held`, `Asked`, `Judged`); and a cancel on its way is for the run it was
  pressed for or comes after its end (`Meant`).

### History page

For every finite set of runs, any results, page size and number of clicks.

* `HistoryProofs!PageTyped`, `NoSpinner`, `StylesAreRestored`, `ResultOfSelected`, `ShownStateServers`: `TypeOK`,
  `NoSpinnerForNothing`, `StylesRestored`, `ResultIsOfSelected` and `ShownStateIsServers` hold of `Spec`.
  `PageInv` has, beside the types, a conjunct for each: `Slots` (a slot that is taken has its request out),
  `Exports` (there is one export at a time, and the style it will restore is that of the screen),
  `CalmDrawer` (one result is asked for and it is that of the row selected) and `CalmList` (each row shows
  what the server has, or an answer that will make it so is on its way and still finds the row).

### Test runs

For rows, rules, suites, links, limits and findings of any kind and number.

* `TestRunProofs!Types`, `LastKept`, `PassDeserved`, `Fit`: `TypeOK`, `LastIsKept`, `PassIsDeserved` and `PhasesFit` hold of
  `Spec`.  They are conjuncts or consequences of `Inv`, whose others are: no two results have one key
  (`KeysAreUnique`); every result is one of a case that was run (`ResultsAreKnown`); in attempts, the
  cases of an attempt are all or none, and all have been run from the second on (`UnphasedInv`); in phases, what
  has been run and what is still to come make up the plan, no two phases test the same, and only a failure leaves phases
  out (`PhasedInv`).  That a merge loses nothing is `MergeFacts`, which says of any two lists of results what the merged
  one has.  It is not enough: a newer result may have the key of an older one of another case, and then must
  agree with it.  In one list of checks this is so because results with one key were checked by one
  probe (`RunChecksFacts`), and between lists because a list has either every case that was run before or none with
  the subnets and phase of one.  `PassIsDeserved` needs of the report that it has every result, failed where
  that failed (`Reports`).
* `TestRunProofs!SeenInOneCell`: `Spec => []CasesAreSeenOnce`.  The invariant is strengthened by what results of the controller
  lack (`ResultsAreBare`), so that the report fills in the clusters of a case with their subnets: what is
  reported of two rows is between endpoints which the server has paired (`OutcomeOfPair`), which is the
  assumption under which `SeenOnce` shows of any result that each case has one cell.  There, `PolicySort` and `PanelSort` give one order; a
  case goes from an earlier row to a later one of another subnet; the axis has the endpoints of rows in their order,
  each once, before any other (`Distinct` keeps what comes first); so the source is left of the
  destination, both are a row and a column of the matrix of the case's phase, and no other matrix has
  the phase.
* `TestRunProofs!NothingDropped`: where no run in phases has more subnets than a phase may have VMs,
  `Spec => []NoCaseIsDropped`; this is the boundary of what `Batching` refutes.  A list of cases has at most as many
  subnets as the rows (`SubnetsFound`, and an injection into them), so one batch holds them and all of the
  cases (`AllInOneBatch`); a pair of an enabled kind is then in a phase (`PairsInPhases`), thus planned,
  and `PassIsDeserved` says that it was run.

What `Arranged`, `Sorted` and `Distinct` promise is proved once in `SublistProofs`, the first two for any
order that is total on the elements.

### Settings pages

* `SettingsProofs!PagesTyped`, `FilteredCurrent`, `ShownSuitesStored`, `UploadKept`: `TypeOK`,
  `FilteredIsCurrent`, `ShownSuitesAreStored` and `UploadIsKept` hold of `Spec`; `OneSuiteChanged` and `NoRuleLost`
  are the action properties `OneSuiteChanges` and `NoRuleIsLost`.  `CalmSuites` says that at
  most one request about suites is out, that before it is served the page shows what is stored and the request
  differs from it in one suite at most, and that afterwards it carries what is stored.
  `CalmConfig` says that saves and uploads do not overlap, and that every path uploaded last and not typed
  over is on the page, in a save on its way, in what an upload has read, and in what is stored.  `RulesInv` says that rows of rules have ids of their own, and that a rule that is
  stored is in the save that is out and on the page, or was dropped by the user.

### Input-networks page

For any places, portgroups, tables, files and inventories, of any length.

* `NetworksProofs!PageTyped`, `ListsCurrent`: `TypeOK` and `ListsAreCurrent` hold of `Spec`.  `PageInv` adds that
  ids are below the next one and belong to one row each (`OwnIds`).
* `NetworksProofs!UserRowsKept`: `Spec => SyncKeepsUserRows`.  First, that there is a matching at all
  (`MatchingExists`): otherwise there would be a first number of rows of the inventory without one, and
  the matching of one row less could be extended.  Then, that in a matching no row is used twice and none
  at another place (`MatchingFacts`), so that a row of the table is either merged once or among the
  others (`MergeKeepsRows`), and that preparing rows keeps ids.
* `NetworksProofs!SyncIdempotent`: `Spec => []SyncIsIdempotent`, with the condition `Separate`.  `BestIsOwn`
  is the core: on the second sync each row of the inventory finds what it was merged into the first time.
  What a row has of its own row of the inventory matches no other (`NoKeyWon`), and what it had before did
  not match better the first time, when the same rows were free; and what matched its own row still does
  (`KeyStays`).

The lemmas about `Kept` and `InOrder` in `SublistProofs` (which elements they keep, in which order, each once) are
those that the pages share.

## 6. What is only model-checked

* `StreamsEnd`, `SyncEnds` and `ThreadsEnd` are liveness properties under fairness, likewise
  beyond the prover.
* The properties that the violation runs refute; of them `NoCaseIsDropped` is proved where one batch suffices
  (`NothingDropped`).

On the other hand `TypeOK` of `SettingsPages` and of `TestRun`, and `FilteredIsCurrent`, are proved and in no run.

## 7. What is not modelled

Not yet, see the plan: guestinfo, reconnections of VMs.  Not at
all: vCenter inventory and plug-in endpoints (reads of vCenter, pure I/O), placement and input parsing
(sequential, without state), allocation of addresses and ports, expiry of sessions, VRF rules,
in-guest system calls, build scripts and packaging, the compiled bundle in `src/static`, which is
generated from `src/ui`.
