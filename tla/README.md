# A TLA+ model of omihomo

omihomo is a root daemon that hosts the mihomo proxy engine, a panel widget and
a command line that talk to it over a unix socket. The specifications here are
of the daemon (what it runs, stores and tells its clients, when it asks the
servers of its owner's subscriptions and when it may ask them around the proxy),
of its connections and the client library, of the panel's mirror, of the owner's
files and the routing rules in them, and of the takeover of an old install. They
are translated from the Go code under `src/internal`, to which paths below are
relative, from the widget and from the units under `src/packaging`.

## The system

| Part | State | Operations | Hard about it | Correct when |
|---|---|---|---|---|
| Daemon operations (`daemon/{daemon,ops,subscriptions,settings}.go`, `state`) | `state`, `settings`, `subs`, `profile`, `restorePending`; the settings and subscription files and a snapshot per subscription | start, stop, apply settings or rules, add, refresh, use, remove, boot, retry of the restore | each call has effects on the core, the host, the disk and the streams one after the other, any of which fails and whose undo may fail; downloads run outside the lock of the calls; the process may end anywhere | the core runs what is shown; what was acknowledged survives; what is listed has its content; the last push is the present state |
| Refresh schedule (`daemon/subscriptions.go`) | four deadlines per subscription, `addAsked` | loop, owner's update, add, remove | the loop's list of what is due goes stale; failures with and without an answer mix; restarts | refusals are waited out, requests spaced, and what is due is asked |
| Core (`core`, `core/mihomo`) | `running`, `current`, `generation`, mihomo's globals | Apply, Check, Stop, Select, delay tests, geodata | mihomo applies a config whatever fails and only logs it; dials in flight outlive a stop; drain goroutines outlive it too | the contract in `core/core.go` |
| Direct-download approval (`daemon/downloads.go`) | pending downloads, one decision each | get, decide | a decision races its expiry; a call waits for a person while it holds `opMu` | no direct connection without a decision in time |
| Streams and sessions (`daemon/session.go`, `ops.go`) | sessions, queues, `lastPushed` | admit, subscribe, publish, call, reply | slow clients, half-closed connections, pushes from several goroutines | a client's last event is the present value |
| Sessions, admission and the client library (`daemon/{session,daemon}.go`, `client`, `protocol`) | places of clients and of calls, queues both ways, calls by number | accept, admit, read, handle, write, broadcast, shutdown; dial, call, cancel, close | half-closed connections, full queues, requests cut by a deadline, late replies, a shutdown in the middle | an answer tells of its own call, events have no gap, everything ends, the core stops last |
| Owner (`owner`, `peercred`, `cli/claim.go`) | the owner record, the socket's drop-in | claim | a claim fails between its steps | see the cutover |
| User files (`settings`, `cli/{cli,rules}.go`, `packaging/omihomo-apply.*`) | `settings.json`, `rules.json`, their lock | lock, load, apply, save; the path unit | apply succeeds and save fails; an editor takes no lock; a save starts the service that saves | no edit is lost, files and daemon agree in the end |
| Rules and routing (`cli/rules.go`, `daemon/{rules,settings}.go`, `core/mihomo/build.go`) | the saved entries, settings, the active content | the rule commands, apply, switch of content | edited by index, compiled in two places, subscriptions change under them | what is listed is what runs; what is accepted resolves |
| Profiles (`profile`) | none | build | names clash, members and rule sets are missing | what is built resolves |
| Cutover (`cli/cutover.go`, `cli/claim.go`, `migration`) | the old install, the state directory, the undo list | the steps of a takeover and their undo | any step fails, the process dies, the old updater and the packaged daemon go on meanwhile | a failure restores the old install; nothing is lost; a repeated claim completes |
| Tailscale (`tailscale`, `systemd`) | a drop-in and what systemd loaded | sync | the restart fails after the write | tailscaled follows the file |
| Updater (`update`) | a package file | check, install | replaced between check and use | only what was verified is installed |
| Fetching, uplink | none that lasts | download | network I/O | see `PROJECT.json` |
| Widget (`widget/Service.qml`) | a mirror of the streams | calls | reconnects | mirrors the daemon |

The parts meet in few places. Every call that changes what runs holds `opMu`;
one that downloads holds `refreshMu` from before the download and takes `opMu`
after it. `mu` guards the memory for single reads and writes, and `pubMu` orders
pushes. The order is `refreshMu`, `opMu`, `pubMu`, `mu`. Inside the core
`applyMu` serializes what parses or applies a config. Other processes are met
through the socket, and through files: the owner's two under their lock, the old
install's data under the old updater's, and a claim lock.

## Modules

| Module | Models | Instances |
|---|---|---|
| `Daemon` | the daemon's calls over an abstract core | `MCDaemon` |
| `DaemonProofs` | theorems of `Daemon` | |
| `Refresh` | the deadlines and the refresh loop | `MCRefresh` |
| `RefreshProofs` | theorems of `Refresh` | |
| `CoreContract` | what `core/core.go` promises of Apply, Check and Stop | |
| `Core` | `core/mihomo/core.go` over the engine | `MCCore` |
| `CoreProofs` | theorems of `Core`, the refinement among them | |
| `Downloads` | consent to downloads around the proxy, and the calls' locks | `MCDownloads` |
| `DownloadsProofs` | theorems of `Downloads` | |
| `Streams` | pushes and the panel's mirror | `MCStreams` |
| `StreamsProofs` | theorems of `Streams` | |
| `Sessions` | connections, their calls and queues, the shutdown, the client library | `MCSessions` |
| `SessionsProofs` | theorems of `Sessions` | |
| `Files` | transactions on the owner's files, the editor, the watching service | `MCFiles` |
| `Profile` | what `profile.Build` makes of a document: operators, no state | through `Routing` |
| `Routing` | the owner's rules, over `Profile`, compiled into what runs | `MCRouting` |
| `RulesProofs` | theorems of `Files`, `Profile` and `Routing` | |
| `Cutover` | `omihomo claim` over an old install | `MCCutover` |
| `CutoverProofs` | theorems of `Cutover` | |

`Daemon` uses the core by its contract: `Outcomes` are the outcomes of
`CoreContract`'s Apply, and `Core` is shown to have no others. `Downloads` and
`Streams` take the daemon's calls by the locks they hold and by the order in
which they change the core and the memory and publish; what the calls do in
detail is in `Daemon`. `Sessions` takes a call as something that runs and
answers, `Files` the daemon as what accepts or refuses a value, and `Routing` a
transaction of `Files` as one step.

### Daemon

`op` is the call that holds `opMu`: its program counter, its subscription,
profile and settings. `dl` is the one that holds `refreshMu`. Each action is one
effect (a write, a call of the core, a sync of the host, a push) with the memory
updates next to it, so a crash can come between any two effects, and a download
overlaps whatever else is called. A handler that only changes memory and replies
is one action. `Crash` forgets the memory, stops the core and keeps the disk;
`Boot` is `New`. `found` holds the ids that a removal looked up before it waits
for `opMu`.

The owner's settings and rules other than Tailscale and Running are one value,
since the daemon treats them alike: they are checked, applied, saved, or put
back together. A write fails or is done: `state.write` renames a synced file.
The names of subscriptions, usage numbers, messages and details are left out.
`host` is the drop-in file that `tailscaleSync` writes; its failures clear
`hostOk`, a history variable, and what the drop-in says is then anybody's guess
until the next success. An owner is assumed to have claimed the installation.
`mihomo`'s Stop never fails, so neither does `Stop` here, and no code enters
`StateDegraded`.

### Refresh

One request at a time, as under `refreshMu`, over a clock that may tick at any
moment. A subscription is its URL, since no two have the same (`UniqueUrls`).
`due` is the loop's stale list. The history variables record what the server
last asked for (`hold`) and the last add since the start (`added`); no action
reads them. An add whose revert fails lists its subscription without a write;
that is in `Daemon` only. The clock does not step back.

### Core

The engine is what mihomo runs and whether all of it came up. A connection is
known by the config it goes through: `dials` are in flight, `conns` are open and
tracked. Each part of `stop` is a step, so traffic comes in between. A drain
remembers what was in flight at its stop; its deadline, a second after
`DefaultTCPTimeout`, is that all of it landed or gave up and a tick swept since.
The stopped config is fixed and assumed to parse. `Check` parses and changes
nothing that runs.

### Downloads

`proc` is a goroutine that downloads: a call under `opMu` (geodata), an add or
refresh under `refreshMu` and then `opMu`, or the loop's renewal of geodata,
which takes `opMu` only to install. Each download is a `Get` that ends, or that
the proxy fails at; then consent is asked for, with an id of its own, a place on
the list, a push and a wait that the owner's answer and the expiry race for.
`decision` is the channel of one place. The push is two steps, as under `pubMu`:
encode and send. What is downloaded is left out, and so is the label.

### Streams

`status` keeps the two fields that tell one runtime from another; what else it
says, and the streams of rules, subscriptions and downloads, are pushed by the
same code and change nothing in the panel but themselves. `op` is a call that
holds `opMu`: it changes the core, then the memory, then publishes a stream at a
time. `pubMu` is who publishes. A session has its streams, the calls that its
goroutines have not taken yet, and `line`, what is under way to the client: its
queue and the socket together. The widget's actions are those of `Service.qml`:
connect and greet, read, toggle the panel, refresh, lose the connection. Traffic
is broadcast as connections are and leaves no trace. `Patient` says whether the
panel is toggled only after its last call was answered, as an owner who is
slower than the socket does; one run sets it and one does not.

### Sessions

A connection is a goroutine of `accept` (`st`), its writer, its queue, two lines
of sockets, and the client's end (`cst`). A request is the number of its call, or
a cut: the part of a line a write deadline left, which the next line completes to
something that is no request. A handler runs, answers and gives its place back,
in that order. `others` are the places other clients hold; they come and go.
`forced` records why a session ended if not by the client's wish, `handled` how
often a call ran. A session that is closed may still read the lines its scanner has
buffered (`Read`). The write deadlines are failures that may happen at any time.
Errors name a call by its number as `Envelope` and `recoverID` do; what is in a
message is left out.

### Files

Each `omihomo set`, `rule` or `apply` is the transaction of `edit`: lock, load,
change, have the daemon apply, save each file that changed. The service of the
path unit is one more client that changes nothing; `fired` is systemd's wish to
start it. A client may die anywhere, and the request it left runs later or never
(`strays`). A value is a number and a file also has a form: `Rewrites` is what
`Save` looks at when it leaves a file alone. `wanted`, `raced` and `spoiled` are
history: what was put in a file on purpose, and what the two properties exclude,
an editor's write inside a transaction (it takes no lock) and a request or a
failure only another `apply` repairs.

### Profile and Routing

`Profile` is `Build` with everything it calls to make names unique, expand
providers, order groups by their members, drop what is missing and parse rule
lines. Strings are sequences of words, so that numbering a name appends a
number. How a proxy of a type or a share link is decoded is not modelled: a
proxy is well formed or dropped. `Routing` has one action per rule command, per
settings change and per change of content; each passes the checks of `apply`
(`checkRules`, `CoreAccepts`) or changes nothing. `rawConfig` and `compileRules` are
two separate translations, as in the code; `RuleResolves` and `GroupsResolve`
are mihomo's own parser, from how the core uses it.

### Cutover

`pc` is the step of the claim; every step may fail before its effect (`Fails`),
the installation of the import also in the middle (`InstallFails`: the old
directory comes back, or with a second failure none is left), and then the
recovery runs the undo list in reverse, each undo failing or not (`broken`), and
puts the state directory back in the two renames of `Rollback` (`RecoverData`,
`RecoverBackup`). A daemon it could not stop is marked `stray` until a later run
stops it. A crash drops the list and the locks. `omihomo apply` is three steps:
the daemon runs and stores what the files say (`Apply`), then `settings.Save`
writes settings.json and rules.json, the missing ones too (`Save`); the run may
fail or die between them, and has no undo for what they wrote. `world` is what does not change. The old
data are a version number that the old updater raises; a settings file is the
import's, the owner's, the default's or absent. `tsFile` is tailscaled's drop-in
on disk and `tsRuns` the one it was last started with. `OwnerSaves` is another
account's daemon, still running until the claim stops it. A reboot is not
modelled, and neither are the old launcher's content and the group of the
socket.

## Runs

| Run | Checks | Bounds |
|---|---|---|
| `daemon_settings` | `TypeOK`, `RunsWhatItShows`, `AckedIsStored`, `HostFollowsSettings`, and with fairness `RestoreComesUp` | one subscription with two contents, settings with and without Tailscale |
| `daemon_subscriptions` | `ListSound` (content stored, the active one listed, URLs unique), `StatusPushed` | three subscriptions, two of one URL |
| `refresh` | `RecordsSound` (types, deadlines within reach), `ServersRespected` (refusals waited out, updates and adds spaced), and with fairness `DueIsAsked` | two URLs, a gap of one instant, intervals of 1 and 2, no Retry-After or one of 3, four instants |
| `core_calls` | `ReportsWhatRuns`, `StoppedIsQuiet`, `DrainSparesRunning`, `KeepsContract`, and with fairness `DrainsEnd` | two configs, four commits and stops |
| `downloads` | `DirectNeedsConsent`, `ListTells` (what waits is shown, what is done goes), `FewWait`, and with fairness `DownloadsEnd` | a call and the loop, two requests for consent |
| `streams_panel` | `MirrorsDaemon` (status and groups), `PanelFollows` | one session at a time, a queue of three, two calls that change what runs, two ids for the calls on the streams, so that a refresh can unsubscribe and subscribe again |
| `streams_toggled` | a comment the code does not keep | the same, for an owner who does not wait for answers |
| `sessions` | `TypeOK`, `CallsAnswered` (an answer to each call, and it tells what became of it), `NoGap`, `StopIsLast`, and with fairness `EverythingEnds` | one connection, one place shared with others, two calls and one in flight, queues of 2, 1 and 1, two events, one fault |
| `files` | `TypeOK`, `SavesWhatRuns`, `NoLostEdit`, and with fairness `EditsSettle` (the daemon comes to run the files, the service rests) | two clients, the service and the editor, three values of which one is refused, three edits, one fault |
| `routing` | `RulesStored`, `ListingTrue` (the list is what runs, unreachable is so), `RulesFit` (what runs resolves, rules block no content), `BuildResolves`, `EditsSound` (edits by index, ungrouping) | three rules in up to two categories, three contents of which the core refuses one; 292 documents for `Build`, at most six proxies |
| `cutover` | `OneProxy`, `FailedRestores`, `TakenOver` (files, daemon and saved state agree on the owner's settings or the import, nothing old left), `DataKept` (imports current, saved state not lost), and with fairness `Resumes` | four installs, three worlds, two versions of the data, two faults |
| `cutover_restored` | a promise of the docs the code does not keep | the same |

`PROJECT.json` says of each run what it shows, and names for each property a
mutant, a plausible bug in the code, under which TLC finds it violated.

Why the bounds are enough. The daemon serializes its calls, so a race needs one
call that holds `opMu`, one download and one looked-up removal: two
subscriptions let each of them mean a different one. Crashes and failures are
not bounded at all: the state graph of `Daemon` is finite without a counter. In
`Refresh` four instants hold a refusal that outlasts every interval, a doubling
of the backoff, an add after a removal and a restart; the theorems cover any
clock. Four generations in `Core` hold a stop, a start, a failed reload with its
restore, and the drains of the stops. In `Downloads` two requests let an answer
meet a later download of the same goroutine or one of the other; the real limit
of 64 is out of reach (`FewWait`). In `Streams` a queue of three fills, two
changes make and end a run or a change of subscription, and reconnects, toggles,
refreshes and restarts are not bounded. Sessions of one daemon share only its
places, its shutdown and what is broadcast, so one connection beside `others` that may
take every place meets each of them; each queue holds less than a call and its
events produce, so each one fills. In `Files` two clients and the service are
the fewest that can overwrite each other's edit while a third waits, and three
edits let the last come after the others' transactions began. In `Cutover` two
faults are a failed step and a failed undo, or a crash and a failure in the run
that follows it; the number of runs is not bounded. In `Routing` three rules are
a category of two beside a single rule, in any order, on or off, with contents
that have or lack the group, the proxy, the rule set and the sub-rule.

Deadlock is checked except in `files`, `sessions` and `cutover`, where the system
stops: nobody edits any more, the daemon has shut down, the claim is over.
`TypeOK` of `Daemon`, `Core`, `Refresh`, `Downloads` and `Streams` is part of what is proved.

Fairness. A handler that has started goes on (`HandlerStep`, `Step`): no handler
waits for a lock it could be kept from for ever, since Go's mutexes hand
themselves to a waiter that starves. That is also why the loop's turns are
strongly fair. `RestoreComesUp` further assumes that the start is not refused for
ever, `DueIsAsked` that a request ends (its context has a timeout) and that the
daemon is not restarted for ever, and `DrainsEnd` that a dial gives up.
`DownloadsEnd` assumes that a get ends (it has a timeout), that the 45 seconds
pass, and that a call downloads finitely often; nothing is assumed of the owner.
`EverythingEnds` assumes that each goroutine of the daemon and of the client that
can go on does (`Progress`): a handler ends, a writer writes or meets its
deadline, a read returns; no client is assumed to read, to close or to call.
`EditsSettle` assumes that systemd starts and reaps the service, the daemon
answers, and the kernel's lock comes to every waiter (strong fairness of `Lock`);
it is stated of an edit made while the service is idle, since systemd may miss a
change while it runs. `Resumes` assumes that the process goes on, that an updater
which runs ends, and that the owner runs the claim again after a failure: it says
what repeating it achieves.

## What disagrees with its documentation

Two runs show a disagreement:

* A subscribe and an unsubscribe sent one after the other run in goroutines of
  their own: a panel toggled twice in a row may end up open without its streams
  or closed with them (`streams_toggled`).
* A cutover that fails after the daemon turned Tailscale's proxy on removes the
  drop-in, but restarts tailscaled only if there was one before: it keeps running
  with the proxy of a daemon that is stopped (`cutover_restored`).

Others are in the model and excluded from the properties at the place named:

* `restorePending` is cleared by a failed start of the owner's
  (`daemon/ops.go:348`), and the restore is not retried (`RetriedUntilUp`).
* A settings change whose save and rollback both fail keeps the new settings and
  pushes nothing (`daemon/ops.go:459`; `StatusPushed`).
* The ticker broadcasts connections outside the order of the pushes
  (`daemon/daemon.go:386`): a panel may keep those of a run that is over.
* An edit made by hand between a command's load and its save is overwritten
  (`cli/cli.go:241`; `NoLostEdit`).
* When the config directory is a symbolic link, `writeSettings` leaves the import
  out (`cli/cutover.go:327`). With no setting file behind the link, the apply at
  `:311` reads the defaults: the daemon runs and stores them in place of the imported
  settings, and they are saved as the owner's files, although `docs/upgrade.md:38-40`
  says that claim writes the imported settings "unless either already exists".
  `SettingsKept` leaves open what runs in that one case; that files, daemon and saved
  state agree it requires there too.
* `omihomo apply`, the last step of a cutover but one, saves what it applied and so
  creates settings.json or rules.json where it was missing (`cli/cli.go:258`,
  `settings/settings.go:105-136`). The cutover has no undo for that (`cutover.go:310`):
  a check that then fails leaves the file behind, although
  `docs/adr/0006-sandboxed-root-service.md:7` says that a failed operation rolls back.
  Two tests say otherwise, that a failed cutover removes the files it wrote
  (`cli/cutover_test.go:318`) and that nothing is written beside the owner's file
  (`:311`); in both the apply is a stub. `FailedRestores` allows a file that was
  missing to hold the defaults, except where the cutover had written the import.
* A crash between the removal of the hooks and the stripping of the privileges
  leaves a second run nothing that shows an old install, so that the old binary
  keeps its capabilities (`cli/cutover.go:280`; `OldGone`); one between the two
  setting files makes the next run take the first for the owner's own
  (`cli/cutover.go:348`; `SettingsKept`).
* A claim that fails after the owner record is stored keeps the new owner
  (`cli/claim.go:71`; `FailedRestores` allows that one), and an install without a lock file is
  imported without one (`migration/import.go:72`; `ImportIsCurrent`).

## Theorems

All are proved for every value of the constants, from the named assumptions next
to their declarations: which sets the null values are not in, that every id has
a URL, that the gap is positive and no interval shorter, that queues and places
are positive numbers.

*Daemon.* `TypeCorrect` is by itself inductive. `RunsWhatItShows` speaks of the
moments no call is in progress; `CoreInv` strengthens it with what the core runs
at each step of each call: `Expected` is the config of the settings, or of the
next ones from the apply to the save or the end of the revert, with the content
of the memory, or of the download from its acceptance on. `AckedInv`, `HostInv`,
`PushedInv` and `RestoreInv` are strengthenings of the same kind. `SubsInv` ties
the download in progress to the call in progress and says between which steps a
listed subscription's content is stored, and `UrlInv` adds that the URL of an
add in progress is not taken. `SubscriptionsSound` puts the three properties of
the list together. `KeepsActive`, that no step removes the subscription of a
running proxy, is proved and no longer run, and so is `RetriedUntilUp`: the check
and the removal are under one lock, and a restore is given up by the owner's
start or stop only.

*Refresh.* `DeadlineInv` says of every record how its deadlines relate to the
server's hold (`Deadlines`) and that a request in progress works on the record
that is still listed. `HoldRespected` and `RequestsSpaced` follow. `AddInv` says that
an add less than a gap ago is remembered; `AddsSpaced` follows. The three are
`ServersLeftAlone`. `DeadlineBounded` speaks of deadlines that are the sum of a
stored interval and a stored attempt, so `ReachInv` says that the interval of
every record, of a request in progress too, came with an answer and that a
failure moved the deadline by no more than an answer can ask for:
`DeadlinesInReach`.

*Core.* `EngineInv` is what the engine runs at each step of a call, `DrainInv`
which stop a drain follows and what is left for it to close. From the two follow
the invariants, `DrainSparesRunning`, and that `Core` implements `CoreContract`
under the mapping that takes what runs between calls.

*Downloads.* `DownloadInv` is the types, what a goroutine holds in each part of
its call (`LockInv`), and how an answer gets from the owner to the download it
is for (`ConsentInv`): an id is drawn once, and an `allow` in its channel before
the expiry was given before the expiry. `DirectNeedsConsent` and `FewWait`
follow, the second for any number of clients. `ListInv` is about the list that
reaches the clients next, the one someone has encoded or else the one they have:
it is the daemon's unless somebody who changed the daemon's has not encoded it
since (`Behind`), and one that waits is on it in either case. `ListKept` follows;
it needs that encoding and sending are under one lock, as the mutant shows.

*Sessions.* `SessionInv` is per connection, and holds for any number of them.
`ServeInv` ties the place of a session, its writer and its calls to how far
`serve` is; `StopIsLast` follows. `TellsInv` says that a call is in one place at
most on its way, that a line is sent once (`Once`) and that every answer under
way already tells what happened: without it an answer read later could not be
told from a wrong one. `DrainInv` says where a call that was sent is (`Kept`): on
the socket, running, in the queue or on the way back, as long as nothing forced
the session to close. The two are `CallsAnswered`. `Unbroken` is inductive once
a greeting is known to come before every event (`GreetsFirst`), since a listener
counts from the first event after it: `NoGap`.

*Streams.* `TypeOK` is by itself inductive: `StreamsTyped`. `MirrorsDaemon` and
`PanelFollows` speak of the moments nothing is under way; `StreamInv` is what
holds in between, for any number of sessions, any queue and any number of ids.
`PushInv` says that what was pushed last is the present value but for a call that
has changed it and not published yet, and `FreeInv` that a session which is not
there has nothing. `CallInv` follows the panel's one call: it waits for its
goroutine, its goroutine has `pubMu`, or its reply comes, and at each of these
places it is known which streams the session has (`Asks`, `Awaited`). `FeedInv`
says what the panel will show once it has read the line: the status pushed last
(`StatusAt`), and, when it is open, the groups pushed last (`GroupsArrive`) with
no status of another runtime behind them that would make it forget them again;
while `lastPushed` has no groups, a call is still to publish them. `StreamsMirror`
and `StreamsFollow` follow. Both take `Patient` as their hypothesis: without it
two calls of the panel can be under way, and `streams_toggled` shows
`PanelFollows` violated. That is also the one thing not proved of `Streams`: what
an owner who does not wait can rely on.

*Files.* `FilesInv` says that whoever is in a transaction holds the lock
(`HoldsLock`), and that what it loaded is still the last edit of every file but
the one it changes (`LoadedEdits`): the lock keeps every other command from
changing a file between the two. `NoLostEdit` and `SavesWhatRuns` follow, for any
number of clients.

*Routing and Profile.* The five invariants of `Routing` hold for any documents,
rules, settings, ids and limits. `RoutingAssumption` asks of these that a rule is a
record whose value is a non-empty sequence of words (`RuleEntry`), that the two
switches are Booleans (`Settings`), and that a document is as `Read` leaves it
(`IsDocument`): its lists are sequences, its names are sequences of words, and a
line of rules has at least one field, since `strings.Split` never returns none.

The proofs are about sequences throughout, so `RulesProofs` begins with what they
need: that the numbers are well ordered (from `WFMin`), induction over a set of
numbers, and from it what `FlattenSeq` and `Kept` (the elements of a sequence at
some of its places) give, alone and for two sequences in a row. `FlattenSeq`, like
the loops of `Providers` and `AddProvider`, is a recursive function: that one
exists is proved, by extending it from n to n + 1 (`FlatExists`, `AddedExists`,
`ReadExists`), and everything said of its values rests on that. `Join` is
concatenation under a name of its own, since the solvers lose themselves in `\o`.

- `RoutingStores`. `Stored` is what the list of entries is after every command:
  each one an entry, one outside of categories a rule by itself, none empty, all
  checked. One lemma per command says that it keeps the entries sound, and
  `PruneStores` that what `apply` writes passes the checks; only the sum of the
  two is inductive, since a category is empty between them.
- `RoutingListing`. `compileRules` and `Effective` are shown to go through a list
  in a row (`CompJoin`, `EffJoin`), and what `rawConfig` puts between the owner's
  rules and the subscription's to go where the listing has it (`RulesRun`): the
  two translations of the code have the same parts in the same order.
- `RoutingEdits`. `PlacesNumber` says that the number of a rule is the count of the
  rules before its entry and its place in it, for any categories. Each edit is
  then an edit of the flat list around that place (`Ahead`, `Behind`).
- `RoutingBuilds`. `LineRead` is that `ParseRule` reads back what `ruleLine` writes;
  `UniqueFree` that `Unique` finds a free name, since each number gives a longer
  name and finitely many are taken; `Drawn` what holds after any number of
  providers; `WellBuilt` what `Build` makes of any document it accepts. That does
  not depend on the state: `BuildAlwaysResolves` has no hypothesis but the
  assumption on documents. It is for that proof that the property makes an
  exception for `AND,,Proxy`: `ParseRule` takes an empty value where the type may
  hold commas, and `ruleLine` refuses to write one (`core/mihomo/build.go:332`). One
  such line is enough for the core to refuse the whole subscription. `MCRouting` has
  a document with it.
- `RoutingFits`. `RunsResolved` is inductive with `RulesStored`. `NeverBlocked` says
  why no saved rule stands in the way of a subscription: what is active names a
  target, a rule set or a sub-rule that is there (`ActiveResolves`), every name the
  program's own rules use is there as well (`OwnReaches`), and a line that is
  written is read back as the rule it was written from.

*Cutover.* `CutoverInv` has five parts. `SidesInv` says at which steps the old
units and the daemon may be up: each is started only where the other is down or,
after a recovery could not stop it, `stray`, and `OneProxy` follows. `ImportInv` says who holds the old lock, that the staged data
are then the current ones, and that they stay in the state directory until a
recovery takes them out: `DataKept` follows. `RunInv` is the bookkeeping of a run:
from its first change on it recovers, and from the claim on the undo list has an
entry for tailscaled's drop-in. `UndoInv` is why a failure can be undone from
every step: what is in place together with what the list still undoes is what was
there before, but for missing files that apply has created, and `EndDir`, the
directory a recovery from here ends with, keeps its data. When the list is empty
that is `FailedRestores`. A recovery step that
fails takes the run out of `Recoverable`, and so out of the claim. `TakenInv`
is what `TakenOver` needs beyond these, and `UndoInv` when apply saves: what the setting files are at each step,
that an import which was staged is in place from its step on, and that each part
of the old install is gone once the step that removes it is over.

Only model-checked: the liveness properties, since the prover has no rules for
fairness and `ENABLED`. Every invariant and action property that a run checks is
a theorem.

## Plan

1. Select with its cache and geodata in `Core`, with the config a download's dial
   goes through (`core/mihomo/dns.go:199`).
2. What systemd loaded, in `Daemon`'s Tailscale sync (`tailscale/tailscale.go:35`):
   today a failed sync there only clears `hostOk`.

## Not modelled

Decoding of share links and of each proxy type's options, the TUN, DNS and
sniffer parts of mihomo's config, network I/O, output of the command line and the
layout of the panel convert data and keep no state. The updater is one
privileged process that hands a verified package to pacman, which owns the
transaction. The clock of `Refresh` does not step back: the code has no rule for
one that does. What the core makes of the value of a rule is not modelled, so a
rule that is off and would be refused when turned on is out of sight
(`daemon/settings.go:69`), and so is a number read from a list that has changed
since (`cli/rules.go:157`): the protocol has no version of it.
