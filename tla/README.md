# A verification development for the Smart Grid Store

The Smart Grid Store is the ingest side of BTrDB, a time series store for power
grid sensors: the daemons that take measurements from devices and put them in
BTrDB, the tools around them, and the gateway and consoles in front of it. It is
written in Go (with a C++ subscriber library) and runs as pods of Kubernetes
against etcd, Ceph and BTrDB. None of these is under `src/`; they appear in the
models as what the code expects of them.

This directory has TLA+ modules of its core, TLC configurations that check them
on small instances, and proofs for TLAPS. `PROJECT.json` lists the components,
the runs, which lines each definition stands for, the hazards, and for every
property a mutant of the code that breaks it.

## The system

    uPMU --TCP--> receiver --> Ceph pool --> ingester -----> BTrDB
    uPMU --TCP--> pmu2btrdb ---------------------------------> BTrDB
    PDC  <-TCP--> c37ingress (lock, connection, queues) -----> BTrDB
    GEP  <-lib--> gepingress --> gen2ingress (lock, inserter)-> BTrDB
    etcd: manifest of devices, device locks, users and keys, certificates
    operator --SSH/gRPC--> admin console --> etcd
    client --gRPC/HTTP--> API frontend (ACL, caches) ---------> BTrDB
    backuptool: Ceph, etcd <--> archive      importcli, btrdbcp ... --> BTrDB

| Component | State | Operations | Talks to | What is hard |
|---|---|---|---|---|
| Device lock: `tools/manifest/manifest.go`, devloop of `tools/c37ingress/main.go` | lock keys and leases in etcd; per daemon the devices it processes | poll the manifest, read the lock table, decline or lock, process | etcd | races between daemons, expired leases nobody is told of, order of Go maps |
| `tools/receiver` | a goroutine per connection, a pool of Ceph handles | take a file, store it, list it twice, confirm it | uPMU, Ceph | crash between the writes, connection lost in the middle, file uploaded again |
| `tools/ingester` | `alive`, `terminate`, a process loop per uPMU | list, read, parse, insert, take off the list; restart when the manifest changes | Ceph, etcd, BTrDB | flags shared without a lock, crash between insert and removal, files replaced meanwhile |
| `tools/pmu2btrdb` | a reader per connection, a goroutine per file, a semaphore | read, parse, create streams, insert, confirm | uPMU, etcd, BTrDB | variables shared between reader and goroutines, races to create a stream, the failure answer |
| Connection of `tools/c37ingress` | connection, configurations, a bounded queue per id code | dial, configure, read frames, batch, insert | device, BTrDB | loss and resync of the stream, overflow, stale configuration |
| `tools/gen2ingress` engine | as device lock, and a cancel function per device | as device lock, and cancel what leaves the manifest | etcd, driver | cancelling, locking again what is still processed |
| `tools/gen2ingress` inserter | work queue and its byte count, stream cache, per worker buffer and annotations | offer a batch, coalesce, flush, annotate | drivers, BTrDB | check-then-add of the count, annotations out of order |
| `tools/gepingress` | metadata, last change told to the inserter | callbacks of the C++ library, ask for metadata | GEP publisher, inserter | callbacks in any order, abort during a callback |
| `tools/backuptool` | Ceph objects on their way through two queues, modification times | full and incremental backup, restore, clear | Ceph, etcd, files | buffers shared by goroutines, a system that changes during the backup, deletions |
| `tools/importman` | handles of streams shared by 50 workers | create once, insert | BTrDB | create once among workers |
| `acl` | users, groups, API keys in etcd; cached users | read-modify-write of each | etcd | no transactions, caches |
| `tools/certproxy`, `tools/certutils` | certificates in etcd and on disk | acquire, renew, distribute | certbot, etcd | renewal beside use |
| `tools/apifrontend` | caches of users and collections | check a permission, forward | BTrDB, etcd | stale caches, retry loops |
| `tools/admincliserver`, `admincli`, CLI modules | a session and its command | run a command, cancel it | etcd | a cancelled command that still runs |
| offline tools (`btrdbcp`, `bson2btrdb`, `btrdbdu`, `baseliner`, `internal_use/*`) | none that outlives a run | | | |
| `mfgen`, `containers`, `manifest_templates`, `devmachine`, `distillates` | templates and scripts | | | |

What makes each component correct, in the words of its properties:

- *Device lock*: one device, one goroutine that processes it, except where a
  lease was lost; every device of the manifest is in the end locked.
- *Receiver and ingester*: a file that was confirmed to its uPMU is never lost
  and in the end ingested; a change of the manifest in the end takes effect.
- *pmu2btrdb*: confirmed means inserted; every file is answered.
- *C37.118*: in every stream, no frame is missing but for a named cause, or
  twice, or out of order, or (behind a configuration that arrived whole) decoded
  with another configuration than it was encoded with; a lost connection is
  dialled again.
- *Gen2 inserter*: a record is inserted once, or dropped in one of the ways the
  code names; the byte count is that of the queue; annotations are not forgotten.
- *Backup*: the archive holds what Ceph held; restoring the full and the
  incremental backup gives what there was at the second, as far as times in
  whole seconds tell what changed in between.
- *Gen2 engine*: a device that left the manifest is in the end not processed; a
  loop that nothing can stop is one that had lost its lock.
- *Bulk import*: the streams of a key are merged in one, and an import that says
  it is complete is, after any failures.
- *ACL*: the key that a user is shown is the user's in etcd and the ones before
  are not; two administrators at one record leave what one of them wrote. *API
  frontend*: who may no longer, or has a key that was replaced, is refused at a
  new call once the time of the cache and of a lookup has passed.

## Modules

| Module | Models | Theorems |
|---|---|---|
| `LTable` | the loop of `parseLTable` and the balancing test, as operators | |
| `ParseLTable` | the same loop, one action per iteration, for every table and every order | `Ingress_proofs` |
| `ExclusiveLock` | what the lock keys promise, abstractly | |
| `DeviceLock` (extends `LTable`, instantiates `ExclusiveLock`) | any number of ingress daemons, etcd, leases, the operator | `Ingress_proofs` |
| `CephPool` | the objects and lists that receiver and ingester share | |
| `Receiver`, `Ingester` (extend `CephPool`) | the two programs, each with `...Init`, `...Next`, `...TypeOK` | |
| `UploadPipeline` (extends both) | their interleaving, the properties | `UploadPipeline_proofs` |
| `Pmu2btrdb` | `pmu2btrdb` with its clients | `Pmu2btrdb_proofs` |
| `C37Pmu` | one connection of `c37ingress`: `dialloop`, process loop, inserter | `C37Pmu_proofs` |
| `Gen2Inserter` | the inserter that the devices of a `gen2ingress` daemon share | `Gen2Inserter_proofs` |
| `Gen2Engine` (extends `DeviceLock`) | the devloop of the daemons written against `gen2ingress`, with cancellation | `Ingress_proofs` |
| `Backup` | `backuptool` from a full backup to the restored target | `Backup_proofs` |
| `AccessControl` | `acl.go` as administrators' sessions use it, and the frontend's cache | `AccessControl_proofs` |
| `Import` | `importman`: main goroutine, channel, workers, shared handles | `Import_proofs` |
| `MC...` | constants of the runs | |

A run of a module starts in one of several *scenarios*. A scenario is a record
of bounds: which daemons, uPMUs or connections there are, and how many faults of
each kind may happen. `used` counts them, and `Use(kind)` is the guard of every
action that the scenario limits. That lets one run combine a few failures of
each kind without the product of all of them, and leaves the modules themselves
without limits: the theorems hold for every set of scenarios.

### DeviceLock

`ReadDevices`, `ReadTable`, `Grant`, `Txn` and `EndScan` are the calls to etcd
of one round of the devloop (`c37ingress/main.go:67-118`), each one step, with
`pc`, `todo` and `lease` as its locals. `manifest` and `lock` are the keys in
etcd. `workers[i][d]` counts the `go process(...)` of daemon `i` for device `d`,
and `lost` those of them whose lease has run out: nothing in the code tells
them, so they go on. A link that is down makes a call fail (most errors panic,
the one of `GetLockTable` is dropped and leaves an empty table); an answer can
be lost after the transaction has been committed. `ReadTable` tries every
iteration order of the map of the lock table. A restarted daemon has a new UUID
and is another member of `Ids`.

Left out: time. A lease can expire whenever nothing renews it, as early as the
5 s of a real one or later. Host names and ports: a descriptor is well-formed or
not. `UpsertManifestDevice` and `DeleteManifestDevice` are edits of `manifest`.

### Receiver, Ingester, UploadPipeline

A file is a name (an object of Ceph, with its serial number) and a content. The
receiver's `handler[c]` is the goroutine of a connection in
`processMessage` (`receiver.go:75-103`): wait for a handle, write the data, list
the name in `meta.master`, list it in `meta.gen...`, confirm. The goroutine of a
broken connection goes on, so an old and a new upload of a name race. Any Ceph
error panics, which is `RecvCrash`. The framing of messages before
`processMessage` is left out: a message is complete or the connection breaks.

The ingester's `loop[d]` is `process_loop` and `process` for one uPMU, a step
per operation of Ceph or BTrDB and per read of `alive`. `main` is the main
function with `wg.Wait`, the 15 s sleep and the end of the program. `alive` and
`terminate` are plain Go variables that the goroutine of interrupts, that of the
manifest's watch and the main loop assign. The watch assigns one after the
other, which `watch` counts down; every interleaving of these assignments is
explored. A content tells apart what the code does: `Rejected` contents are
those from which nothing is inserted, `Poison` those on which the parser's
error ends the program, and `Size` distinguishes what `Stat` and `Read` see of
a file that is replaced in between. `Matches` says which names start with a
serial number as the manifest spells it: `P1` is a prefix of `P10`. Names have
the serial number in lower case (`Lower`, `receiver.go:80`), and the ingester
looks for it as the manifest has it (`ingester.go:210`, `:278`): a serial number
in upper case in the manifest, such as the simulator sends, lists nothing.
`EventuallyIngested` asks for the lower case in the manifest; that the files are
kept all the same is `AckedIsKept`.

Left out: the generation number is fixed (the receiver takes it from its
environment, the ingester from etcd, and an operator has to make them agree:
without either setting the one lists under 1 and the other looks under 10), so
there is one list; the number of inserts per file; the sleep
between retries when BTrDB is out of resources (a step that does not come).

### Pmu2btrdb

`reader[c]` is `handlePMUConn` with `sendid`, `dtbuffer` and the message at
hand; `task[c][i]` the goroutine it starts for file `i`. The goroutines read the
reader's variables when they get to them. If the client sends a second file
before the answer to the first (a `window` of 2), `Seen` gives them the old data,
the new, or a mixture; what is promised then is only that there is an answer.
What the reader gets with the end of a message is thrown away
(`receiver.go:257-261`): `Overread` is a client that does not wait, whose next
file loses its beginning so, and `Stray` what the reader makes of the rest, which
it takes for a header. It then closes the connection or waits for data in vain;
what it might make of still later messages is left out, and `EveryFileAnswered`
excepts the connection. A client that waits is never exposed to this.
`TakeAnswer` is the client of the repository
(`simulator/upmusim.go:91-105`). `streams` has one member for all streams of a
uPMU: what is raced for is whether they exist. A file without content is left
out: its message never ends, because the end is looked for behind a byte of data.

### C37Pmu

Three goroutines per device: `dialloop` with `readFrame` (`Dial` to `Resync`),
the process loop of `main.go:139-156` with `GetBatch` (`Wake` to `Done`), and the
inserter's worker (`Insert`). `net` holds the frames on their way, with damaged
ones and bytes that are no frame. A data frame carries the version of the
configuration it was encoded with (`of`) and gets the one it is decoded with
(`as`). A frame of any kind can be damaged, and a device can change its
configuration at any time, without a word. `cfgs` then has an old configuration,
or none: `sure` marks the data frames behind an undamaged present configuration
of the same connection, which are those that `DecodedAsEncoded` speaks of. A
frame that does not fit the configuration it is decoded with ends the connection
(`Misfit`), or is decoded wrongly.

The worker sorts a batch by stream and inserts each stream on its own
(`btrdbconn.go:120-183`). `Streams` has two for all of an id code: `STAT`, which
has every frame, and one for those that lack the frames whose STAT says to drop
the data, or whose value is not a number. `lost[s]` are the frames that stream
`s` will never have. An insert that fails is printed and costs its stream the
batch; a lookup or a creation that fails is a panic, which ends the process with
all that is queued for any device (`Crash`), and nothing is printed of it.

The layout of frames (`frames.go`) is left out but for what a reader
can tell: a configuration, data, a wrong checksum, no sync byte. After junk the
model finds the next frame where it starts, unless a 0xAA inside the junk ends
the connection (`ReadUnknown`) or takes frames behind it along (which is what
`Corrupt` does). Left out too: which streams exist already; a read that waits
for ever because the connection has no deadline is a step that does not come.

### Gen2Inserter

`producer[d]` is a call of `ProcessBatch` in the goroutine of a device: `Offer`
loads and compares the count, `Add` adds to it, `Send` sends one record.
`worker[w]` is the loop of a worker (`btrdbconn.go:170-197`) with its locals `ir`
and `buf`; `anns[w]` are the annotations it has still to set, each map named by
the record it came with. `Lock` to `Insert` are `flushBuf` for one stream, a step
per lock and per call to BTrDB; the order in which a worker goes through its
streams is that of a Go map, so any. Sizes are computed as in the code, and the
channel has its capacity of a 116th of the limit. A key has the unit in it and a
lookup has not, so that two keys can find one stream.

Errors of BTrDB at a lookup, a creation or at reading annotations panic, which
is `Crash`. Those of an insert are printed and the data is gone; those of setting
annotations leave them for the next flush. The coalescing interval may be over at
any record. Left out: the goroutine that prints how full the queue is. (It says
how many batches were dropped in the past 5 seconds and means records since the
start: `lastDropped` is never assigned.)

### Gen2Engine

Every action of `DeviceLock` is there with what the engine adds to it: reading
the devices also cancels those that have gone (`engine.go:88-103`), taking a
lock keeps the cancel function (`active[i]`, which is `ourActiveDevices`) and
starts a loop unless the driver refuses the device. `workers[i][d]` are the loops
that have not been told to stop, `stopping[i][d]` those that have. An expired
lease is also that of a device that was cancelled, for the cancel function ends
the renewal. An instance whose lease ran out while its link was down finds the
device free and locks it again; the new cancel function takes the old one's
place and the old loop is out of reach (`OutOfReach`).

Left out: how a loop dials and what a driver does in it, and drivers that do
not initiate connections, for which a loop only sleeps.

### AccessControl

`db` holds the records of users and groups, `userKey` and `keyUser` the two
entries that an API key has. `op[a]` is the command of an administrator's
session with what it has read so far; `Read` and `Write` are the two requests to
etcd that an edit consists of, with the conditions of all commands in `Returns`
and their effects in `Edited`. `GetKey` to `SetKey` are `GetAPIKey` and
`ResetAPIKey`, a step per request, and `PassOver` is one of their requests
failing with the error dropped. `call[c]` is a call of the frontend that looks
up its user, and `cache` what it remembers, with the time that is left of it;
`Tick` is the clock. A lookup takes a tick at most (`FillTime`): that is a bound of
the model, for the code sets no deadline (`acl.go:67`), and of a lookup that takes
longer nothing is said. `LookupFails` is an etcd that does not answer;
`FrontendEnds` is the end of the frontend, also by the panic of `authfunc` where
the public user cannot be looked up and by that of a call with an empty key, to
which `authfunc` gives no user.

A key that was replaced is gone from etcd at once (`ReplacedKeysRefused`), but a
frontend that knows it takes it until it forgets (`ChangesTakeEffect`), and a
stream that is open keeps its user for as long as it lasts. Nothing is promised of
records that two edits were at, at the same time: the lost update is built in.

`meant`, `overlapped`, `raced` and `broken` are history: what the records would
be if whole commands came one after another, and where two of them met or one
was not completed. The properties say that nothing else goes wrong but there.

Left out: `AuthenticateUser`, whose cache is that of an engine made anew for each
request of the admin API; the identity provider, of which there is one;
`HasCapabilityOnPrefix`, a pure test; the second listener of the frontend, with
an engine and a cache of its own; the creation of the default administrator.

### Import

`NextFile` and `Enqueue` are the main goroutine with the channel `input`;
`worker[w]` is `startSingleWorkerLoop` with `getHandleFor`, a step per request
to BTrDB and per critical section. `handle` is the map of streams: `Pending` is
an entry whose `ready` channel is not closed. Errors and kills are `Fail`, and
`Rerun` starts the program again with any of the scenario's options. A point is
the number of its item and of its chunk, and a stream is a set of points: that an
insert was repeated is abstracted from.

Left out: the OpenHistorian file format (of which `openhist.go` skips a last
record that ends within ten bytes of the end of the file); the progress bar; and
a lookup of BTrDB that finds streams with more tags than were asked for.

### Backup

`lister`, `worker[w]` and `writer` are the goroutines of `backupCeph`, `todo` and
`towrite` the channels between them, `stamps` is `gtimestamps`. A worker's step
is a call to Ceph: `Stat` notes the time, `Read` fills the buffer, `ReadAttrs`
gets xattrs and omap. `phase` is where the operator is in the procedure of
`backuptool/README.md`; BTrDB changes objects (`Change`, `Delete`) until it is
shut down. All workers' buffers are slices of one array each, so `Read` changes
what `towrite` and the main goroutine still hold of the same worker
(`Clobbered`); what is left of two contents is `Garbage`. Any error, such as an
object that has gone between the listing and its `Stat`, ends the program: the
model begins the backup anew, as an archive without metadata is of no use to an
incremental backup. (`Restore` would take it: it never looks at the metadata.)

Left out: etcd, which one request reads and which is put back key by key; the
encryption and framing of containers, the division into files of 2 GB; pools.
`Clear` is a target without objects.

Every write has a tick of its own, and Ceph tells the second of it
(`TicksPerSecond`): `process.go:179` compares these. An object that is written
again in the second that the full backup noted looks unchanged, is left out by
the incremental backup, and the target has what the full one read.
`RestoredIsFinal` excepts exactly these objects (`SameSecond`, but another tick).

`ValuesAssumption` says that contents do not
become empty, which segments of BTrDB and uploaded files are taken not to do: such
an object would keep its old content when it is restored, because `Restore` writes
no empty one.

## Runs

| Run | Shows | Bounds |
|---|---|---|
| `parse_ltable` | declining leaves the device to two less loaded instances, for all tables and orders | 4 instances with up to 4 locks: two other instances, one more that must not matter, and ties |
| `device_lock` | exclusion up to lost leases, refinement of `ExclusiveLock`, owners process, every device served | two daemons, 3 devices (one malformed), one edit, one lost link, two mishaps; three daemons with six devices and no failure, enough for the balancing test to decline; and a device that leaves the manifest and comes back |
| `upload_pipeline` | nothing confirmed is lost, all of it is ingested in the end, changes of the manifest take effect | six scenarios: two files and a crash and an error; a file replaced and a connection broken; two uPMUs, one a prefix of the other; a uPMU with its serial number in upper case; rejected and poisonous contents; an interrupt and two edits. One handle each, so that goroutines wait |
| `pmu2btrdb` | answers are true: confirmed is inserted and refused is bad; everything is answered of which nothing was dropped | three connections, two of one uPMU, two files each; a broken connection and a crash; bad files, a first one among them, with one place in the semaphore; two clients that do not wait for answers, without faults of the system, since what they do to themselves is enough |
| `c37_pmu` | per stream, frames are lost only for a named cause, not doubled, in order, and decoded as encoded; queues drain; connections come back | queue of 3, batches of 2, 2 frames on the way, up to 5 data frames: enough to overflow, to fill a batch and to have a rest. Six scenarios: a lost connection and a new configuration; the same with a damaged frame of any kind; a failing insert and a frame to be dropped; damage beside junk; the end of the process; two id codes |
| `c37_resync` | violation: a connection that ends while bytes are skipped is never dialled again | one data frame |
| `gen2_inserter` | the count is that of the queue and bounded, no record disappears, one stream per name, annotations are kept until set, what is accepted leaves | two devices, two workers, three keys of two names; a queue for two records. Batches that do not fit together; annotations of one stream from two devices with a change from elsewhere and one fault; a crash |
| `backup` | the target has what the shut down system held; metadata is only written for what is archived; backups end | two files and a list, two workers, channels of one place, so that all of them block; two changes and a deletion; a crash; a listing that fails. Two writes to a second |
| `backup_content` | violation: one object's content under another's name | three objects that do not change |
| `access_control` | which keys work, what becomes of edits that meet, when a change is in force | two administrators, two calls. Three resets of one user's key; two with a request that fails, beside another user's; three edits of a user and a group, one breaking off; keys replaced, users removed and made again, and groups and prefixes changed while the frontend looks them up and remembers them for two ticks, with a lookup that fails or a frontend that ends |
| `gen2_engine` | cancelled devices end, loops out of reach are those that lost their lock | one instance with two cut links, one death and three edits, two instances with one device and the same faults, two with two devices and no cut; device 2 is refused by the driver |
| `import` | one live stream per key, complete is complete, the import ends | three workers, a channel of one place, two keys; a file of two keys and one that shares one; a file without streams before another; a key with two streams already, and an item without points. Each with one failure and a new start with any options |

`CHECK_DEADLOCK FALSE` is given where the system may stop: all daemons of a
scenario may have died, an ingester with no uPMU waits for ever, clients run out
of files and devices of records, a restored target or a finished import is the
end. The clock of `AccessControl` never stops.

The two violations are disagreements between the code and what it says of
itself; each is listed under `findings` with the line it contradicts:

1. *Resync.* The loop that skips bytes ignores the error of `ReadByte`, and so
   spins when the connection has ended; "backoff over, reconnecting" never comes.
2. *Backup.* A worker of `backuptool` queues a slice of its buffer and reads the
   next object into it. The archive gets wrong contents, and an incremental
   backup does not repair those of objects that do not change.

Other places where the code does something else than it says are built into the
models as they are, and the properties speak of what holds:

- *Balancing.* "If we already have more than the two minimum nodes, then don't
  take on any new nodes" (`gen2ingress/engine.go:108-109`): `min2` is the previous minimum of the
  loop, not the second smallest, and the verdict depends on the order of a Go
  map. `DeclinesOnlyForTwoOthers` says what is true of it.
- *Interrupt.* "Detected ^C. Waiting for pending tasks to complete"
  (`ingester.go`): if the manifest changes as well, `terminate` is cleared by
  the watch and the main loop starts the process loops again.
- *Failure answer.* Four zero bytes are the failure message of `pmu2btrdb`, and
  the confirmation of a file numbered 0. `AnswersAreTrue` excepts that file.
- *Case of serial numbers.* The receiver stores files under the serial number in
  lower case, and the ingester looks for it as the manifest spells it.
- *Several files at once.* The reader of `pmu2btrdb` goes on to the next message
  while a file is being inserted, but throws away what it has of it already.
- *Seconds.* Incremental backups are of "only the ceph objects that have changed
  since a previous full ceph backup" (`backuptool/README.md:61`), as far as times
  in whole seconds tell.
- *Configurations.* A damaged configuration is ignored and not asked for again, and
  an old one is kept over connections.
- *End of the import.* A file of which all streams are skipped gives an empty set,
  and `importcli` takes that for the end: the files behind it are not read, and
  the import is "complete". `Imported` is what comes before it.

## Fairness

Weak fairness says of a goroutine that can take a step that it takes one; Go's
scheduler and Kubernetes' restarts justify it for

- the devloop of a daemon *that reaches etcd* (its calls have no deadline, so
  nothing is assumed of one that does not), and the expiry of leases;
- the devloop of a Gen2 daemon in the same way, and a driver's function that
  returns when its context has ended;
- the main goroutine and the workers of an import;
- the ingester's main loop, watch and process loops, and its restart;
- the goroutines of a backup, and the operator who runs the next command;
- the workers of the Gen2 inserter and the devices blocked at its queue;
- the three goroutines of a C37.118 device; the messages and goroutines of
  `pmu2btrdb`.

Strong fairness is assumed where goroutines take turns: receiving from the
channel of Ceph handles and from the semaphore of `pmu2btrdb`. Go serves waiting
receivers and senders of a channel in the order in which they came.

Nothing is assumed of operators, administrators, devices, clients, faults, or of
the receiver. `AccessControl` needs no fairness: that a change takes effect is
stated with the clock, as an invariant.

## Proofs

All theorems are about the specifications that TLC runs and hold for every value
of their constants under the named assumptions in the modules, which say no more
than that ids are distinguishable from "none", names and sizes are numbers,
scenarios are records of naturals, an import has a worker, the drivers of Gen2
daemons, not the engine, judge the form of a descriptor, an object that is
backed up either has a content, which then never becomes empty, or has none, and
a Gen2 daemon has finitely many devices, at least one, room for a record in its
queue, and no record twice among those its devices offer.

`Ingress_proofs` holds what is proved of `ParseLTable`, `DeviceLock` and
`Gen2Engine`, three levels of the same protocol; every other module with theorems
has a module of proofs of its own.

- `Ingress_proofs`, the balancing loop: `DecliningIsSound`. The invariant is that `min` is the
  count of an entry seen and `min2`, once set, that of another one, no smaller;
  the final test compares with `min2`, so two others are smaller. It is needed
  because `min2` is not what its name says: the theorem holds because any
  previous minimum is at least the final one.
- `Ingress_proofs`, the locks: `TypeCorrect`, `Exclusion` (`ExclusiveUnlessLost`),
  `OwnerAlwaysProcesses`, and `Refinement` (the module implements
  `ExclusiveLock`). The inductive invariant `Accounting` counts: the goroutines
  of a daemon for a device are those whose lease is lost, and one more exactly
  if the daemon is up and holds the lock. `ExclusiveUnlessLost` alone is not
  inductive: it does not say that the lock's owner is the one with the surplus.
- `UploadPipeline_proofs`: `PipelineInvariant`, `TypeCorrect`, `ListIsBacked`
  (`ListedIsStored`), `ConfirmedIsKept` (`AckedIsKept`). The invariant follows a
  file through both programs. `HandlersInOrder`: a receiver goroutine past a
  write has made it; `Uploaded`: whatever is in flight, stored or confirmed was
  sent; `PromisedIsSafe`: a file that is confirmed *or about to be* is ingested,
  or stored and listed, for the step from "listed" to "confirmed" gives no
  chance to check; `LoopInv`: an ingester loop that has read a file with one
  content has that content, and one that is about to take its name off the list
  has inserted it. The two programs are proved apart: what the receiver does
  leaves `LoopInv` alone because a name with one content is only rewritten with
  the same, and what the ingester does other than `Remove` can only add to what
  is safe.

- `AccessControl_proofs`: `TypeCorrect`, `CurrentKey`, `ReplacedKeys`,
  `EditsAreAtomic` and `FrontendFollows`, the whole of what the run checks. The
  invariant has a part for each: `Shape` ties what a session holds to the command
  it is at; `KeyInv` says of a user without raced or broken resets where the one
  reset under way has the key at each of its steps, and of any other that a key
  that does not work yet is being set or removed; `EditInv` that a session that
  is alone at a record has read what is still there; `CacheInv` that whatever a
  lookup has read, or the cache keeps, is either still so or not older than the
  last change, which is what the time of an entry can be compared with.
- `Ingress_proofs`, the engine: `EngineTypeCorrect` and `LoopsOutOfReach`
  (`OutOfReachIsLost`), and of the engine what is proved of the locks,
  `EngineExclusion` and `EngineRefinement`. `EngineInv` keeps an account for each
  instance and device: the loops are those that lost their lease and one more
  exactly if the device is locked and a cancel function kept for it; one that is
  kept for a loop without its lock means that a lease was lost; and every loss,
  and every one about to happen, has a cut link of its own, because only an
  instance that is cut loses a lease and it cannot lock the device again before
  its link is back.
- `Import_proofs`: `TypeCorrect`, `OneStreamForAKey` (`HandlesAreLive`) and
  `CompleteImport` (`CompleteIsComplete`). `HandleInv`: whoever prepares the
  stream of a key found no entry and made it, so no one else prepares it, and its
  points go in only through a ready handle; so nothing is obliterated under a
  writer's hands. `QueueInv`: the channel is closed only behind the last file,
  workers end only when it is empty. `PointsInv`: an item of a file that was read
  is still on its way, at hand, or inserted up to its last chunk; an erasing
  import has nothing but its own points in a stream that a handle leads to. None
  of these survives alone: completeness needs all three.

- `Pmu2btrdb_proofs`: `TypeCorrect` and `TruthOfAnswers` (`AnswersAreTrue`). The
  invariant `OneAtATime` says that of a client that waits one thing is on its way
  at a time: a message that is read, a file that a goroutine is at, or an answer.
  That is what makes the shared `sendid` and `dtbuffer` safe, a goroutine only
  reads them while nothing overwrites them, and keeps the reader from ever being
  astray.
- `Backup_proofs`: `TypeCorrect`, `CompleteArchive` (`MetadataMeansArchived`) and
  `RestoredTarget` (`RestoredIsFinal`), for channels and objects of any number.
  `PlaceInv`: an object that has a time is at exactly one place, with a worker, in
  `towrite`, with the main goroutine or in the archive; so empty channels and idle
  workers mean that everything is archived, and once. `MatchInv`: as long as an
  object keeps the time that was noted, whatever was read of it is what it holds,
  because the time is noted first. `IncrInv`: while the incremental backup runs,
  an object is still to be listed, listed, noted, or was noted by the full one in
  the second of its last write; if that was its last write, `MatchInv` says that
  the full backup has what it holds.
  `TargetInv` carries this through the two restores, of which the second only
  touches the objects it has a newer container for.

- `C37Pmu_proofs`: `TypeCorrect`, `AllFramesAccounted` (`EveryFrameAccounted`),
  `OrderKept` (`StoredInOrder`) and `DecodedRight` (`DecodedAsEncoded`), for any id
  codes, sizes of queues and batches, and faults. For each stream a frame passes
  through five places: the network, the queue of its id code, a batch of the process
  loop, the inserter's worker, the stream. `Account` says that each number that was
  sent is lost to the stream or in one of them, and that what is in a later place
  was sent before what is in an earlier one (`Before`). Three lemmas, for
  all the actions, say that this stays so when frames get from a place to another
  (`Moves`), are lost (`Goes`) or are sent (`Comes`).
  `StoredInOrder` is not inductive without the order in the places that are not
  stored yet. `NetOk` does the same for configurations: of a data frame that is
  `sure` and on its way, the reader has the configuration that it was encoded with,
  or gets it before the frame; so it does for what will be sent behind a present
  configuration (`current`).
- `Gen2Inserter_proofs`: `TypeCorrect`, `BoundKept` (`QueueBounded`),
  `RecordsAccounted` (`EveryRecordAccounted`), `StreamMadeOnce` (`OneStream`) and
  `AnnotationsNotForgotten` (`AnnotationKept`), for any devices, workers, keys and
  offers. `Account` gives each record one place: with a device, in its batch, in
  the channel, with a worker, in its buffer, in BTrDB, or lost; again one lemma
  moves it, and the count of records by kinds of places (`KindsCount`) follows.
  `CountOk` is `CountIsQueue`: it needs that no record is in two places, or its
  bytes would be taken from the count twice. The bound is not inductive, and was
  the hardest to strengthen: several devices may have passed the test without
  having added yet. `BoundOk` speaks of the one that tested *last*. It saw all
  that had been added before, so that its batch fits, and each of the others at
  that point can add the largest batch at most. `WorkerOk` says who has `cachemu`,
  and that there is still no stream of a name while a worker that looked in vain
  has it. `AnnsOk` is `AnnotationKept` for records in buffers as well.

  The count is a sum over a set. That such sums grow by what is added (`TotalStep`)
  needs an induction, which is proved from the library's theorem that a
  well-founded order has minimal elements (`Smallest`, `FromZero`): that one has
  no operator for a parameter, as the induction theorems have.

Only model-checked: everything under fairness (`EventuallyServed`,
`EventuallyIngested`, `ManifestTakesEffect`, `EveryFileAnswered`, `QueuesDrain`,
`Reconnects`, `Drains`, `Ends`, `FollowsManifest`, `ImportEnds`), which is beyond
this prover. Every invariant that a passing run checks is proved as well. The type
invariants of `DeviceLock` and `UploadPipeline` are proved and not checked by a
run of their own, and so are the two theorems that carry the promises of
`DeviceLock` over to `Gen2Engine`.

## Not modelled

- The other rows of the table of components: planned, see below, or without
  behaviour of their own (generated code, templates, tools that run once, the
  Mr Plotter command line). `gen2daemons/fnet` does not compile.
- Bytes: the framing of uploads, the frames of C37.118 (but see the plan), the
  one-second sets of `upmuparser`.
- Statistics, logs, metrics.
- The only JavaScript of the repository, `tools/apifrontend/swag`: the minified
  distribution of swagger-ui, which the frontend serves as a static page. It is
  neither of this system nor meant to be read.

## Plan

Done, in this order, because the rest relies on it or it is most exposed to
concurrency: device locks; upload pipeline; `pmu2btrdb`; C37.118 connection;
the Gen2 inserter; backup and restore; access control with the frontend's cache;
the Gen2 engine; the bulk import.

Next, by importance:

1. `Gep`: the metadata of `gepingress` before `Gen2Inserter`. It notes a change
   of metadata as told before `ProcessBatch` decides whether to drop the batch.
   Property: annotations of a stream are in the end the metadata's.
2. `Backup` with etcd: what of the two stores is consistent, and what comes back.
3. `Frames` with the resynchronisation of `readFrame`, `Framing` of the receiver
   and of `pmu2btrdb`: limits and resets over any division of a message into
   reads; scaling of phasors, analogs and frequencies with their 16-bit values,
   as operators against a reference.
4. `CertProxy`: renewal beside use, and what the other daemons find in etcd;
   `AdminCommand`: a cancelled command that still runs.

Where a question of the plan is a small one, it joins the run of the module it
belongs to and gets no run of its own.
