# A TLA+ verification of iproute2

iproute2 is a set of command-line tools (`ip`, `tc`, `bridge`, `ss`, `nstat`,
`ifstat`, `devlink`, ...) that configure the Linux network stack over netlink.
Most of its lines parse options and print answers. What is hard to get right is
smaller: the netlink handle that many commands share, the caches and loops built
on it, a few programs with a history file or a daemon, several processes at work on
one directory, and some algorithms. This directory models that part.

Contents: [inventory](#inventory) · [modules](#modules-and-code) ·
[runs](#runs) · [bounds](#bounds) · [fairness](#fairness) · [proofs](#proofs) ·
[disagreements](#disagreements-between-code-and-documentation) ·
[limits](#what-is-not-modelled)

## Inventory

| Part | State | Operations | What is hard |
|---|---|---|---|
| netlink handle, `lib/libnetlink.c` | `struct rtnl_handle` (`seq`, `dump`), the socket's receive queue, a dump running in the kernel | `rtnl_open`, `rtnl_talk`, `rtnl_echo_talk`, dump requests, `rtnl_dump_filter`, `rtnl_send_check`, `rtnl_listen`, `rtnl_close` | calls that end early leave answers for the next call; sequence windows; interrupted dumps; datagrams of other processes |
| batch mode, `lib/utils.c`, `ip/ip.c` | exit code, `-force`, one handle for all lines | `do_batch`, `batch` | a failure must survive later successes |
| link cache, `lib/ll_map.c` | two hashes over `struct ll_cache`, lists of alternative names | `ll_remember_index`, `ll_drop_by_index`, `ll_name_to_index`, `ll_index_to_name`, `ll_init_map` | stale names, parents and their alternative names, colliding buckets |
| `ip monitor`, `ip/ipmonitor.c` | the cache and a subscribed socket | initial dump, notifications | notifications during the dump, overruns, messages of bridges and other namespaces |
| `ip link` in a batch, `ip/iplink.c` | the cache | `iplink_modify`, `iplink_prop_mod` | renames seen by later commands, devices that change behind the cache's back |
| flush loops, `ip/iproute.c`, `ipaddress.c`, `ipneigh.c`, `tcp_metrics.c`, `xfrm_*.c` | request buffer, counters of rounds and of requests | dump, filter, `flush_update` | deleting in the middle of one's own dump; errors behind a dump; other processes; termination |
| `nstat`, `misc/nstat.c` | history file and lock, the daemon and its children | a run's steps, `server_loop` | concurrent runs, crash while rewriting, reboot, changing source |
| `arpd`, `misc/arpd.c` | database, flags set by signals, rate limiter | poll loop, handlers, signal handlers, exit | signals that jump out of what they interrupt |
| `ifstat`, `rtacct`, `lnstat` | histories as in nstat, shared memory | scan, dump | counters that wrap, concurrent runs |
| `ip netns`, `lib/namespace.c` | `/var/run/netns`, its mounts and lock, the namespace of the process | add, attach, delete, pids, identify, exec, monitor | concurrent first runs, processes killed between two system calls, a directory that changes while it is read |
| `ip route save` and `restore` | a file of messages | `rtnl_from_file`, three passes | order of dependent routes |
| `ss`, `misc/ss.c`, `ssfilter.y` | compiled filter, output buffer, columns | parse, compile, evaluate; write, render; widths | jump offsets, tokens at the edge of a chunk, rounding |
| BPF loader, `lib/bpf_*.c` | maps pinned in the BPF file system | open, create, pin, share, fill maps of maps | a pin that appears or disappears between two system calls |
| `devlink dev flash` | a child, a pipe, a notification socket | `cmd_dev_flash` and its callbacks | notifications, acknowledgement and pipe in any order |
| `tc`, `bridge`, `rdma`, `tipc`, `dcb`, `vdpa`, `genl`, the rest of `devlink` | mostly none beyond the handle | parse, request, print | packing of keys |
| JSON writer, `lib/json_writer.c` | nesting, separators | start, end, names, values | balanced output |

`PROJECT.json` lists the same parts with the modules that model them, and the
hazards of the code at their lines with the properties that would catch them.

## Modules and code

```
Rtnl -------- IpBatch                ArpdProbe -- Arpd -- ToolsProofs
  \             \- RtnlCallProofs    DevlinkFlash ------/
   RtnlProofs ----/                  Nstat ------ NstatProofs
LlMap -- LinkMonitor --\             SsOutput --- SsProofs
  \----- LinkBatch ------ IpProofs   SsFilter
Flush, RouteRestore ---/             SsWidth
Netns, NsScan --- NetnsProofs        BpfMaps ---- BpfMapsProofs
                                       \ implements MapRegistry
```

Each `MC` module gives the parameters of a specification their values for TLC. Where one
specification is to be checked under several circumstances (with and without
`-echo`, with and without failures, ...), these are a set of records (`Settings`,
`Setups`, `Budgets`, `Commands`), and `Init` chooses one that never changes afterwards.
`MCRtnl`, `MCIp` and `MCTools` hold several programs each: the variable `program` says
whose behaviour this is, its actions are enabled and the variables of the others stand
still. A property of one program says nothing about the others, whose variables keep
their initial values.

**Rtnl** (`lib/libnetlink.c`). `seq` and `dump` are the handle's fields, counted
from the `time(NULL)` where `seq` starts; `rcvq` is the receive queue, a sequence of datagrams, each a
sequence of messages; `got` and `intr` are locals of `rtnl_dump_filter_l`.
A message keeps what the receive loops look at: its type, its number, whether it
comes from the kernel for this port, and `NLM_F_DUMP_INTR`. `TalkSend` is the
first half of `__rtnl_talk_iov`; `TalkReturn`, `TalkNext` and `RecvFails` are its
receive loop, one datagram at a time. `DumpReturn` and `DumpNext` are the loop of
`rtnl_dump_filter_l`; `SendCheckSend` and `SendCheckPeek` are `rtnl_send_check`.
The kernel is external: it answers a request inside `sendmsg` and produces the
next datagram of a dump inside `recvmsg` (which is what makes "peek without
waiting" in `rtnl_send_check` meaningful); it may refuse, stop a dump with an
error, flag it as interrupted, and it refuses a second dump while one runs on the
socket. `outcome` and `last` record what the kernel did and what the call said.

**IpBatch** (`lib/utils.c`, `ip/ip.c`) runs those calls on one handle; `Settle`
is what `do_batch` does with a command's return code.

**LlMap** (`lib/ll_map.c`) is a module of operators on the cache and the kernel's links.
The cache is one sequence of entries (name, index, kind, bucket), newest first: that is the
order of every chain, so the first entry of a bucket that carries a name is what
`ll_get_by_name` returns. `ll_entry_update` moves a renamed entry to the chain of
the new name and keeps the name it carries, as the code does;
`ll_drop_by_index` frees the parent and leaves its alternative names ("orphan"). A message is
the names it carries: `NoName` stands for a missing `IFLA_IFNAME`, and without
`IFLA_PROP_LIST` there are no alternative names. `Hash` is a parameter.
**LinkMonitor** composes it with a subscribed socket (initial dump,
notifications, overruns). `ll_remember_index` looks neither at the family nor at the
namespace of a message, so besides the link itself two others speak of an index: a bridge
tells of its port without alternative names, and `RTM_DELLINK` when the port leaves it
(`BridgeTells`); with `all-nsid` another namespace tells of whatever has that index there
(`OtherTells`). `heard` is a history variable: who spoke last of each index.
**LinkBatch** composes it with commands of a batch: `iplink_modify` of a device, of a group
(`GroupModify`) and of a new device (`IplinkAdd`), `iplink_prop_mod`, lookups and
listings. A deleted device may take others with it, and other processes change devices too
(`Elsewhere`). The history variable `behind` collects the devices that have lost a name
without `ll_drop_by_index` of their entry, and those that were dropped with
alternative names, which stay in the cache.

**Flush** is the loop the six flush commands share, with their differences (limit
of rounds, masked interruption, ignored error; a full buffer is sent, or what does not fit
is left to the next round by `xfrm_policy_keep`, or fails the command in `xfrm_state_keep`) as
conditions on `cmd`. A request is a number in `buf`. The kernel may leave objects
out of a dump during which its table changed.

**Netns** (`ip/ipnetns.c`, `lib/namespace.c`). A process is a place in `netns_add` or
`on_netns_del`, and each system call whose effect others can see is a step: `Flock`,
the three `mount`s of the directory (`MakeShared`, `BindDir`, `MakePrivate`), `CreateFile`
(`O_CREAT|O_EXCL`), `Unshare`, `MountNs`, the cleanup `OutDelete`, `Umount`, `Unlink`.
A process may be killed between any two, `flock` may not work, and the calls may fail;
`netns_save` and `netns_restore` then exit (`GiveUp`, and in `MountNs`).
A name is a file plus the stack of namespaces mounted on it. `claim`, `raced` and `abandoned` are
history variables. `netns_delete` of `-all` reads the directory an entry at a time; `-all` is a
flag of the process, so it also widens the cleanup of a failed add (`Cleanup`).

**NsScan** (`ip/ipnetns.c`) is `netns_pids` and `netns_identify_pid`: one namespace is
opened, a directory is read entry by entry and each entry's inode is compared, while
processes and names come and go and the kernel reuses inodes.

**RouteRestore** (`ip/iproute.c`, `rtnl_from_file` of `lib/libnetlink.c`): the three passes of
`iproute_restore` over the saved messages. `Turn` is the test in `restore_handler`.
What the kernel accepts is external: a gateway needs a directly connected network, a
preferred source needs a local address.

**SsFilter** (`misc/ssfilter.y`, `misc/ss.c`): `Parse` is the grammar's actions,
`run_ssfilter` the interpreter, `ssfilter_bytecompile` and `ssfilter_patch` the compiler;
the kernel's `inet_diag_bc_run` and its audit are external. Instructions have their
lengths in bytes, so that jumps are what the code computes. A condition has one meaning
for the program and the kernel (`Holds`).
**SsOutput** is the buffer of chunks: `vout`, `buf_update`, `field_flush`, `field_next`,
`field_set` and `render`. A token is its place in the chunk and its length, in bytes;
`wrote` records which fields were written. Some columns (`free`: services, `COL_PROC`) may be left
empty or be written several times, and a socket may end in one. **SsWidth** is `render_calc_width`, two pure passes.

**DevlinkFlash** (`devlink/devlink.c`). The parent's loop in `cmd_dev_flash` is `Select`,
then `ReadNotification` or `NoNotification`, then `ReadPipe`, and `ReadAnswer` takes the
acknowledgement; the child sends the request, which may fail, waits for the kernel and writes what
`_mnlg_socket_send` returned to the pipe; the kernel
flashes, notifies (a begin message, status messages, an end message) and drops notifications a full socket cannot take; another process may
have flashed the same device.

**BpfMaps** (`lib/bpf_legacy.c`): `bpf_maps_attach_all` and `bpf_map_attach`, a step for each
system call on the BPF file system (`ProbePinned`, `ProbeMissing`, `CreateMap`, ...), with
the one retry of a lost race, the second pass for maps of maps and the insertion of inner
maps. A map of maps may lack its inner map ID, or the object the map of that ID. `fdinfo` is what
`/proc` tells of a pinned map: its shape, nothing but zeroes (then `bpf_map_selfcheck_pinned` accepts any
map), or nothing at all (then it fails). **MapRegistry** is what this promises, an atomic table of maps; `BpfMaps`
implements it (`Registry`, with `reg <- pins` and what loaders hold as `held`).

**Nstat** (`misc/nstat.c`). A run passes through `flock`, `load`, `fetch`,
`output`, `truncate`, `write`; each is a step, so that runs interleave and are
killed in between. A history file is an inode with its lock, its source and its
values; `nstat -r` unlinks it and a new one is created. A run asks its user's
daemon, then root's (`nstat0`), then the kernel; a daemon answers with its last scan. A value of 0 stands for "no
entry", as in the files. `reported` adds up what the runs that update a history have reported.

**ArpdProbe** and **Arpd** (`misc/arpd.c`). ArpdProbe is the token bucket of
`queue_active_probe`. Arpd is the main loop: `pc` is where `main` is, `Signal` is any
of the handlers at any point, and with `in_poll` set it takes `pc` back to the
top of the loop (`siglongjmp`). `disk` is what of the database has been synced.

## Runs

| Run | Module | Checks |
|---|---|---|
| `rtnl` | MCRtnl | calls on one handle, and `ip -batch` |
| `batch_echo` | MCIpBatch | *violated*: the exit code with `-echo` |
| `ip` | MCIp | monitor, link batch, flush loops, netns, scans of netns, route restore |
| `flush_address` | MCFlush | *violated*: `ip -loops 0 address flush` removes all addresses |
| `route_restore` | MCRouteRestore | *violated*: routes are restored in an order the kernel accepts |
| `nstat` | MCNstat | lock, conservation, sources, crashes |
| `nstat_busy` | MCNstat | *violated*: a run prints increments only |
| `arpd` | MCArpd | answers, burst, signals and exit |
| `arpd_exit` | MCArpd | *violated*: a signal leads to a graceful exit |
| `arpd_rate` | MCArpdProbe | *violated*: the rate stays below B + R*T |
| `tools` | MCTools | filter, buffer and columns of ss, devlink flash, BPF maps |
| `ss_hosts` | MCSsFilter | *violated*: `dst HOST` selects every address of HOST |

`rtnl` shows that `rtnl_talk` never reports the success of a refused request if
nothing of the request just before is left in the queue (`CleanTalkTruthful`),
and that without `-echo` and early ends it reports exactly the outcome (`TalkTruthful`).
A dump that returns 0 has delivered each object once, also
after a dump that was given up (`DumpComplete`), and an interruption that was
flagged on any message is reported at the end (`DumpIntrReported`).
`rtnl_send_check` on an empty queue misses no refusal, unless another process's datagram comes first
(`FlushTruthful`). Every call returns (`CallReturns`). A batch without `-echo` that
contained a refused command exits with an error, though calls fail in between
(`BatchReportsErrors`).

`ip`, by program:

- monitor: provided that no notification was lost or skipped, the cache holds, among the
  indexes of which the link itself spoke last, exactly the devices and their alternative names
  (`MonitorCacheComplete`). A name
  leads to the device that has it, with two exceptions that the property states: an old name
  that shares a bucket with the new one is still found, and so is the name of another namespace
  that spoke last (`MonitorNamesRight`). What a bridge says last may take entries away and never leads astray;
- link batch: a name in the cache is a present name of the device it leads to, except for
  devices that changed behind the cache's back (`BatchNamesRight`);
- flush: exit code 0 means nothing selected is left if nobody else interfered in
  the last round (`FlushComplete`). If someone did, an object may be missed only with a
  warning (`FlushWarned`, `ip address flush` excepted). The loops end even with an object
  that cannot be deleted (`FlushEnds`);
- netns: with a working `flock` the directory is mounted on itself once, in a peer group of its
  own (`MountedOnce`). A name that was reported made stands for that namespace until it is
  deleted (`NamesBound`). Nothing half made is left of a name unless its add or delete was cut short by a
  kill, an `exit`, or a cleanup with `-all` (`NothingHalfMade`), and what is left then
  `ip netns delete` repairs (`DeleteRepairs`). Every command ends (`CommandEnds`);
- scans: what is printed was in the namespace that was opened, never in a younger one with
  the same inode, and who was there throughout is printed (`ScanExact`);
- restore: single-hop routes are restored in any order of the file, and success means all
  of them (`RestoreComplete`).

`nstat`: runs exclude each other (`Exclusive`). What they report is never more than what
the history holds, and without patterns it adds up to it (`Conserved`).
The history is never ahead of the counters it is compared with, across reboots,
changes of source and killed runs (`NoOverflow`).

`arpd`: what the kernel is told was heard last (`KernelToldHeard`), and the burst is
kept (`BurstBound`). A SIGHUP during a sync loses nothing
(`SyncKept`). A SIGTERM ends the daemon (`Exits`), and gracefully unless another signal
comes after the loop was left (`ExitsGracefully`).

`tools`, by program:

- filter of ss: the bytecode passes the kernel's audit and selects what `run_ssfilter` would, for every
  nesting of `and`, `or` and `not` and conditions that compile to nothing (`CompiledAgrees`). This is
  about the jumps; the conditions themselves are taken to mean the same on both sides;
- buffer of ss: no token reaches beyond its chunk (`WithinChunk`); render prints what was written
  (`RenderedAsWritten`);
- columns of ss: least number of lines (`LinesLeast`), and columns that fill each line and
  share its space equally (`SpreadEqually`), both as the comment above the function says;
- flash: success is reported only for a device that was flashed (`FlashTruthful`) and, once a
  status message was shown and when nobody else flashes the device, after all of them were read
  (`StatusShown`). The command returns
  unless its child is killed (`FlashReturns`);
- BPF: concurrent loads implement the atomic registry (`PinningAtomic`), one retry suffices
  (`RetryEnough`), maps of maps are filled (`OuterFilled`).

## Bounds

- `rtnl`: three requests are the least in which an answer can be left by a
  request, skipped by the next and met by a third. With faults, echo and a peer's
  datagram at once, two requests. Two objects, one per datagram, give dumps of
  one to three datagrams. A batch has three commands.
- monitor and link batch: two devices, three names of which two share a bucket;
  three notifications (create, rename, alternative name, delete, a bridge, another namespace)
  or five commands; a batch may start with devices that have an alternative name; a
  receive buffer of two messages, so that overruns happen.
- flush: four objects (one not selected, one the kernel refuses, one that is
  deleted together with another), one request per buffer and one object per datagram, so
  that every buffer is sent in mid-dump; one change by another process.
- netns: two processes of two commands each on two names, one kill. The races need two
  processes; a second command shows what the first one left. In one setting a process has `-all`.
- scans: two tasks, two names, two inodes, four moves: enough for a namespace to die and its
  inode to come back while it is looked for. Restore: any order of up to five single-hop routes
  of the three kinds, one deletion by another process.
- `nstat`: three runs, two counters up to 3, two inodes, one reboot, the user's and root's daemon.
  The five children of the daemon are 1, or as many as there are runs.
- `arpd`: two addresses of which one is watched, two link-layer addresses, three
  messages without signals or three signals with one message; the clock has two ticks.
- ss: lists of up to three conditions, with parentheses around up to two; chunks of ten
  bytes and tokens of at most five, so that two tokens fit, just fit, and do not; three
  columns, one of which may be empty, and three rows; screens narrower and wider than the columns.
- flash: up to three status messages and a socket that holds three, so that notifications
  are lost. BPF: three loaders of one map, two of a map of maps, two removals of a pin, with
  each answer of `fdinfo`.

The largest run, `ip`, has 702,000 distinct states; `tools` has 150,000.

The [theorems](#proofs) lift these bounds for the properties they state.

## Fairness

Only weak fairness of steps a process takes by itself. Rtnl: `Receive`, because
`recvmsg` returns once there is something to read, and nothing else blocks in the loops.
Flush: the loop. Netns: each process' steps; one that waits for `flock` gets
the lock when it stays free. Flash: parent, child and
the kernel, which finishes every flash. BPF: each loader's steps. Nstat: each run's own steps. Arpd:
`Main`, because `poll` has a timeout. Nothing is assumed of the kernel's contents, other
processes, signals, kills or the clock. Programs may stop after their last action, so
the configurations do not check for deadlock.

## Proofs

Each proof module extends the module it is about; the only assumptions are the named ones
of that module, which give the types of the constants. Numbers of processes, names, requests,
messages and objects are arbitrary. The proofs have one lemma or step for each action.

**RtnlProofs**: `TalkIsTruthful` (`Spec => []CleanTalkTruthful`) and `HandleTypes`
(`Spec => []TypeOK`). `CleanTalkTruthful` speaks of a call that has returned and
is not inductive; `IInv` adds what makes it so:

- every kernel message in the queue is *honest*: it carries the number of a
  request already made, and is an error exactly if the kernel refused that request;
- a dump that is still running belongs to a request that was accepted;
- while a talk that began clean runs, neither the queue nor a running dump holds
  anything of the request before it.

The receive window lets `seq` and `seq - 1` through; the third fact excludes
`seq - 1`, and the first then makes the message that ends the call tell the truth
about `seq`. The queue is described by the set its
messages belong to (`rcvq \in Seq(Seq(Honest(seq, outcome)))`), which turns
appending and removing datagrams into facts about `Seq`.

On `IInv` build `DumpsAreComplete` and `InterruptionsAreReported`.
`DumpInv` says of the dump under way that a message
which ends it is its last, after which the kernel has nothing more of it (`Ordered`);
that a flag is in the queue, in the kernel or already seen (`Flagged`); and that what was passed
on, what is queued and what the kernel still has add up to the total (`Counted`). For the sum over a
queue of any length, `Counted` asserts that a function of partial
sums exists, and each step exhibits the next one. Rests of dumps that were given up carry other numbers
and drop out of all three.

**RtnlCallProofs** builds on `IInv` too:

- `FlushesAreTruthful`: after a send on an empty queue, the first datagram is the answer to
  the first request that was refused (`FlushInv`).
- `TalkReportsOutcome`: without `-echo` and early ends each call leaves the queue without messages
  of its own, and has one answer in it while it waits (`CalmInv`), so the window of `rtnl_talk` admits
  nothing else.
- `BatchesReportErrors` (`BatchSpec => []BatchReportsErrors`), for batches of any length and calls that fail at any
  place. `BatchInv`: while no command has failed, each call has taken all its answers from the queue and the
  kernel has refused no command but the one that waits for its answer; after the first failure the exit code is settled.

**IpProofs**, commands of `ip`:

- `FlushesAreComplete` and `FlushesWarn`, for every table, size of the buffer and of the datagrams,
  set of refusals and dependent objects, and number of rounds. Both properties speak of a flush that has ended; what
  makes them inductive is an account of the round under way (`FlushInv`). As long as the round has
  requested nothing, each selected object that has been there since it began is still to come from the kernel, in the queue
  or before the filter (`Covered`); or the dump was disturbed, and `NLM_F_DUMP_INTR` is set in the
  kernel or in a queued message, or was seen (`Flagged`). Once something was requested, there is
  another round. Around this stand facts about the
  order of the queue: refusals may come anywhere between the parts of a dump, the end of a dump is
  its last message, and between rounds only refusals are left. What a buffer of requests does to the table is
  defined by recursion over the buffer, and the lemmas about it are proved by induction (`SetInduction`).
- `RestoresWhatWasSaved`, for all files and deletions: success means that every route was restored,
  since every route has its turn in some pass. `RestoresAreComplete` (`RestoreComplete`) adds that none is refused, for files
  of routes with one hop each in which the routes of local addresses have no gateway (`OneHopEach`); without this
  assumption it is false, as the run `route_restore` shows. `RestoreInv` says that what a pass has come past is in
  the kernel or was deleted by others; a route's turn is later than that of the routes it needs.
- `MonitorNames` and `MonitorComplete`, for any number of devices, alternative names, changes and messages of bridges and
  other namespaces, every hash of the
  names and every size of the socket's buffer. `MonitorInv` follows each device as long as nothing was missed
  (`Tracked`): the last message about it in the queue says what its source may say of the device now (`Told`); a device
  still to be dumped is not
  in the cache; and once no message about it is on its way, its entries *agree* with what was heard last
  (`Knows`): one parent, in
  the bucket of that name, and one entry for each alternative name (`Agrees`). A change of a device is always followed by
  a message about the link itself, so what a bridge said before is replaced. The parent may carry an
  old name, so `MonitorNamesRight` needs its exception. That `ll_remember_index` leads from any entries of a device
  to entries that agree with the message, and touches no other device's, is the lemma `Remembered`; it needs that
  the entries of each device have agreed with some state of it (`Shaped`).
- `BatchNames`, for batches of any length. `BatchInv`: an entry of a device that is not in `behind` is proper
  (`Proper`): a parent carries the device's name, any other entry one of its alternative names. `iplink_modify`
  drops the parent, so a new name disturbs nothing; a deleted device has no other entries unless it has
  alternative names, which puts it in `behind`; so an index without a device has no entries left when it is used
  again, unless it is in `behind`.

**BpfMapsProofs**: `PinningIsAtomic` (`BpfSpec => PinningAtomic`, the refinement), `LoadersShare`
(`MapsShared`) and `LoadersFit` (`MapsFit`: no loader gets a map of another shape, where the kernel shows the shapes). The
refinement rests on one fact of `BpfInv`: a map that was created and is not yet
pinned is private, no pin leads to it and nobody else holds it; so the step that pins it, or that
finds it pinned, is an `Acquire`, and every other step a stutter or a `Forget`. Two more theorems build on it:

- `OneRetrySuffices` (`RetryEnough`), for any number of loaders that race. `RetryInv`: a loader that probes again has
  lost to a map that is pinned under its name for good and has the shape it wants, so the second probe finds it.
- `OutersAreFilled` (`OuterFilled`), although the loader that creates a map of maps enters the inner ones only at
  the end, when others may have attached it. `OuterInv`: a map of maps that is pinned or held has each inner map,
  or some loader that holds it has yet to enter the missing one, or has failed. It is proved for loaders that load the same object
  wherever they share a map of maps (`SameLayout`): an inner map is known by its place in the object, and two
  objects could mean different maps by one place. The set-ups that TLC checks all satisfy it.

**NetnsProofs**: `MountsAreMadeOnce`, `NamesStayBound`, `NothingIsHalfMade` and
`NamespaceIsRestored`. `LockInv` puts one process at most between the test of the
directory and its mount; `GroupInv` follows the peer group through the three mounts.
`NameInv` says of a name that no delete raced with: at most one process is making it (`O_EXCL`), its file
is there and nothing is mounted on it yet, and a file without a namespace has a process
that is making or deleting it, or was abandoned by one. `SavedInv` says that something is saved only between
`unshare` and the restore, and that it is the namespace `ip` was started in.
`DeletesRepair` (`DeleteRepairs`) rests on `AloneInv`: while a delete, or the cleanup of an add with `-all`, has been the only command since it started, the names it has
still to read are exactly the files that are left, and a name that was not raced for has no mount once `umount2` has run,
so that `unlink` succeeds; this takes from `NameInv` that such a name has one mount at most.
`ScansAreExact`, for any number of tasks, names and inodes and any reuse of inodes. `ScanInv`: a namespace
that someone refers to is the youngest of its inode, and the scan itself refers to the one it looks for
while it reads, so equal inodes mean equal namespaces; what was there
throughout is found or still to be read (`Owed`).

**NstatProofs**: `RunsExcludeEachOther`, `HistoryNeverAhead` and `NothingReportedTwice`. `LockInv`: a run holds the lock of its
file from `flock` to its exit. `CoverInv`: a history that will be compared is not
ahead of its source, a daemon's table is not ahead of the kernel's, and neither is what a
run has loaded and fetched; an aged history is exempt because `load` empties it, and a torn one because
what is left of it is only smaller. `AccountInv`, for runs without crashes and daemons, settles `Conserved`
(`NothingReportedTwice`): what was reported of a file is at most what the file holds, and equal to it if all
runs report the whole table; while a run rewrites the file, the table it is about to write takes the file's place. `LockInv`
enters here: two runs in that place would each account for the other's report.

**ToolsProofs**, arpd: `ProbesWithinBurst` (`ProbeSpec => []BurstBound`) for
every rate, burst and length of time. The invariant adds that what was spent at
the present time plus what is left in the bucket does not exceed the burst, which
holds because `prev` is set by every probe sent, so no time is credited twice at one moment. `ArpdLimitsProbes`
(`ArpdSpec => ProbeSpec`) shows that the main loop implements the limiter, so it keeps the burst too (`ArpdWithinBurst`).
`KernelIsToldHeard`: an address in the database is the one heard last and not withdrawn or failed since
(`HeardInv`), on whichever socket. `SyncsAreKept` and `ArpdExitsGracefully`
(`SyncInv`, `ExitInv`): a signal may find `main` at each of its places, and what it interrupts is done again or
was complete.

**ToolsProofs**, devlink: `FlashIsTruthful` and `EveryStatusIsShown`. `AnswerInv`: the
acknowledgement is the outcome of the child's own request. `ShownInv`: a loop that has shown a status message
ends only after the end message (`LoopInv`), and if nobody else flashes the device every status message is before
the end message in the queue, so none is left when that has been read (`EndInv`).

**SsProofs**: `TokensWithinChunks` (`WithinChunk`) and `RenderPrintsWritten` (`RenderedAsWritten`), for every
even size of a chunk with room for the longest token, every set of columns, lengths of fields and number of
sockets, and every limit of the chunks. Both are parts of one invariant, `OutInv`:

- the tokens of a chunk follow one another at even places (`Chained`); the last chunk ends with the token that is being written
  (`OpenChunk`), each other one at the aligned end of one of its tokens, where the replay stops (`ClosedChunk`). Since places
  and the size are even, there is always room for the padding, and the unsigned `avail - pad` of `field_flush` does not wrap;
- the tokens a render would find now are, one by one, the fields written since the last render (`Following`). The place of a token
  follows from that of the one before, so this is enough for lines and columns too; the last token
  may be ahead of its field, empty, while `field_set` passes over columns that are not shown.

`buf_update` changes the length of the last token and no other, also where it moves it to a new chunk:
the token left behind lies beyond the end of its chunk and the replay does not see it.

Only model-checked:

- all liveness properties: fairness and ENABLED are outside the prover's reach;
- what the RECURSIVE operators of SsFilter and SsWidth compute (`CompiledAgrees`, `LinesLeast`,
  `SpreadEqually`): the prover has no SMT backend in a module that reaches one.

Every other safety property of a passing run is proved.

The library's induction theorems take an operator as a parameter, which the provers cannot instantiate. Where an
induction is needed it is done on sets: the numbers for which a fact fails have a least element (`LeastOf`, from the
well-foundedness of the order), so a set with 0 and all successors is all of `Nat`.

## Disagreements between code and documentation

Each has a run that TLC finds violated.

- `batch_echo`: `rtnl_echo_talk` reads the echoed object and leaves the
  acknowledgement; the next `rtnl_talk` accepts it, since its window includes the previous
  number (`lib/libnetlink.c:1069`), and a refusal is not reported. `ip(8)` says the exit code will be non-zero.
- `flush_address`: `ipaddr_flush` masks `NLM_F_DUMP_INTR`
  (`ip/ipaddress.c:1996`), so an incomplete dump that shows nothing to delete ends the loop
  silently. `ip(8)` on `-loops 0`: "loop until all addresses are removed".
- `route_restore`: `restore_handler` tells the pass of a route from `RTA_GATEWAY`
  (`ip/iproute.c:2319`), which a multipath route does not have; it is sent in the first pass and
  refused, and the restore ends. The comment above says "Restore routes in correct order".
- `nstat_busy`: a daemon with all its children busy closes the connection, the
  client takes that for an empty table and writes an empty history
  (`misc/nstat.c:498`), and the next run prints absolute values.
- `arpd_exit`: `main` leaves its loop with `in_poll` set, so a signal during
  `dbase->close` jumps back and the database is closed twice.
- `arpd_rate`: a suppressed request fills the bucket without moving `prev`, so the
  same time is credited again and again (`misc/arpd.c:253`).
- `ss_hosts`: a host with two addresses compiles to two comparisons with the first
  (`misc/ss.c:1961`), while `run_ssfilter` tries them all.

Observed while modelling, without a run:

- `ll_drop_by_index` leaves the entries of alternative names in the name hash although the
  comment at `ip/iplink.c:1187` says the device is removed from the cache; `ip monitor` keeps
  printing the old name of a renamed device.
- The name a cache has of a device survives what `iplink_modify` does not drop it for: `ip link del group`
  and `ip link set group ... netns` (`req.i.ifi_index` is 0, `ip/iplink.c:1188`), the peer or the upper devices that go with a
  device, `ip tunnel del`, changes by other processes. If the index is used again, the next command of the
  batch that gives the old name works on the new device.
- `ip monitor` gives every `RTM_NEWLINK` and `RTM_DELLINK` to the cache (`ip/ipmonitor.c:102`). A port that leaves a bridge loses
  its entries, and a lookup fetches them again; a port that joins one loses its alternative names until the link is next
  notified of. With `all-nsid` a link of another namespace replaces the one with the same index.
- `run_ssfilter` takes `autobound` for a port in the ephemeral range (`misc/ss.c:1817`) and the kernel for a port that
  was not asked for, and only `inet2_addr_match` has rules for v4-mapped addresses, so that the kernel and the program can
  disagree on a condition. A socket is shown if both select it.
- `xfrm_state_keep` fails a delete-all whose requests do not fit into the buffer (`ip/xfrm_state.c:1183`), where `xfrm_policy_keep`
  leaves the rest to the next round (`ip/xfrm_policy.c:769`).
- A flash that has ended by the time the begin message is read is reported without any status message
  (`devlink/devlink.c:4674`).
- Where the kernel has no fdinfo for maps, a pinned map of any shape is accepted (`lib/bpf_legacy.c:478`).
- `ss(8)` (line 480) gives `and` precedence over `or`; the grammar joins them from left to right
  (`misc/ssfilter.y:64`).
- After a render in mid-output there is no chunk until something is printed. An SCTP association has an
  empty Netid (`misc/ss.c:1460`), so `field_flush` then reads through a null pointer; the model records
  this as `crashed`.
- The cleanup of a failed `ip -all netns add` deletes every name (`ip/ipnetns.c:904`), and stops at the
  first that it cannot remove. If `netns_save` fails, the file of the name stays behind (`ip/ipnetns.c:739`).
- `nstat -a` with patterns carries the values of a history from before a reboot over to the new one.
- `ifstat`'s daemon loses a wrap of a 32-bit counter (`misc/ifstat.c:639`) and never adds an
  interface that appears later (`misc/ifstat.c:631`).
- `arpd -f` stores through a pointer that was never set (`misc/arpd.c:725`).

## What is not modelled

- In the modelled parts: malformed or truncated netlink messages (the code
  reports or exits), requests of several messages in one `rtnl_talk_iov`, filter chains of more than one filter,
  wrap-around of `seq`, flags and types of links and `if%u` names in the cache, the lookup of `ip monitor ... dev`
  before the initial dump,
  `ip route flush cache`, `ip netns exec`, `set`, `list-id` and `monitor`, address families,
  prefixes, marks and v4-mapped addresses in filters of ss, nstat's rates and parsing of `/proc`, arpd's `-l` and
  `-f`, its packet formats, and its clock being set back (one monotonic clock stands for
  `time` and `gettimeofday`).
- Parts without a module have status `not_modelled` in `PROJECT.json` with the
  reason. They are by far the larger part of the repository by lines: option parsers that fill a
  netlink request, and printers that format an answer, for every object of `ip`, `tc`, `bridge`,
  `devlink`, `rdma`, `tipc`, `dcb` and `vdpa`. They run once, keep no state between two calls and
  interleave with nothing; a model of one would repeat its table of keywords and attributes. The share of
  the repository's lines that the modules stand for is small for this reason.
- `ifstat` and `rtacct` keep a history as `nstat` does and would repeat Nstat; `lnstat` and
  `ip vrf` have no state that others share.
