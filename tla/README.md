# A TLA+ development of the KiwiSDR server

KiwiSDR (`Beagle_SDR_GPS`) is a web server for a software-defined radio: one
Linux process, written as a set of cooperative tasks, drives an FPGA over SPI,
processes the samples, serves browsers over websockets, and tracks GPS. This
directory holds TLA+ modules of its core logic, TLC configurations that check
them on small instances, and proofs checked by TLAPS.

Source lines below are relative to `src/`. Every definition that models code is
listed with its lines in `PROJECT.json`, under `map`; definitions called
`X_Something` next to an `X` and introduced as a faulty variant are plausible
bugs, used to check that the properties notice them.

1. [Inventory](#1-inventory)
2. [The modules and the code](#2-the-modules-and-the-code)
3. [What the runs check](#3-what-the-runs-check)
4. [What is proved](#4-what-is-proved)
5. [Where code and comments disagree](#5-where-code-and-comments-disagree)
6. [What is only model-checked, and what is not modelled](#6-what-is-only-model-checked-and-what-is-not-modelled)
7. [Plan](#7-plan)

## 1. Inventory

| Component | State | Operations | Interacts with |
|---|---|---|---|
| Coroutines and locks, `support/coroutines.cpp` | `Tasks[]`, `TaskQ[]`, `cur_task`, each task's stopped/sleeping/wakeup flags, deadline, priority and lock fields; each `lock_t`'s enter/leave counters, owner, users | `_CreateTask`, `TaskRemove`, `TaskCollect`, `_NextTask`, `_TaskSleep`, `TaskSleepID`, `_TaskWakeup`, `lock_enter`, `lock_leave` | everything runs on it |
| Shared-memory IPC, `support/shmem.cpp` | per signal: `request[]`, `done[]`, `no_wait[]`, `which_hiwat`, the child's `child_signalled` | `shmem_ipc_setup/invoke/poll`, the child's loop and signal handler | SPI, waterfall, WSPR, DRM |
| Network buffers, `net/nbuf.cpp` | the pool `nbuf[]`, per `ndesc_t` a list with producer and consumer ends, `cnt`, `ovfl`, ttl | `nbuf_malloc/free/enqueue/allocq/dequeue/queued/cleanup` | web server, sound, waterfall |
| Connections, `rx/rx_server.cpp`, `rx/rx_util.cpp` | `conns[]`, `rx_channels[]`, links between SND, W/F, EXT and MONITOR connections | `rx_server_websocket`, `rx_server_remove`, `rx_enable`, `rx_chan_free_count` | web server, coroutines |
| SPI, `platform/common/spi.cpp`, `spi_dev.cpp` | the pipelined previous command, the shared buffers, `spi_lock` | `spi_set*`, `spi_get*`, `spi_scan`, `spi_pump` | coroutines, embedded CPU |
| Data pump, `rx/data_pump.cpp` | `itask_run`, `have_snd_users`, the counters of the FPGA's buffers, a ring of sample buffers per receiver channel | `data_pump_start_stop`, `snd_service` with its reset and its stop, the sound task's reads | SPI, connections, sound |
| Embedded CPU and FPGA, `e_cpu/*.asm` | the FPGA's sample buffers and their counter, the interrupt, the command in the MOSI buffer | `Ready` (one command after another), `CmdGetRX`, `CmdSetRXNsamps`, `RX_Buffer` | SPI, data pump, GPS |
| Monitor queue, `rx/rx_monitor.cpp` | camping and queueing fields of a connection, `n_camp`, `camp_conn[]` | `MON_CAMP`, `MON_QSET`, `MON_QPOS` | connections, sound |
| Extensions, `extensions/ext.cpp` | registered extensions, one user per receiver channel | `ext_register`, `ext_switch_to_client`, `ext_blur`, `ext_kick` | connections |
| Background commands, `support/non_block.cpp` | child process and polling task | `non_blocking_cmd_func_*` | update, services |
| Blacklist, `net/ip_blacklist.cpp` | the list in use, its hash and mtime | download, check, add | services |
| Update, `net/update.cpp` | pending / in progress / done flags | `check_for_update`, `schedule_update` | admin |
| Configuration, `cfg/cfg.cpp` | parsed JSON, dirty flags, file | get/set/save | all |
| GPS, `gps/*.cpp` | search state, channels, ephemeris | search task, channel tasks, solver | SPI, shmem |

The rest (signal processing, the decoders, commands and formatting, devices,
start-up) is listed in `PROJECT.json` with the reason it is left out.

What is hard: everything runs in one address space without preemption, so the
interleavings are those of the calls of `_NextTask()`, in particular those
hidden in `lock_enter`, in SPI operations and in web server callbacks; child
processes run truly in parallel and are joined through two words of shared
memory and a signal; tasks are removed by other tasks at any of these points.

What makes each of them correct, and what is hard about it:

- **Coroutines and locks.** A lock excludes although its waiters swap tokens
  for their priorities and its owner sleeps or is preempted; no token is lost
  (else the lock hangs, which `lock_check()` panics on); a stopped task has
  somebody who will wake it; a priority raised for a waiter is given back; a
  wakeup is neither lost nor left over. A sleep requested by another task while
  the target is in a lock is put off until it is out.
- **Shared-memory IPC.** Each call is served by one run of the function, inside
  the call; no request is forgotten whatever moment of the child's scan the
  signal falls into; every call returns. Callers of the same child overlap, and
  a caller that only polls may be removed.
- **Network buffers.** A buffer in use by a consumer that lost the processor is
  not recycled; nothing is lost or reordered except by the water marks; no
  buffer leaks when a connection ends.
- **Connections.** The streams of a client share a channel and end in any
  order, each guessing from a link to the other who frees it; slots are reused
  while websockets and other connections still point at them; the search for
  a slot is interrupted by other tasks when it removes a connection. Channels
  are not leaked, not freed under a stream, not shared by clients.
- **SPI.** The reply to a command is brought by the next transfer, which another
  task may make, into a buffer that must still be there; 32 retries without an
  answer are followed by a normal return; a task that waits for its reply needs
  somebody else's command.
- **Data pump.** The pump and its starts and stops by the first and the last
  user are sequences of SPI commands of several tasks, overtaken by priority.
  Buffers the FPGA overwrites must be noticed by counters that wrap, the
  interrupt is cleared by three parties, and a reader of the ring that falls
  behind by its whole length is not noticed.
- **Monitor queue, extensions.** Pointers to connections that ended; kicks that
  take effect up to 200 ms later.
- **Blacklist, update, background commands.** Several triggers (by the hour, by
  the admin, at start) of slow jobs whose results are stored later.

## 2. The modules and the code

    PriorityLock  <== Coroutines  <-- MCCoroutines    Coroutines_proofs
                                                        <-- Locks_proofs
                                                        <-- Scheduler_proofs
    RemoteCall    <== Shmem       <-- MCShmem         Shmem_proofs
    BoundedFifo   <== Nbuf        <-- MCNbuf          Nbuf_proofs
    CommandPort   <== Spi         <-- MCSpi           Spi_proofs
    CommandPort   --> DataPump    <-- MCDataPump      DataPump_proofs
    ReceiverLease <== RxServer    <-- MCRxServer      RxServer_proofs

`<==` is a refinement: the abstract module on the left is INSTANCEd by the
detailed one with a mapping of its variables. `CommandPort` EXTENDS
`PriorityLock`; `-->` is its use as a component: `DataPump`'s tasks send their
commands through it, where the code calls the functions that `Spi` shows to
implement it. So the chain is `Coroutines` (a lock is a `PriorityLock`), `Spi`
(commands under such a lock are a `CommandPort`), `DataPump`. The MC modules
EXTEND the detailed module and name the values of its constants; the `_proofs`
modules EXTEND it and TLAPS, `Locks_proofs` and `Scheduler_proofs` by way of
`Coroutines_proofs`. Both refinements of that chain are proved, so what
`DataPump` assumes of its commands rests on theorems.

### Coroutines

A step is what the running task does between two places where it can lose the
processor. A step that ends in a call of `_NextTask()` sets `nt` to the call's
parameter, and `NextTask` then selects the task that resumes: the sleeping task
whose deadline passed or whose test word is set, the busy helper for a
`TaskNextBusyHelper`, the highest queue with a runnable task, round robin in
the queue. `pc[t]` is the loop in which `t` lost the processor: that of
`lock_enter()` (`lock_retry`), that of `_TaskSleep()` (`SleepLoop`), or its own
code.

| Code | Definitions |
|---|---|
| `TenQ`, `TdeQ`, `_NextTask` | `TenQ`, `TdeQ`, `Requeue`, `IsNextInQueue`, `NextTask`, `Schedule` |
| `_TaskSleep`, `TaskSleepID`, `_TaskWakeup`, `RUNNABLE_YES/NO` | `TaskSleep`, `TaskSleepID`, `TaskWakeup`, `RunnableYes`, `SleepSetup`, `SleepLoop` |
| `lock_enter`, `lock_leave` | `lock_enter`, `PrioritySwap`, `LockLoop`, `lock_retry`, `lock_leave` |
| `_CreateTask`, `TaskRemove`, `TaskCollect` | the actions of the same names |

Time is abstract: a deadline may be found expired in any pass, which includes
every real timing. Tasks are slots, created and removed, so that a slot is
reused. `RemovesWaiters` says whether a task that waits for a lock may be
removed, which the code does not prevent.

Not modelled: `TaskMinRun()`, by which `_NextTask()` returns without a switch
(`support/coroutines.cpp:1067`) and which only the WSPR decoder's task uses
(`extensions/wspr/wspr_main.cpp:478`); and a busy wait while there is no busy
helper (`no_run_same`, 1079), since `spi_init()` creates `spi_pump` at start-up
(`platform/common/spi.cpp:157`).

### Shmem

The server and its children are parallel processes, so a step is one access to
`request[]` or `done[]`. `request[which] = done[which] = 0` is two stores and
`request[i] && !done[i]` is two loads of words that another process
accesses without synchronisation, so both orders are allowed. A signal is
queued by the kernel up to `MaxPending`; further ones are merged; it is blocked
while the child scans and delivered in `sigsuspend()`. `Abandon` is
`wspr_close()`, which removes the task that polls. `Settled` states what the
WSPR decoder's use of `NO_WAIT` gives: its next call comes a capture later.
Not modelled: the window of `shmem_ipc_setup()` before the child has armed its
signal, and DRM, which calls with `NO_WAIT` once and never polls.

### Nbuf

No operation loses the processor, so each is one step: `nbuf_allocq` (collect
the done buffers at the head, apply the water marks, allocate, enqueue),
`nbuf_dequeue`, `web_to_app_done`, `nbuf_cleanup`. What is interleaved is the
consumer's use of a buffer with the producer's calls. The list of a queue is the
sequence `q[d]` from `q_head` on, and `cnt[d]` the number not yet dequeued.
`nbuf_cleanup` takes the consumer to end with the connection. That is so for the
tasks of `conns[]`; an internal client (`rx/rx_util.cpp:1204`) can still use a
buffer after its connection ended, and is not modelled.

### CommandPort and Spi

`Spi` has the functions of `platform/common/spi.cpp` as kinds of calls:
`"set"`, `"get"`, `"noduplex"`, `"set_noduplex"` and `"misc"`
(`get_misc_miso()`). A call queues for `spi_lock`, which is a `PriorityLock`
here, offers its command to the embedded CPU up to `Retries` times while that
is busy (`Offer`, `Transfer`, `Retry`, `GiveUp` are `spi_scan()`), and offers a
flush after it if it collects its own reply. `prev` is the buffer the next
transfer fills, `busy[b]` the status word in a buffer, `reply[b]` whose reply
is in it. `spi_get()` leaves the lock and waits for any later transfer;
`BusyWait` is `_NextTask()` waking the busy helper `spi_pump`, which sends a
command of its own. The embedded CPU is `ready` or carries out a command as
long as it likes.

What the callers rely on is `CommandPort`: a `PriorityLock` whose holder's
command is taken once at most, and dropped if the retries are used up. That
`Spi` has the lock's part of it is by construction, as its calls use the actions
of `PriorityLock`; what the refinement adds is that the retry loop offers a
command until it is taken and not again.

`get_misc_miso()` has two buffers (`support/misc.cpp:98`), of which every caller
takes the first, the default of `support/misc.h:33`; the model has that one.

Not modelled: the variant whose transfers are made by a second process
(`spi_dev.cpp:168`), `spi_get_pipelined()`, which nobody calls, and what happens
before the tasks run.

### DataPump

The pump's task, the sound tasks (a channel each) and the web server's task,
which frees the channel of a sound task it removes. `todo[t]` are the commands
a task has still to send, one at a time through `CommandPort`; between two of
them the other tasks run. `rx_enable` ends in `data_pump_start_stop()`, which
changes `itask_run` at once, then sends its two commands, then stores
`have_snd_users`. The pump is `snd_service()`: get a buffer, compare the
counter stored in it with the current one (`Distance`), reset the FPGA if it is
too far behind, stop it if nobody is left, and go on while more buffers are
full.

The FPGA fills `nrx_bufs` buffers in turn; `ctr` is its counter, which wraps at
`W`, `lag` how many it has filled that the pump has not read. It is bounded by
`MaxLag` above `nrx_bufs`, where a buffer is overwritten while it is read, and
`MaxAhead` below zero, where the pump reads a buffer not filled yet; both yield
any counter.

The web server may free a channel while the sound task of that channel is sending
commands, which the task goes on with. What follows in the code, the removal of
a task that waits for the SPI lock, is the matter of `co_remove`. Three steps of
the hardware and the embedded CPU are taken as one each: the count of a full
buffer and its interrupt, whose handler the embedded CPU runs between two
commands; the reading of a buffer and of the two counters at its end; and the
reset of the buffers with the new number of samples.

| Code | Definitions |
|---|---|
| `rx_enable`, `data_pump_start_stop` | `rx_enable`, `data_pump_start_stop`, `rx_enable_End` |
| `spi_set*`, `spi_get3_noduplex` by their promise | `Send`, `Contend`, `Command`, `CommandEnd` |
| `data_pump`, `snd_service` | `PumpWake`, `Distance`, `Overflow`, `PumpReset`, `PumpStop`, `PumpLoop` |
| `RX_Buffer`, `CmdGetRX`, `CmdSetRXNsamps`, `ctrl_clr_set` | the definitions of the same names |

Not modelled: the rings between the pump and the sound tasks, and the conversion
of the samples.

### RxServer

The connections, the channels and those parts of the tasks of a connection that
end it. A step is what a task does between two switches, two of which are
hidden: `data_pump_start_stop()`, called by every `rx_enable()`, issues SPI
commands which wait for a busy embedded CPU, and `TaskRemove()` of another task
lets the others run. `at[c]` is where the task of a connection is; `web` holds
the local variables of `rx_server_websocket()` when the web server task was
switched out in its loop over `conns[]`.

| Code | Definitions |
|---|---|
| `rx_enable`, `data_pump_start_stop` | `rx_enable`, `PumpDone`, `PumpSwitch`, `PumpResume` |
| `rx_server_websocket`, allocation | `Message`, `Search`, `Rejected`, `Cull`, `CullResume`, `SearchOn`, `AllocAlone`, `AllocShared`, `AllocExt`, `Create`, `Refuse` |
| `rx_server_websocket`, close | `Close` |
| `rx_server_remove`, `rx_server_kick` | `rx_server_remove`, `ExtKicked`, `Kick` |
| `c2s_sound`, `c2s_waterfall`, `c2s_mon`, `extint_c2s` | `SndSetup`, `SndCmdsReceived`, `SndEnd`, `WfEnd`, `StopData`, `MonEnd`, `ExtSwitch`, `ExtBlur`, `ExtEnd` |

A keep-alive can be missed at any time, so the ends of the tasks have no guard
for it. The clients are part of the model: a page opens each websocket once
(`web/openwebrx/openwebrx.js:13556`, `web/extensions/ext.js:1195`) and is loaded
again with another `tstamp`, which the model states as reuse of the name after
the server has forgotten it. Left out: the limit on waterfalls (the model is of
configurations where every channel has one), wideband, DRM's exclusive use,
internal clients (`WS_INTERNAL_CONN`: autorun with its preemption, SNR
measurements), camping monitors, and the refusals that come before any change of
state. `Kick` is for one channel; to kick all is to kick one after the other. In
the instance one client has extensions, so `ExtUserIsExt` is checked for a kick of
its own extensions; the theorem is about any number of clients.

Two kinds of trouble are inputs, the constant `Faults`: an SPI command during
which other tasks run (`"spi_busy"`), and a task that cannot be created
(`"no_tasks"`). `orderly` records that neither has happened and that no
connection was culled. Three of the properties are stated under `orderly`: they
do not hold otherwise, as section 6 says.

`ReceiverLease` is what the channels are for, and what `RxServer` is shown to
implement. A channel is leased to a client from its first stream on it to the
end of its last: a stream comes only to a channel without streams of another
client, and only if its client has none on another channel; the channel is busy
from the first and free again in the step that takes the last away. The mapping
is in `RxServer`: `busy` are the `busy` fields, the streams on a channel are the
`<<tstamp, type>>` of the connections that use it (`Streams`). `Disorder` is the
step after which nothing is promised, taken where `orderly` becomes false.

## 3. What the runs check

| Run, configuration | Instance | What it shows | Properties |
|---|---|---|---|
| `co_spi`, `Coroutines_spi.cfg` | main, sound and pump tasks at three priorities, one lock; the pump is the busy helper, the main task is put to sleep from outside and yields with `NT_LONG_RUN` | exclusion, tokens, wakers, priorities given back, and that the lock refines `PriorityLock` | `TypeOK`, `Exclusion`, `TokensAccountedFor`, `StoppedTaskHasWaker`, `PriorityGivenBack`, `LocksArePriorityLocks` |
| `co_tasks`, `Coroutines_tasks.cfg` | two priorities, a task created with `CTF_NO_PRIO_INV`, a task removed and its slot reused, sleeps with a test word | the inductive invariant of the proofs, no hung lock, queues, sleeps requested in a lock are served, wakeups are not lost | `IndInv`, `NoHungLock`, `QueuesConsistent`, `PendingSleepServed`, `WakeupMakesRunnable` |
| `co_equal`, `Coroutines_equal.cfg` | three tasks of one priority | first come, first served, and every waiter gets the lock | `FirstComeFirstServed`, `EveryWaiterServed` |
| `co_remove`, `Coroutines_remove.cfg` | a waiter may be removed | see section 5 | `NoHungLock` |
| `shm_calls`, `Shmem_calls.cfg` | two receivers' waterfalls with one child, and the WSPR decoder with its `NO_WAIT` calls | every call returns, none meets its own old request, and one with a channel of its own is served once, inside the call (refinement of `RemoteCall`) | `TypeOK`, `NotReentrant`, `EachCallServedOnce`, `EveryCallReturns` |
| `shm_closed`, `Shmem_closed.cfg` | the SPI and the WSPR channel, the WSPR task may be removed while it polls | no request is forgotten | `RequestNotForgotten` |
| `shm_race`, `Shmem_race.cfg` | two receivers' waterfalls, one child | see section 5 | `HandOver` |
| `nb_queues`, `Nbuf_queues.cfg` | two queues, two data, water marks 1 and 2 | shape, bounds, no leak, FIFO (refinement of `BoundedFifo`) | `TypeOK`, `BufferInUseKept`, `QueueBounded`, `NoLeak`, `QueuesAreFifos` |
| `spi_calls`, `Spi_calls.cfg` | two GPS tasks that wait for replies at two priorities, the web server's task with `get_misc_miso()` and a `set_noduplex`, and `spi_pump`; two retries | every reply reaches its own call, no reply is written into a buffer whose call has returned, every waiting caller is answered, and the functions refine `CommandPort` | `TypeOK`, `ReplyIsOwn`, `PrevBelongsToACall`, `ImplementsPort`, `EveryGetAnswered` |
| `pump_users`, `DataPump_users.cfg` | two sound tasks and the pump, three buffers, a counter of five values | a buffer that is whole does not reset the pump, one that is overwritten does unless the counter wrapped since it was filled, the FPGA stops without users, no interrupt is lost | `TypeOK`, `OverrunNoticed`, `PumpStops`, `InterruptServed` |
| `pump_started`, `DataPump_started.cfg` | a sound task, the web server's task and the pump | see section 5 | `RunsForUsers` |
| `rx_channels`, `RxServer_channels.cfg` | a page with three websockets and a recorder, one channel, three slots, both faults | links, slots, channels: nothing leaked, freed early or shared, until something goes wrong the channels are leased (refinement of `ReceiverLease`), and the channel comes back when the clients have gone | `TypeOK`, `SocketServesOne`, `ExtUserIsExt`, `NoLeakedChannel`, `UsedIsBusy`, `WakesSound`, `ChannelsAreLeased`, `ChannelsComeBack` |

Bounds, and why they are enough.

- Three tasks are an owner, a waiter and a task that arrives, the fewest among
  which tokens are swapped while the lock is owned; with the priorities distinct
  the arriving one can be the most urgent, the middle one or the least.
  `MaxTicket` bounds `enter`: three or four tickets let a lock be left and
  entered again while there are waiters. Proofs remove these bounds.
- `MaxPending = 2` lets one signal be queued behind another and a third be
  merged. Two numbers on a channel let one call arrive while the scan is before
  or after it.
- With water marks 1 and 2 a queue gets from empty to refusing and back. `NNBUF`
  is what two full queues need, plus one.
- `Retries = 2` has the first, a middle and the last round of the loop; four
  tasks are one that waits, one whose transfer collects its reply, one more that
  comes between, and the helper.
- `nrx_bufs = 3` has lags that are whole, the last whole one and one overrun;
  `MaxLag` is one more, `W` two more, so that the counter wraps between any two
  states of the lag. A second sound task lets one start the pump while the other
  stops it.
- One channel makes the clients compete for it and a page become a monitor; that
  a client leases no second channel is trivial with one, and left to the theorem
  `ChannelsLeased`, which is about any number;
  three slots for four websockets fill `conns[]`. Of the faults one happens in a
  behaviour, and none after a culling (`MayHappen`): what one of them leaves
  behind is explored in full.

Fairness. `co_equal`: the scheduler runs; a task that resumes in one of its
loops goes on; a task in its own code yields in the end, as every task loop of
the server does; and of what a task may do instead of yielding, an owner is not
kept for ever from leaving its lock, and a deadline from expiring (strong
fairness, as other steps disable and enable both again and again). `shm_calls`:
the children are processes the kernel schedules (weak fairness), and a task
that is in a call or waits in one is scheduled again and again while others
call in between (strong fairness, as other tasks disable its step when they
run). Nobody is obliged to call. `spi_calls`: a task that can run does, the
embedded CPU ends every command, and `spi_pump` makes its call when woken; no
other call has to be made, so that `EveryGetAnswered` rests on the helper
alone. `pump_users`: every task that can go on does, the FPGA fills its
buffers, and a task that contends for the port gets its turn in the end, since
the pump, the only one to use it again and again, sleeps in between (strong
fairness); users need not come or go. `rx_channels`: the tasks of the
connections run, and a connection whose `kick` is set ends; no fairness for
clients, faults or a web server message.

`CHECK_DEADLOCK FALSE` stands where the model may stop: at `MaxTicket` in the
coroutine runs, in the panic of a reentrant call in `shm_closed`, and in a
`fatal` state of `RxServer`.

## 4. What is proved

TLAPS checks the following for every value of the constants that the modules'
named assumptions allow: any tasks and priorities, locks, channels, buffers,
clients and slots, and counters of any width. A bound named in a module, such
as `MaxTicket` or `MaxLag`, may have any value too. Every safety invariant,
action property and refinement of the passing runs is a theorem; what stays
with TLC is liveness (section 6). In the table, the property a theorem states
is in parentheses where it has another name.

| Module | Inductive invariant | Theorems |
|---|---|---|
| `Coroutines_proofs` | `IndInv` (`Invariance`) | `TypeCorrect`, `LocksExclude` (`Exclusion`), `TokensKept` (`TokensAccountedFor`), `LocksNeverHang` (`NoHungLock`), `StoppedTasksWoken` (`StoppedTaskHasWaker`), `PrioritiesReturned` (`PriorityGivenBack`) |
| `Locks_proofs` | `UrgencyInv` | `LocksImplementPriorityLocks` (`LocksArePriorityLocks`): every lock is a `PriorityLock`; `EqualsServedInOrder` (`FirstComeFirstServed`) |
| `Scheduler_proofs` | `WakeInv`, `Queued` | `WakeupsNotLost` (`WakeupMakesRunnable`), `PendingSleepsServed` (`PendingSleepServed`), `QueuesKept` (`QueuesConsistent`) |
| `Shmem_proofs` | `ServedInv` | `TypeCorrect`, `NoRequestForgotten` (`RequestNotForgotten`), `NeverReentrant` (`NotReentrant`), `AloneHandsOver` (`HandOver`), `CallsImplementRemoteCall` (`EachCallServedOnce`): a call with a channel of its own is a `RemoteCall` |
| `Nbuf_proofs` | `ShapeInv`, `Counted` | `TypesAreCorrect`, `BufferInUseIsKept` (`BufferInUseKept`), `QueuesAreBounded` (`QueueBounded`), `NothingLeaks` (`NoLeak`), `QueuesImplementFifos` (`QueuesAreFifos`): every queue is a `BoundedFifo` |
| `Spi_proofs` | `SpiInv` (`SpiInvariance`), `ReplyOnItsWay` | `TypeCorrect`, `PrevIsOfACall` (`PrevBelongsToACall`), `RepliesAreOwn` (`ReplyIsOwn`), `CallsImplementPort` (`ImplementsPort`): the functions are a `CommandPort` |
| `DataPump_proofs` | `PumpInv` (`PumpInvariance`) | `TypeCorrect`, `OverrunsNoticed` (`OverrunNoticed`) |
| `RxServer_proofs` | `RxInv` (`RxInvariance`) | `TypeCorrect`, `SocketsServeOne` (`SocketServesOne`), `ExtUsersAreExt` (`ExtUserIsExt`), `ChannelsNotLeaked` (`NoLeakedChannel`), `UsedChannelsBusy` (`UsedIsBusy`), `WakesSoundOnly` (`WakesSound`), `ChannelsLeased` (`ChannelsAreLeased`): the channels are a `ReceiverLease`; `OneClientPerChannel` (`OneClient`, a part of the lease that no run checks by itself) |

Hypotheses beyond the assumptions on the constants:

- Everything about the coroutines is under `Careful`, which is
  `~RemovesWaiters`: no task is removed while it waits for a lock. This is an
  assumption about callers, and a needed one: `co_remove` shows the lock hanging
  without it. `EqualsServedInOrder` is also under `OneRank`: all tasks have one
  priority, as in `co_equal`; with several, overtaking is what a swap is for.
- `NeverReentrant` and `AloneHandsOver` are about channels where no polling task
  is removed (`Abandoned = {}`), `AloneHandsOver` about calls that do not share a
  channel (`Alone = Use`): `shm_race` shows what happens to those that do.
  `CallsImplementRemoteCall` is about the alone calls whose tasks are not removed,
  whatever the other calls and tasks do; `NoRequestForgotten` needs neither.
- `RepliesAreOwn` is under `[]MiscMisoFree`, the assertion of `get_misc_miso()`
  (`support/misc.cpp:102`): nobody calls it while its one buffer is in use.
- The theorems of `RxServer` hold through every fault and every culling the
  module has. The named bound of `MayHappen` (one fault, and none after a culling)
  is part of the module and so of them; and `UsedIsBusy`, `OneClient`, `WakesSound`
  and the lease are themselves about the time while the system is `orderly`, for
  the reason given in section 6.

**The locks** (`IndInv`). `Exclusion` and `TokensAccountedFor` are not
inductive alone. `lock_leave()` wakes those whose `waiting` flag is up: that
the lock goes on needs every stopped waiter to have the flag up
(`WaitersAwaitTurn`), and a waiter never to be asleep as well, or it would stay
stopped. That a stopped waiter's token is above `leave` gives its waker: the
tokens below it are other users', by `TokensAccountedFor`. `UsersAreInLock` ties
`lock->users` to the tasks' own `wait` and `hold`, so that a task which is
neither can be put to sleep or removed without touching a lock.
`PrioritiesSaved` holds of an owner that was raised, `CurrentTaskValid` and
`SleepersStopped` of the task that runs: an action starts from a valid task
that is not stopped. `SwapFacts` is the only place where tokens are permuted,
and says the swap is a bijection between the arriving token and the next
waiter's.

**Priority and order** (`UrgencyInv`). That a free lock goes to the most urgent
contender is decided in four places of the code, one for each part of the
invariant. A waiter that stops at a free lock does so for a user whose turn it
is, and that one is no less urgent, because of the swap (`StoppedOutranked`).
The task that runs, which is the one that may take a free lock ahead of the
waiters, is at least as urgent as those that could run: the scheduler chose it
(`RunnerOutranks`). When a raised owner leaves and drops in priority, the waiter
it was raised for becomes runnable (`RaisedByWaiter`). And the scheduler passes
over tasks that ran for long, none of which waits (`LongRunnersOutside`). First
come, first served follows for equal priorities: without a more urgent arrival
no token moves.

**Sleeping and the queues.** `WakeInv` needs of `IndInv` that a waiter never
sleeps, so that a wakeup is never spent on a task which stays stopped for a
lock. `Queued` says that the queue of a priority holds the valid tasks of that
priority, each once; the lemmas on `RemoveAt`, `Cons` and `Append` of sequences
without duplicates carry it through inversion and removal.

**Calls through shared memory** (`ServedInv`). The heart is `Active(u)`: a signal
of the channel is pending, or the scan in progress has yet to come to `u`. That
a waiter whose call is not done is active (`WaiterFound`) is kept by merged
signals, which only needs one to be left, and by `kill()` while the child
scans, which leaves a signal pending. `RequestUp` is about who takes a request
back: the child, for a polled call, only after it was done. For a call with a
channel of its own the same holds the other way round (`ServedAt`): active only
while its caller waits, with at most one signal, which gives that `func` runs
once and inside the call.

**The shape of a queue of buffers** (`ShapeInv`). Of each queue a prefix is
done, then at most one buffer is dequeued and not done, then the rest waits and
is counted by `cnt`. Each operation is a lemma on sequences of that shape
(`AppendToShape`, `DequeueFromShape`, `DoneInShape`), and the refinement follows
from the same lemmas, as the waiting part is the abstract queue. `NothingLeaks`
counts the places of all queues, with the library's facts on cardinality: an
operation takes from the pool what its queue gains (`CountChanges`).

**The pipelined reply** (`SpiInv`, `ReplyOnItsWay`). Between its offer and
`lock_leave()` a task holds the lock (`HolderInTurn`), so `prev` is written by one
task at a time and is the buffer of a task that offers its flush, or of one in
`spi_get()` that still waits and whose buffer is marked busy (`PrevIsPending`):
hence no transfer writes into a buffer whose call has returned.
`ReplyOnItsWay` adds what is in the buffers: a call none of whose scans was given
up will be replied to by the next transfer, or has been. The first is invariant
however often scans are given up, which the code answers with a normal return.

**The pump** (`PumpInv`). Overruns are computed from counters read in one
command; the invariant says that only the holder of the port has a command
carried out, so what is read belongs to the buffer the pump reads. The
arithmetic is in `DistanceIsLag`: the distance of two counters that lie `lag`
apart is `lag`, or `lag - 1` across the wrap, in any width above `nrx_bufs`.

**Connections and channels** (`RxInv`). Whether a channel is freed is decided by
each stream from what it sees of the other, and by the web server from a
websocket that points nowhere. `BusyIsKept` says of every busy channel that it
has a keeper, a stream that uses it, is not leaving, and does not take one that
is leaving for its partner; without the last part both could leave it to the
other. `SearchValid` is what the web server's local variables are still worth
after it was switched out, and `OneInSpi` that one task of a connection at most is
inside the SPI commands of `rx_enable()`. `OrderKept` is the picture of a
channel while nothing disorderly happened: one client's sound, waterfall or
both, linked to each other (`Partnership`), where the one that stays behind has
been told to stop and gets no new partner, because its client has spent the
websocket (`Spent`). The step lemmas follow the actions; those in which
connections only end share `FadeStep`, those that fill a slot `FillFacts` and
`CreateFacts`.

**The lease of a channel** (`ReceiverLease`) follows from `RxInv` and one lemma
about each action. `BusyIsStreams` says that in order a channel is busy exactly
if there is a stream on it, so that the streams decide. `OneChanges` is what a
step does to them: at most one comes or ends, and the others keep client, type
and channel. That a stream that comes finds no other of its client but on its own
channel is from the search of `conns[]` (`MessageChanges`): a client's stream is
found as the partner or is the reason for a refusal, and there is one partner at
most. That an ending stream takes nobody's place is `Partnership`.

Three kinds of facts are beyond the prover and are not claimed: liveness under
fairness, `ENABLED`, and induction over recursive definitions, which these
modules avoid.

## 5. Where code and comments disagree

- **A removed waiter hangs its lock** (`co_remove`, `support/coroutines.cpp:953`).
  `TaskRemove()` panics for a task that holds a lock and not for one that waits
  for it. Its token stays; when its turn comes nobody takes the lock, which
  the comment at 1741 names a hung condition.
- **One frame computed for the wrong call** (`shm_race`, `support/shmem.cpp:233`).
  While the child scans because of another receiver's call, it can load an old
  `request` and a new `done` of a caller that is clearing the two, and run the
  function for a call that has returned; the following call then finds `done` set.
- **A start overtaken by a stop** (`pump_started`, `rx/data_pump.cpp:472`).
  `data_pump_start_stop()` changes `itask_run` first and sends its commands then,
  and the SPI lock goes by priority. While the web server's task (priority 3)
  waits with the commands that stop the pump, a sound task (5) starts it: its
  commands are carried out first and the stop after them. `itask_run` is then set,
  so that no later user starts the pump, and there are no samples until all have
  left; the comment at 479 says that the first user starts it. `have_snd_users`
  (494) is stored late in the same way.

## 6. What is only model-checked, and what is not modelled

Only model-checked: liveness (`EveryWaiterServed`, `EveryCallReturns`,
`EveryGetAnswered`, `PumpStops`, `InterruptServed`, `ChannelsComeBack`), which
the prover cannot do under fairness, and of course what the three runs of
section 5 refute.

Of `RxServer`, once something disorderly has happened:

- after a task creation failed for a second stream, the first one uses a channel
  that is free (`rx/rx_server.cpp:755` frees it for both);
- while a task is switched out in `rx_enable()`, its channel is free and its
  connection still names it (`rx/rx_sound.cpp:405`, `rx/rx_waterfall.cpp:725`), so
  `UsedIsBusy` and `OneClient` do not hold and the lease is void, and `have_snd_users` is stored late
  (`rx/data_pump.cpp:494`);
- the culling loop can remove a task that waits inside an SPI command
  (`TaskRemove()` panics if it holds `spi_lock`), and what it found before, a free
  slot or a partner, may have changed when it goes on (`rx/rx_server.cpp:448-455`).

The model has these steps, `fatal` records where the server stops, and
`TypeOK`, `SocketServesOne`, `ExtUserIsExt`, `NoLeakedChannel` and
`ChannelsComeBack` are checked through all of them.

Not modelled: signal processing, decoders, the commands of the pages,
formatting, configuration, devices, the other commands of the embedded CPU,
vendored code. `PROJECT.json` lists each part with its reason, and each hazard
without a property with a note.

## 7. Plan

Modules, in this order:

1. `RxServer`: the preemption of autorun connections, camping monitors and the
   waiting queue, two clients with extensions and their late ends.
2. The ring of a channel between the pump and its sound task, with the reader that
   falls behind. Abstractly: a FIFO that may lose a whole turn of the ring.
3. `Spi`: the asynchronous variant on `Shmem`, and `get_misc_miso()` shared by the
   stat task and the web server (`MiscMisoFree`).
4. `Update`, `Blacklist`, `NonBlock`: triggers, slow jobs and their late results.
5. The search and channel tasks of GPS, for their busy/start handshake.

Theorems, in this order:

1. The invariants behind the liveness properties, as far as they are safety: that
   a waiting `spi_get()` always has a helper to wake, that a pump which has to
   stop is on its way to do so, that a request not served is scanned.
2. An abstract specification of the pump (runs for users, passes on whole buffers),
   implemented by `DataPump` while no two starts and stops overlap.
3. `RxServer` without the bound of `MayHappen`: a second fault after a first one.
