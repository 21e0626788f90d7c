# usb-sniffify in TLA+

usb-sniffify sits between a USB host and a USB device. Towards the host it is a
gadget (the raw-gadget driver, reached by ioctls); towards the device it is a
libusb client. It copies the device's descriptors into a tree of records, relays
control requests, and has a thread for each open endpoint that relays its data.
The threads share plain C variables and no lock. This directory models the library
`sniffify` (`raw-gadget-passthrough.cpp`, `raw-gadget.cpp`, `raw-helper.cpp`, what
`CMakeLists.txt` builds), the program `passthrough.cpp` that uses it, and two older
programs of the repository that have their own threads: `passthrough.c`, the proxy in
C, and `hid.c`, a gadget that plays a game pad without a device behind it. TLC checks
the models on small instances, and TLAPS proves theorems about all of them, for every
value of their constants.

## Inventory

| Component | State | Operations | Hard because | Correct when |
|---|---|---|---|---|
| Endpoint life cycle: `setEndpoint`, loop of `epLoopThread` | `ep_int`, `stop`, `keepRunning`, `busyPackets` of each `EndpointInfo`; its thread; the driver's handles | enable, disable (stop, clear, join, disable), loop test, gate | the thread of endpoint zero writes what the worker and the event thread read; the join can block it | no handle is used by or leaked to a wrong endpoint; a disable is safe and ends |
| Endpoint transfers: `epDeviceToHostWorkInterrupt`, `ep_out_work_interrupt`, `ep_in_work_isochronous`, the three callbacks | `busyPackets`, transfers with libusb | submit, complete, fail, write to host | `++` and `--` of two threads; failures; a handle read before it is used | the counter counts the outstanding transfers; polling goes on |
| Isochronous OUT: `ep_out_work_isochronous` | the same, and a static transfer pointer | the same, up to 128 at once | the increments and decrements do meet; the workers share the pointer | the limit holds; each worker reads from its own endpoint |
| Configuration tree: `setConfiguration`, `setInterface`, `setAlternate` | three levels of active indices | two control requests | each step is visible outside; errors of the device are ignored | open endpoints, records and device agree |
| Control relay: `ep0Loop`, `ep0LoopThread`, `libusbEventHandler`, `start`, `stop` | `keepRunning`, the descriptor, the driver's event queue | fetch, request, reply, stall, forward, close | every return path must answer; stop and close race with the ioctls | one answer each, in order; the gadget is given back |
| `utf8_to_utf16le` | two pointers and two counters | one turn of its loop | ends of string and buffer in the middle of a character | stays in bounds, no surrogates, ASCII kept |
| `process_eps_info`, `assign_ep_address` | addresses in the descriptors, a static counter | on every CONNECT | asserts; the counter is never reset | every endpoint has a number and keeps it |
| `initialize`, `main` of `passthrough.cpp` | builds the tree; starts and stops the threads | once | some failures return 1, which `main` ignores; `main` returns while the threads run | threads use only records that are filled |
| Observers | a vector | `addObserver`, notification in the IN callback | run in the event thread; may change the data | each packet is seen once, by the right ones |
| ioctl wrappers `usb_raw_*` | none | one ioctl each | failure ends the process from any thread | (modelled at each caller) |
| `passthrough.c` | the tree, the records, `busyPackets`, all global to one process | all of the above, in one program | the device is told of an alternate after the workers start; failures of reads and writes are ignored; an OUT callback returns early | requests are finished; no endpoint is closed, and no alternate given up, under a transfer; the library does the same |
| `hid.c` | two handles, the descriptors, the button | answers from tables; two polling threads | handles are plain variables that three threads share; lengths come from four places; most unknown requests end the process | answers as long as asked where there is as much; endpoints enabled once over any resets; every button pressed |
| `libusbhax.c`, logging, generated headers | none | | | |

How they interact. `start()` creates the event thread, which creates the thread of
endpoint zero. That one fetches events from the driver, and for SET_CONFIGURATION
and SET_INTERFACE walks the tree and calls `setEndpoint`, which creates and joins
the workers. A worker submits transfers to libusb; the event thread runs their
callbacks, which write IN data to the host. `exit(EXIT_FAILURE)` in any wrapper
ends all of them.

## The modules

| Module | Models | Checked by |
|---|---|---|
| `EndpointLoop` | `setEndpoint` and the outer loop of `epLoopThread` | (extended by the next and by `IsoOut`) |
| `EndpointIO` | the loop body and the callbacks for all endpoints with one transfer at a time | `MCEndpointIO` |
| `EndpointContract` | what those threads promise, without threads: the abstract specification | refined by `EndpointIO` |
| `EndpointIOProofs` | the theorems about `EndpointIO`, one of which is that it implements `EndpointContract` | TLAPS |
| `IsoOutProofs`, `ConfigurationProofs`, `PassthroughCProofs`, `HidGadgetProofs`, `Utf16Proofs` | the theorems about the module of that name | TLAPS |
| `RelayProofs` | the theorems about `ControlRelay` and `Startup` together | TLAPS |
| `SequenceLemmas` | a set of natural numbers has a least one; what is in a flattened sequence of sequences, and that flattening turns joined sequences into joined ones, for `Configuration` and `PassthroughC` build the steps of a request that way | TLAPS |
| `IsoOut` | isochronous OUT endpoints | `MCIsoOut` |
| `Configuration` | the tree and the two requests that move it | `MCConfiguration` |
| `ControlRelay` | the control requests, `start`, `stop` | (extended by `Startup`) |
| `Startup` | `initialize` and `main` around the threads of `ControlRelay` | `MCControlRelay` |
| `PassthroughC` | `passthrough.c` as a whole, with device and host; refines `Configuration` | `MCPassthroughC` |
| `EpAssign` | the matching of descriptors and hardware endpoints, as operators | (used by `HidGadget`) |
| `HidGadget` | `hid.c` | `MCHidGadget` |
| `Utf16` | `utf8_to_utf16le` | `MCUtf16` |

Names are the source's where TLA+ allows it. Operators under a comment that begins
with "Mistake:" are no part of a specification: each is a definition with a
plausible bug, which the properties must tell from the real one (`PROJECT.json`
says which property refutes which mistake).

**EndpointLoop.** One action for each access to a shared variable that another
thread can see. `Enable` is one action because the worker does not exist before its
last statement. A disable is four actions, `DisableStop` (`stop = true`),
`DisableClear` (`keepRunning = false`), `DisableJoin` and `DisableEp`; between any
two of them the workers and the event thread may run, the other requests of the host
may not, as the same thread serves them. `pc[e]` is the place of a worker, `ep0` that
of the thread of endpoint zero, `owner` the driver's table of handles. `Enable` is
guarded by "e has no worker" and `DisableStop` by "e has one": that is what the code
assumes of its callers, and module `Configuration` shows when they fulfil it
(`Discipline`). `exit()` is `alive' = FALSE`, and nothing runs after it.

**EndpointIO.** `busyPackets++` and `busyPackets--` are a load and a store each, with
the loaded value in `tmp` or `event.tmp`. The event thread serves one callback at a
time (`event`). A transfer may end with COMPLETED, or, on an endpoint in `Faulty`,
with another status; the IN callbacks return at once then, the OUT callback has
decremented before it looks. A refused submit ends the process except on
isochronous endpoints, where the result is ignored. The isochronous callback does
not write to the host: the write is commented out in the code. Allocation and filling of a
transfer touch nothing that is shared and belong to the step before the submit.
The one-second sleep of isochronous workers, the polling intervals and the payload
are left out.

**IsoOut.** Here the increment comes before the read and is taken back after a read
without data, and any number of transfers below the limit (128 in the code) is in
flight, so the loads and stores of the two threads do interleave. `xfr` is the static
pointer, which the workers of two such endpoints share: one may move it between another's
allocation, fill and submit, so that the other fills or submits a transfer that is in
flight, has ended, or was freed by its callback. libusb refuses one that is in flight, which the code does
not look at; one that nobody filled, or that is freed, may end the process (`SubmitCrashes`). The
counter can drift below zero; `Floor` is where the model stops counting.

**Configuration.** A request is the sequence of its steps (`steps`), which the actions
take one at a time, because the device, the host and the workers can see each of them.
The steps are computed when the request arrives: the loops of the code read only
fields that no earlier step of the same request writes. The device is external: it may
refuse an alternate, and it may refuse the forwarded request, which is remembered in
the history variable `refused`. Requests whose wValue or wIndex is outside the
arrays set `wild`, after which the model says nothing.

**ControlRelay.** The two threads, the driver's queue and the host, which has one
control request at a time but may cause CONNECT, RESET and other events at any time. A
SET_CONFIGURATION or SET_INTERFACE joins the workers that are there (`Ep0Join`), and nothing says that the
join returns: `EndpointIO` has the cases where it does not.
`answers` and `forwarded` record what the host and the device got. The endpoint
threads are one flag, `worker`: they use the descriptor until the process ends.

**Startup.** `initialize` is the sequence of its calls (`todo`): the device, its
descriptor, then for each configuration its descriptor and one claim for each alternate.
A call that fails ends the process, or makes `initialize` return 1 (`Fails`); `main`
goes on to `start` in both cases where the process is still there. The threads of `ControlRelay` run
from then on. A thread that comes to a record that was never filled sets `wild`, after
which the model says nothing. `Return` ends the process while the threads run; nothing
makes it hurry, so that `StopCloses` is not true for that reason alone.

**PassthroughC.** The composition that `EndpointIO` and `Configuration` leave to each
other: here the requests of the host decide which endpoint is opened or closed when,
and the device takes a transfer only for an endpoint of its current alternates
(`Reachable`), and refuses an alternate, or an interface, that it does not have now
(`Understands`). The thread of endpoint zero works off `steps` as in `Configuration`, but
with the join of each worker; a worker's turn up to a call that may wait is one step, as is each
`++` and `--`, which `EndpointIO` takes apart. The program differs from the library in
what it does about failures: no failed read or write ends it, the OUT callback
returns before its decrement, an isochronous packet is written to the host. An
isochronous worker sleeps for a second after the tests of its first turn and does not repeat them: it goes on
to submit even if it was stopped in between (`Woken`). The ioctls of endpoint zero end the
process when they fail (`AnswerFails`). The device need not answer the transfers of the
endpoints in `Quiet`. `Library` is the refinement mapping to `Configuration`: `open` is the endpoints
that have a handle (`OpenEndpoints`), and `steps` is without the ones only this module has (`KeptOf`). Its CONNECT and its isochronous OUT worker are not modelled: the first changes
nothing, the second is the subject of `IsoOut`, but for a second test of the limit
after the read (line 586).

**EpAssign, HidGadget.** The first is only operators; the folds stop changing a descriptor
once it has a number, so it does not matter that `hid.c` says `continue` where
`process_eps_info` says `break`. `HidGadget` has `main`, the thread of endpoint zero
and the two endpoint threads. A request is its type, number, the two bytes of wValue,
wIndex and wLength; an answer is the length that is reported and the number of bytes
that were written to the buffer. The button is the exponent of its power of two. The
driver gives out handles in order, from 0, and refuses an address in use and more
endpoints than it has. The host is one of three: the console, whose requests are the
table in `libusbhax.c` (recorded from a PlayStation 5), a computer that asks for other
things and for more than there is, and one that sends a request with no answer. The
host may reset the bus at any time, also while a request is served, and start again, and the
driver may or may not report that. A request that a reset has abandoned is served to its end all the same:
its ioctl fails, which ends the process (`Ep0Fails`), or it succeeds and nobody gets the answer; that is what is
assumed of the driver.

**Utf16.** One step per turn of the loop. `Continues` is the code's test, `c & 0xc0`
compared with `0xc0`.

## The runs

| Run | Shows | Bounds |
|---|---|---|
| `EndpointIO` | the counter is exact, the disable safe, handles are owned and not leaked; `IInv` of the proofs; refinement of `EndpointContract` | an interrupt IN, an isochronous IN and a bulk OUT endpoint, all faulty, two handles: each kind meets each other, and enabling can run out of handles. The state space is finite without further bounds (49,400 states) |
| `EndpointIOLive` | the disable of an endpoint on which the device answers ends; IN endpoints go on polling, a quiet one among them or not | two interrupt IN and a bulk OUT endpoint, two handles; IN transfers succeed, but the device need not answer one of the two. An isochronous IN endpoint that does not fail takes fewer steps and no other |
| `EndpointIOFailedIn` | (violation) with failing IN transfers a disable need not end | the interrupt IN endpoint is faulty |
| `IsoOut` | the limit, and the handle that is read from, whichever transfer the shared pointer makes a worker submit | two endpoints, both faulty, limit 2, two transfers, two handles, floor -1: the pointer is moved at every point of the other worker, and the counters drift (4.0 million states) |
| `IsoOutDrift` | (violation) the counter reaches 0 with transfers in flight, and the endpoint is disabled | one endpoint, three transfers, floor -2; nothing fails |
| `Configuration` | open endpoints, records and device agree, in every order of requests | a device of two configurations, one with a HID interface and an audio interface of three alternates, which share addresses; every request it has |
| `ConfigurationReselect` | (violation) a SET_CONFIGURATION of the configuration that is active ends the process (`ReadyForUse`) | the host may also select what is active |
| `ControlRelay` | one answer each, order; a host that waits is answered, unless its request is held up by a join; stop gives the gadget back; records are filled when they are used unless `initialize` returned 1 | any call of `initialize` may fail, two configurations with two and one alternates; four events of the host in any order, the key at any time |
| `PassthroughC` | disable, handles and the change of alternates are safe; requests finish, but for those that wait for a transfer that failed or is not answered; the program refines `Configuration` | one configuration with two interrupt endpoints in one interface, and one interface of three alternates: nothing, isochronous IN, bulk OUT. The device need not answer the transfers of the interrupt IN and the bulk OUT endpoint. All transfers may fail but those of the interrupt IN endpoint: when every worker waits for a lost transfer, nothing changes any more and TLC would call that a deadlock. Four handles, one for each address (`EnoughHandles`): with fewer the driver may refuse an enable that `Configuration`, which does not count handles, does not |
| `HidGadget` | answers are as long as asked where the program has as much; no endpoint is enabled twice; ready when configured; the requests come to their end; every button is pressed | the full scripts of three hosts, among them requests for more than there is and one that is not known; two bus resets each at any point; words of five bits (16 is the highest bit, so the wrap is passed at once and often) |
| `Utf16` | stays in bounds, no surrogate, ASCII kept | all strings of up to three bytes out of thirteen: both ends of every range the code tests; three is the longest character it takes |
| `Utf16Correct` | (violation) correct two-byte characters are refused | as before |

`CHECK_DEADLOCK FALSE` is said where the program really stops: `Utf16` (the function
returns) and `ControlRelay` (the threads end or wait for an event that need not come).
`IsoOut`, `Configuration`, `PassthroughC` and `HidGadget` stutter explicitly where the process has ended or a bound
of the model is reached, so any other deadlock is found.

### Fairness

* `EndpointIO`, weak fairness of each worker, of the event thread and of the
  thread of endpoint zero once it is inside a disable: they are threads of the
  operating system, and the loops have no blocking step but the ioctls. The reads and writes
  return with data, or with the timeout that the code is prepared for
  (`usb_raw_ep_read` and `usb_raw_ep_write` test for ETIMEDOUT).
* Strong fairness of `Reap(e)`: libusb hands out transfers in the order in which they
  end, so the event thread, although busy now and then with other endpoints, gets
  to each one that has ended. There is none for endpoints in `Quiet`: a transfer
  without timeout ends only if the device answers, and a device that has
  nothing to report does not. `DisableCompletes` is for the other endpoints: the
  disable of a quiet one waits for the device, and with it the whole of endpoint zero.
* Nothing is assumed of the host: `Enable` and `DisableStop` have no fairness.
* `PassthroughC` assumes the same of the same threads, and of `main`, which is the event
  thread there; strong fairness of the callbacks, again, only for endpoints that are not in `Quiet`. `RequestsFinish` names
  the join of a quiet endpoint (`HeldUp`) as one of the two things that hold a request up for ever.
* `HidGadget`, weak fairness of all threads. Here the host is assumed to go through its
  script and to poll the IN endpoint once it has set the configuration (`InWrite` returns
  then), which is what consoles do; an abandoned request's ioctl returns in one of the two ways; it owes no data on the OUT endpoint, so `OutRead` has no
  fairness, and it may stop resetting.
* `ControlRelay` and `Startup`, weak fairness of the two threads; control transfers to the device
  end. There is none for `Ep0Join`, since a worker need not end, and `HostIsAnswered` has that exception. Nothing is owed by the host, nor by whoever calls `stop()`.

### What the violations say

1. A failed IN transfer wedges its endpoint: `cbTransferIn` (line 794) and
   `cb_transfer_in` return without `busyPackets--`, so the worker never submits again
   and never ends, and the next SET_INTERFACE or SET_CONFIGURATION blocks the
   thread of endpoint zero in `pthread_join`.
2. `busyPackets` of isochronous OUT endpoints drifts, by lost updates.
3. A host that sets the active configuration again makes the proxy enable an open
   endpoint; the driver refuses, and the process exits in `usb_raw_ep_enable` (line 268), before any
   second worker could be created. After a bus reset every host does so, since nothing here reacts to RESET.
4. `utf8_to_utf16le` tests continuation bytes for 11xxxxxx where they are 10xxxxxx.

Also seen while modelling, without a run of its own: a device that is merely quiet holds up
a disable in the same way as a failed transfer (transfers have no timeout and nothing
cancels them); `stop()` ends neither the thread of endpoint zero, which waits in the
driver, nor the workers, until the closed descriptor makes one of them `exit()`; an
interrupt or bulk endpoint of an interface with alternates is submitted to before the
device has been told of the alternate, and if the device refuses, the process ends (both are
steps of `PassthroughC`); two isochronous OUT workers may fill and submit each other's transfers; a GET_REPORT
of `hid.c` is answered with as many bytes as are asked for, beyond its tables too, for which it reads behind
`dummyBuffer` (line 493). Nothing in the repository promises otherwise, so no property is stated about them.

## What is proved

For every value of the constants that satisfies the named assumptions. In each module there
is an inductive invariant, a lemma that the initial states satisfy it, one lemma per
action that the action keeps it, and the theorems that follow from it.

| Module | Invariant | Theorems, with the property each states | For every |
|---|---|---|---|
| `EndpointIOProofs` | `IInv` | `TypeCorrect`, `BusyPacketsIsExact`, `NoHandleLeaks`, `DisableIsSafe` (`SafeToDisable`), `HandlesAreOwned`; `ImplementsContract` (`KeepsContract`) | set of endpoints, number of handles, choice of `InEndpoints`, `IsoEndpoints`, `Faulty` and `Quiet` |
| `RelayProofs` | `RelayInv`, `StartupInv` | `RelayTypeCorrect`, `AnsweredOnce` (`OneAnswerEach`), `DeviceGetsInOrder` (`DeviceInOrder`), `GadgetRuns` (`ServesRunningGadget`), `NothingUnfilled` (`RecordsFilled`) | set of requests, number of events, shape of the device |
| `IsoOutProofs` | `IsoInv` | `IsoTypeCorrect`, `ReadsOwnHandle` (`HandleOwned`) | set of endpoints and transfers, limit and floor |
| `ConfigurationProofs` | `IInv` | `TypeCorrect`, `OpenIsActive` (`OpenMatchesActive`), `DeviceAgrees` (`DeviceFollows`), `ClosedFirst` (`ClosedBeforeSelect`); `Disciplined` (`Discipline`) for a host that does not select what is active | device, set of requests |
| `PassthroughCProofs` | `IInv` | `TypeCorrect`, `DisablesQuietEndpoints` (`SafeToDisable`), `OwnHandles` (`HandleOwned`), `SelectsQuietInterfaces` (`QuietBeforeSelect`) | device, set of requests, number of handles |
| | `IInv` and `AddressInv` | `ImplementsConfiguration` (`KeepsConfiguration`) | device, set of requests, number of handles from `EnoughHandles` on |
| `HidGadgetProofs` | `IInv` | `TypeCorrect`, `Ready` (`ReadyWhenConfigured`); `AnswersFull` (`AnswersInFull`); `Alive` (`StaysAlive`) for hardware with at least four endpoints | scripts of the hosts, hardware endpoints, number of bus resets, width of the button |
| `Utf16Proofs` | `Utf16Inv` | `InBounds` (`StaysInBounds`), `SurrogateFree` (`NoSurrogates`), `AsciiCopied` (`AsciiUnchanged`) | string and size of the buffer |

Assumptions on the constants, all of which TLC evaluates in the runs:

* `LoopAssumption`, `IOAssumption`, `IsoAssumption`, `RelayAssumption`, `StartupAssumption`,
  `Utf16Assumption`, `RequestAssumption`, `PassthroughAssumption`, `HidAssumption`: a number is a natural number,
  a set is the set of what its name says, and what stands for "none" is none of them.
* `TreeAssumption`, of the device (`Configuration` and `PassthroughC`): configurations,
  interfaces and alternates are C arrays, counted from 0; there is an alternate 0, which is what
  `setConfiguration` selects; each alternate has `EndpointInfo` records of its own. That is how
  `initialize` allocates them.
* `DistinctAddresses` is not an assumption of a module but a hypothesis of `Disciplined`: the
  endpoints of one alternate, and those of different interfaces of a configuration, differ in
  address. USB demands it, the code does not test it, and the alternates of one interface
  may share addresses (those of the device in run `Configuration` do). The other hypothesis is
  `~Reselect`; run `ConfigurationReselect` shows what happens without it.
* `EnoughHandles` is a hypothesis of `ImplementsConfiguration`: the endpoints have no more different
  addresses than the driver has handles. The library has no count of them; a driver
  that runs out of them ends the program in the middle of a request. `MCPassthroughC` assumes it of its instance.
* `Alive` has a hypothesis about the hardware: it has at least four endpoints; with fewer the first
  SET_CONFIGURATION is the end. No theorem about `HidGadget` assumes anything of the hosts: which requests
  the program knows (`Known`) is in `StaysAlive` itself. `MCHidGadget` assumes, so that TLC evaluates it, that of the hosts of the run
  two send only what is known and the third does not, and that the computer asks for more than there is (`ReadsWhatIsThere`).

**EndpointIO.** What the code relies on without a lock is that, between a worker's test of
`busyPackets` and its increment, nobody else changes the counter, and while a callback
is between load and store, the worker does not get past its test. That is `BusyInv` (in
those places `busyPackets` is 0, and the loaded value is 0), the second half of
`EventInv` (the value the callback has loaded is 1) and `BusyPacketsExact` (the counter
is at least the number of outstanding transfers), and each of the three needs the other
two. `WorkerInv` and `Ep0Inv` tie the flags and the handle of an endpoint to the place
of the thread of endpoint zero, which gives: a worker that is "done" has been told to,
has `busyPackets = 0`, hence no transfer, hence no callback that could use the handle
after the join. So `SafeToDisable` and `HandleOwned` are not inductive on their own but
follow from `IInv`. TLC checks `IInv` in run `EndpointIO` too.

**The contract.** One lemma for each action says which step of `EndpointContract` it is, or
that it is none. Most are no step. The ones that need `IInv` are those where the
contract has a guard the code has not: a submit, a callback's decrement, and the disable.

**ControlRelay and Startup.** `OneAnswerEach` and `DeviceInOrder` speak of the whole history;
`OrderInv` adds that what was answered or forwarded came before the request the host waits for,
and that a request which is acknowledged but not yet forwarded comes in between. `AnswerInv` says in which
places of its loop the thread has done one of the two and owes the other, `QueueInv` that
the queue holds at most one request, the one waited for, and none while one is served. `ThreadInv` says
what the gadget is in each place of the event thread. Reading from a record that
was never filled is possible only after `initialize` returned 1 (`StartupInv`). The proof lets
`exit()` happen at any point, since `main` may return while the threads run.

**IsoOut.** The counter is not exact, and no invariant can say so (run `IsoOutDrift`). What holds is
`CounterInv`: however updates are lost, each writer stores what it loaded plus or minus
one, and the worker goes on to add one only if it loaded less than the limit. It does not matter whose transfer
a worker fills or a callback ends: `TransferInv` says that the pointer
points to one of the transfers where it is used, that one that was filled has an endpoint, and that one stays as it ended
while the callback is at it. `HandleInv` ties the handle in `io` to the worker that has it.

**Configuration.** Between two requests the properties are plain; within one nothing is settled. So
the invariant does not speak of the present state but of the one in which the request in progress will end:
`FinalOpen`, `FinalAlternate` and `FinalConfiguration` are computed from the records and from the steps that are left,
and no step changes what they say (lemma `Carried`). Of these, `OpenInv` says that the endpoints of
the final alternates, and no others, will be open, `SettledInv` and `ConfiguredInv` that
these are the alternates of the final configuration, which the driver has been told of,
`SelectInv`, `ForwardInv` and `DeviceInv` that the device will have the same, unless it refused. `OneTarget` says that no two
steps contradict each other, and `InOrder`, pair by pair, what may come after
what: the forwarded request is the last step, no endpoint of an interface is closed after the interface is selected, and
for an address an open comes after a close and is the last thing done. The other half of the work is that a
request makes such steps of any tree (lemmas `SetAlternateSteps` to `RequestHas`).

**PassthroughC.** The same idea with threads (`TreeInv`): a disable comes right after the
join of its worker (`JoinedInv`), and an interface is selected when the endpoints of its other
alternates are closed or will be before (`SelectInv`). `WorkInv` is for the workers what `IInv` of `EndpointIO` is, with an
inequality for the counter, since here the OUT callback may return before its decrement.

`ImplementsConfiguration` has the same two halves. One is about the functions: what `KeptOf` keeps of the steps
that `setEndpoint` to `setConfiguration` make here is what they make in
`Configuration` (`setEndpointKept` to `InterfaceKept`, by the joins of flattened sequences). The other
is a lemma per action: a request, a record, the select, the forwarded request, an enable
and a disable are the step of that name; transfers, stop, join, `main`, the workers
and the callbacks are none (`NothingSeen`). `AddressInv`, that no two handles are taken for one
address, makes a disable close its endpoint, and with `EnoughHandles` it makes an
enable fail only where `Configuration` says so, at an address that is in use.

**HidGadget.** `QueueInv` bounds the driver's queue: each reset leaves at most two events behind it, its own and the request it
abandons, and a host waits for one request, which is in the queue or being served. `StartInv` says that nobody waits for an answer before the gadget runs, `ReplyInv` that
the answer in the hands of the thread of endpoint zero is the one its tables have for the request it
serves, and `EnableInv` that the four endpoints are enabled in order and once, for a second
SET_CONFIGURATION, after a reset, finds them enabled, and that the threads have the handles of theirs. An enable
is refused only if the address is taken or the hardware has no endpoint left. The first
cannot be: the four descriptors have different addresses from the start and CONNECT leaves them alone (`AssignedStays`,
about the fold of `process_eps_info`).

TLC was used on the invariants of `Configuration`, with both values of `Reselect`, and of
`PassthroughC` on the instances of their runs before they were proved; the `.cfg` files check only the properties.

**Flattened sequences.** The steps of a request are made with `FlattenSeq`, whose definition is a
recursive function. `SequenceLemmas` proves that it is defined, what its elements are and how it grows, not by induction,
for which the provers have no usable rule here, but from the least number of sequences
for which the fact would fail (`LeastNumber`).

Only model-checked:

* Liveness: `DisableCompletes`, `KeepsPolling`, `HostIsAnswered`, `StopCloses`, `RequestsFinish`, `ConsoleServed`,
  `EveryButtonPressed`. Fairness and ENABLED are out of the reach of the prover.
* The four violations, which are single counterexamples.


## What is not modelled

* Observers: they see and may change a payload, and no module has payloads. Their
  registration is ordered by `main` before any thread exists.
* Payloads, and so the stack buffer that OUT transfers point to: whether it is read after
  the function has returned is decided by the operating system under libusb, not by this code.
* Times: sleeps and polling intervals are steps without duration.
* The isochronous OUT worker of `passthrough.c` and its second test of the limit.
* The free functions of `raw-gadget.cpp` that the class replaces and nothing calls. They
  are the same text as in `passthrough.c`.
* `libusbhax.c`: a sequence of libusb calls that keeps no state, whose replay loop is
  written to run no times. Logging and the generated headers: no behaviour.

`PROJECT.json` lists under "hazards" what these parts could do wrong.

## Plan

Done: the endpoint core with its abstract specification, its invariant and the proof that it
implements that specification; the configuration tree; the control relay with start-up and stop; address
assignment; string conversion; the C program as a composition of all its parts, shown to
refine `Configuration`; the HID gadget; proofs of the safety properties and of both refinements.

Next, in this order:

1. `ConfiguredIO`: the same composition as `PassthroughC`, for the library, with its
   `exit()` on failed reads and writes.
2. Observers, with the payload of IN transfers.
