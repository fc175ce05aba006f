# A TLA+ model of libusb_vhci

libusb_vhci lets a user-space program play a USB host controller with devices
behind it. The kernel driver `vhci_hcd` hands it *work* through `ioctl` calls on
`/dev/usb-vhci`: status reports of the ports of the root hub, requests (urbs) for
the devices, and notices that a request is being canceled. The library queues the
work for the threads of the application and gives finished urbs back.

This directory models that program, checks the model with TLC and proves parts of
it with TLAPS. `PROJECT.json` lists the runs, which lines every definition stands
for, the hazards the properties are aimed at, and the theorems. Paths below are
relative to the root of the repository.

## 1. Inventory

| Part | Source | State | Operations | Model |
|---|---|---|---|---|
| Host controller, queues (`class hcd`) | `src/hcd.cpp` | `inbox`, `processing`, `bg_thread`, `thread_shutdown`, callbacks, `_lock` | `next_work`, `finish_work`, `cancel_process_urb_work`, callbacks, `init_/join_bg_thread`, destructor | `LocalHcd`, `WorkSignal` |
| Host controller, driver side (`class local_hcd`) | `src/local_hcd.cpp` | address and status of each port, locals of `bg_work` | `bg_work`, `canceling_work`, `finishing_work`, `get_port_stat`, `port_*` | `LocalHcd`, `VirtualDevice`, `PortHub` |
| Work objects | `src/work.cpp` | port, canceled flag, triggers, the urb | construction, `cancel`, copy, assignment, deletion | `LocalHcd`, `UrbCopies` |
| Port status | `src/port_stat.cpp`, `work.cpp`, header | two words and a flag | getters, triggers | `PortStat` |
| Urb | `src/urb.cpp`, header | the fields of a request, two arrays | construction, copy, assignment, setters, `set_iso_results` | `Urb`, `UrbStatus`, `UrbCopies` |
| C interface | `src/libusb_vhci.c` | none | fetch work and data, give back, port requests, triggers, status conversion | `Urb`, `PortStat`, `LocalHcd`, `UrbStatus`, `PortHub` |
| Kernel driver, hub and usb core | external | state of every urb, pending reports, port, address of the device | the `ioctl` calls, port commands, control requests | `LocalHcd`, `PortHub`, as used |
| C++ example | `examples/virtual_device.cpp` | `has_work`, `waiting_for_work`, condition variable, the work in hand | main loop, callback, `process_urb` | `WorkSignal`, `VirtualDevice` |
| C example | `examples/virtual_device2.c` | port status, address, the urb in hand and its buffers | main loop, `process_urb` | `VirtualDevice2` |

How they interact. One background thread per controller loops over `bg_work`: it
waits in `FETCHWORK` without the lock, allocates and reads the data of an urb
without the lock, and takes `_lock` to queue a work and change the port table,
calling the callbacks with the lock held. Application threads call `next_work`
(inbox to `processing`, deleting what was canceled) and `finish_work` (give the
urb back, delete the work), each under `_lock`. A cancel of the kernel comes as a
work of its own and goes to `cancel_process_urb_work`: an urb still in the inbox
is marked and given back at once, an urb in progress is announced to the user by
a cancel work. The application answers port reports by port requests (`connect`,
`reset_done`, `resumed`), which the hub accepts only if they fit the port as it is
then. The C example uses the C interface without the controller: one thread
fetches, answers and keeps the address of its device itself. The destructor sets
`thread_shutdown`, joins the thread, closes the driver and deletes what the
queues hold.

What is hard, and hence what the properties are for:

- **Races for an urb**: cancel against `next_work`, `finish_work` and
  `fetch_data`. Each urb must be completed once, and never be lost but where the
  code lets go of it on purpose.
- **Running out of memory**: `bg_work` retries after every failed allocation,
  jumping back over what it did; copies and assignments may throw half way. No
  path may leak, delete twice, or redo a change.
- **Order**: triggers are computed when a report is queued and used later;
  addresses change when a SET_ADDRESS is queued, not when it is answered.
- **Stale state**: a report is answered when the port may have changed; device,
  port table and usb core each keep an address and change it at different moments.
- **Waiting**: endless retries against the join of the destructor; a callback
  under a lock against a thread in `pthread_cond_wait`; a port that waits for a
  device that sees only edges between merged reports.
- **Conversions**: status codes and errno values that are not one to one.

## 2. Modules

```
PortStat   Urb                   data: reports, requests, what is decided by them
   |  \   /  |
   | LocalHcd |   UrbLifecycle   queues, background thread, port table, kernel;
   |    |     |      |           the life of an urb, abstractly
   | LocalHcdProperties          what the controller promises, and that it
   |    |                        implements UrbLifecycle
   |   MC_LocalHcd, LocalHcdProofs - LocalHcdLifecycleProofs
   |                               \ LocalHcdQueueProofs
 PortHub                         port requests, hub and usb core
   |   \
   |  VirtualDevice              C++ example on local_hcd:  MC_VirtualDevice, VirtualDeviceProofs
 VirtualDevice2                  C example:  MC_VirtualDevice2, VirtualDevice2Proofs

WorkSignal                       callback, condition variable, thread life:  WorkSignalProofs
UrbStatus                        answer to an urb:  MC_UrbStatus, UrbStatusProofs
UrbCopies                        copies of urbs and works:  MC_UrbCopies, UrbCopiesProofs
```

A definition under a comment `\* Mutation` is a plausible mistake, not the code;
no action uses it. It shows that the properties would notice the mistake.

### LocalHcd

| Variable | In the code |
|---|---|
| `heap` | the work and urb objects; a pointer is a cell, `Free` a deleted one |
| `inbox`, `processing` | `hcd::inbox`, `hcd::processing` (a set: only membership matters) |
| `adr`, `stat` | `local_hcd::port_info` of every port |
| `pc`, `wk`, `res`, `obj`, `u` | where `bg_work` is; `w`, `res`, `psw`/`puw`, `u` |
| `life` | constructed, in `join_bg_thread`, destroyed, or `std::terminate` was called |
| `kstate`, `serial`, `reports` | the kernel: state of the urb behind a handle, number of its uses, reports issued |
| `strays`, `dropped`, `seen` | history: refused givebacks, urbs let go of, last status handed out |

An action is a region between two points where someone else can interfere: one
region under `_lock`, one `ioctl`, or one step of `bg_work` outside the lock.

| Code | Actions |
|---|---|
| `bg_thread_start`, start of `bg_work` | `Loop`, `FetchNothing`, `FetchStat`, `FetchUrb`, `FetchCancel` |
| PORT_STAT case | `StatAllocFails`, `StatEnqueueFails`, `StatEnqueue`, `Retry` |
| PROCESS_URB case | `Alloc`, `AllocGivesUp`, `AllocThrows`, `FetchData`, `FetchDataFails` (`DataCanceled` or `DataRefused`), `RouteNowhere`, `RouteAllocFails`, `RouteEnqueueFails`, `RouteEnqueue`, `Retry` |
| CANCEL_URB case, `cancel_process_urb_work`, `canceling_work` | `BgCancel` (`CancelQueued`, `CancelInProgress`, `CancelUnknown`), `BgCancelThrows`, `UserCancel` |
| `next_work` | `NextWork`, `NextWorkNone` |
| `finish_work`, `finishing_work` | `FinishWork` |
| `join_bg_thread`, `~hcd`, `~local_hcd` | `BeginShutdown`, `Destroy` |
| kernel | `Unlink`, and the kernel's half of every fetch and giveback |

Abstractions: a work object is a record of the fields the code decides by;
buffers and packets are the Boolean `filled`; the three allocation loops of an urb
(object, buffer, packets) are one action that succeeds, or fails and is repeated,
since they differ in nothing but the size. `finish_work` deletes the work after
it has released the lock; no list holds the object then, so the deletion is part
of the same action. The callbacks are left to `WorkSignal`. Port reports are any
sequence of reports, also one that skips states, since the kernel merges changes
that happen before a report is fetched. The kernel refuses a giveback it does not
wait for.

`FetchDataFails` is the code's one answer to any -1 of `usb_vhci_fetch_data`: the urb
object is deleted and nothing is given back. The kernel makes two cases of it.
`DataCanceled`: the urb has been unlinked, the errno is ECANCELED, and the kernel
has completed the urb itself. `DataRefused`: any other errno, and the kernel goes on
waiting for the urb, which nobody has any more; it joins `dropped`. That happens
when there is no memory: the array of packets of `usb_vhci_fetch_data` is allocated
without a check, and the driver gets a null pointer in its place (the array takes a
cell while the call lasts), or the driver cannot serve the call itself. Neither is
possible while memory suffices.

### UrbLifecycle, and how LocalHcd implements it

The abstract specification has no queues, threads, memory or ports: an urb is
new, in the library, with a user, dropped or completed; the usb core may want it
back (`wanted`), and a user may have a notice waiting for him (`noticed`). An urb
is handed out at most once and completed exactly once; what is wanted back is
taken back silently if no user has it, and announced otherwise.

`LocalHcdProperties` maps the state of `LocalHcd` to it: `PlaceOf` says where an
urb is by `processing`, `dropped` and the state of the kernel; `Wanted` are the
urbs the kernel has unlinked, until `bg_work` has acted on the notice it fetched;
`Noticed` are those with a cancel work in the inbox; closing is `Destroy`. So
fetching is a `Submit`, the actions of `bg_work` between fetch and enqueue are
stuttering steps, `CancelQueued` is `TakeBack`, `CancelInProgress` is `Notify`, and
`DataCanceled` is `TakeBack` as well, done by the kernel. `DataRefused` and
`RouteNowhere` are `Drop`. `ImplementsLifecycle` is `Lifecycle!Spec` under this
mapping, for runs that use each handle once.

### PortHub

One port of the hub with the usb core behind it. The requests are the words that
`usb_vhci_port_connect` and its siblings put into the `ioctl` (`Connect`,
`Disconnect`, `Disable`, `Resumed`, `Overcurrent`, `ResetCompleted`); the functions
of `local_hcd` that the C++ example calls pass them on. `Request` is what the hub
does with one it accepts. The rest is external, modelled as far as the examples
rely on it: a request is refused that does not fit the port; changes
are merged into one report until it is fetched; the core switches power, resets,
suspends, resumes, clears change bits, and sends one control request at a time
to an enabled port, at the address it believes in, whose endpoint direction agrees
with `bmRequestType`; it may give a request up.

The core may do all this at any moment. Two history variables say when it did what
no device behind these reports can follow: `hasty` when it acted before an earlier
change was reported, handled and cleared (switching the power off afterwards
makes up for it), `doubt` when it gave up a SET_ADDRESS that the program had
fetched, since the last reset. The properties of the devices name these cases
and hold in all others.

### VirtualDevice2 and VirtualDevice

`VirtualDevice2` is the C example: every `ioctl` of its loop is a step (`FetchStat`,
`Answer` or `AnswerRefused` for each request a report leads to, `NotForMe`,
`FetchUrb`, `FetchData` or `FetchDataFails`, `GivebackUrb`, `Free`, `FetchCancel`,
`FetchNothing`). `stat` and `adr` are the variables of `main`, `todo` is what the
report in hand still asks for, `buffers` the life of the buffers of the urb.
Freeing them twice may end the process or go unnoticed. `FetchDataFails` is any
errno: with ECANCELED the urb is gone, with another one the answer still reaches it.

`VirtualDevice` is the C++ example on top of `local_hcd`: the background thread
(`bg`, `wk`) turns reports into works with triggers and keeps address and status,
the main thread (`main`, `work`, `todo`) takes the works later and answers them,
looking at the current status with `get_port_stat` first. Another thread of the
program may make a port request for any port number. It composes the hub with
the order of the queue; memory and waiting are left to `LocalHcd` and
`WorkSignal`, where they are modelled in full.

### WorkSignal

The inbox again, but a work is only the Boolean that tells whether it was
canceled; instead the two mutexes (`_lock`, `has_work_mutex`), the condition
variable and the points between taking and releasing them are explicit. The
background thread takes `_lock`, enqueues, and calls the callback, which takes
`has_work_mutex`, all with `_lock` held (`BgLock` ... `BgUnlock`). The main thread
registers the callback (`Register`), checks the flag (`Top`, `TakeFlag`, `Wait`,
`Awake`, `Unlock`) and polls (`NextWork`, `NextWorkNone`, `Finish`). A wait may
end without a signal (`SpuriousWakeup`); the loop of the example does not test the
flag again then. `LocalHcd` may treat "enqueue and call back" as one action because
this module shows that the callback does not block for ever.

It also has the life of the thread: `CreateThread` (which may fail, so that the
constructor throws), `Leave`, `RemoveCallback` or not, `Join`, `Joined`, `Close`,
`DeleteWorks`, `BgExit`. The example itself never leaves its loop; a program may.

### UrbStatus and UrbCopies

`UrbStatus`: one urb from the work in progress to the `ioctl`: an action per setter
of `class urb`, `set_iso_results`, and `usb_vhci_giveback` with the conversions
`usb_vhci_to_errno` and `usb_vhci_to_iso_packets_errno`. `FromErrno` is only used
to say what reading a result back gives.

`UrbCopies`: works, urbs and arrays are blocks of a heap. `Cpy` is `urb::_cpy`,
`NewUrb` a copy constructor; both give the set of outcomes, as each `new` may
throw between the steps. `Construct`, `Copy`, `AssignWork`, `AssignUrb`, `Write` and
`Destroy` are what a program does with works. `Misuse` is the read or deletion of
what is not there any more: undefined behaviour, after which the model stops.
`meant` is what each urb should hold, `broken` what a failed assignment has made
of a work, `leaky` that a constructor threw. Every urb has a buffer, and only an
isochronous one packets.

## 3. Properties

`LocalHcdProperties`:

- `Ownership`: every pointer in a queue, in a work or in a local variable of
  `bg_work` leads to a live object of the right class, and every object has one
  owner. So nothing is used after deletion and nothing is deleted twice.
- `NoLeak`: what no pointer leads to has been deleted, but for dropped urbs. (Those of
  an unknown address stay allocated; one whose data are refused is deleted.)
- `GivebackOnce`: no urb is given back when the kernel does not wait for it.
- `Accounted`: while the kernel waits for an urb, `bg_work` or a queue has it, unless
  it was dropped: its type or its address is unknown, or its data were refused. So
  these are the only ways in which an urb is lost; the kernel waits for such an urb
  until the core gives it up or the driver is closed.
- `InProgressOutstanding`: a user never works on an urb the kernel has completed.
- `DataFetched`: an urb with data reaches a queue only after the data were read.
- `TriggersChain`: along the works of a port, from the last one handed out to the
  current status, each work's triggers compare it with the one before it.
- `RoutedInOrder`: an urb sits in the inbox behind the work that gave its port the
  urb's address, and no work in between took the address away.
- `ImplementsLifecycle`: the controller implements `UrbLifecycle`.
- `UrbCompletes`, `CancelReachesUser`, `ShutdownEnds`: liveness.

`VirtualDevice`, `VirtualDevice2`: `AddressAgreed` (device and core agree on the
address whenever all is settled), `RefusedOnlyIfHasty` (the program ends only if
the port changed after the report it answers), `PortAnswered` (a port that waits to
be plugged in, for the end of a reset or of a resume does not wait for ever,
although reports are merged) and `UrbAnswered`. `AddressAgreed` covers endpoint 8,
which the header's mask 0x07 takes for endpoint 0, in the C example only.

`WorkSignal`: `NoLostWakeup` (a sleeping main thread means an empty inbox, once the
enqueue in progress is through), `EveryWorkTaken` (absence of a deadlock of the two
locks, and no work waits for the next one to be announced),
`NoCallbackAfterRemoval`, `OutlivesThread` (the driver is closed and the works are
deleted after the thread has ended), `DestructorReturns`.

`UrbStatus`: `IsoAnswer` (packets, error count and status agree in what the kernel
gets, if no packet is answered after `set_iso_results`, which leaves the sums
stale), `FailureKept`, `IsoOnly`, `ReadsBack`.

`UrbCopies`: `UndefinedOnlyIfBroken` (only what is left of an assignment that threw,
or of a work assigned to itself, must not be used), `ValuesKept` (copies are
deep), `LeaksOnlyBuffers`.

## 4. Runs

| Run | Instance | Shows |
|---|---|---|
| `urbs` | 2 urbs of 5 kinds, 1 report, 7 cells, memory suffices | memory, completion, data and life cycle of urbs under cancels and a shutdown at any moment; every urb is completed and every cancel reaches its user |
| `ports` | 2 ports, 2 urbs (two SET_ADDRESS, one request to the new address), 2 reports of 4 | edges are reported once; an urb reaches the port that has its address |
| `nomem` | 1 handle used twice for isochronous urbs, user cancels, 2 reports of 3 kinds, 4 cells, every allocation may fail, that of `usb_vhci_fetch_data` included | the retries keep queues and triggers right, also where a stale canceled work is found first; no urb is lost but those whose data are refused; the destructor returns |
| `signal` | 4 works | no lost wakeup, no deadlock, no callback after its removal, the destructor returns |
| `status` | all status codes and one more, 2 packets | the answer to an urb is consistent |
| `copies` | 2 works, 7 blocks, 2 values | copies are deep; only failed and self-assignments break a work |
| `device2` | 8 commands of the core, 5 control requests | the C example answers every port change and agrees on the address |
| `device` | 4 commands, 1 request of another thread, 2 control requests | the same for the C++ example |
| `refetch`, `lost`, `throws` | 1 urb | disagreements, see below |
| `double_free` | 3 commands, 1 control request with data | a disagreement, see below |

Why these bounds are enough. The races are between one urb and its cancel, or
between two urbs that share a queue, a port or a handle: two handles, or one
handle used again, give each of them. Two reports give every edge and, with the
initial status, a predecessor that is itself in the inbox. A work takes two cells
and a cancel work one, so 7 cells never run out with two urbs and a report, and 4
cells do. `MaxReports` and `MaxSubmit` bound how often the kernel acts, nothing else
is bounded. Handles are used once (`MaxSubmit = 1`) where `GivebackOnce` is checked
and user threads do not cancel there: with a reused handle, or with two cancels of
one urb, the code does give back twice, and relies on the kernel to refuse it
(run `nomem` shows what holds then). Four works in `signal` let one be enqueued
before the callback is registered, one while the main thread wakes up, one while
it works and one canceled. In `copies` two urbs take six blocks at most, and the
seventh lets one leak. Eight commands in `device2` are power, reset, a
SET_ADDRESS, a request to the new address, and a suspend and resume or a second
power cycle; four in `device` are power, reset and two more, with the queue
between them. Symmetry (handles in `ports`, works in `copies`) is used only in runs
without liveness.

Deadlock is checked in every run; `Terminated`, `Waiting`, `Idle`, `Done` and
`Undefined` are the states in which the system really may stop.

Fairness. `ScheduledSpec` of `LocalHcd` assumes weak fairness of the background
thread (`BgStep`: it is a thread of its own, and `FETCHWORK` times out after 100
ms), of the user threads taking works, and of the destructor once the thread has
been joined; and strong fairness of fetching a cancel notice, which the kernel
serves from a list, though the loop may fetch other work first. That users finish
what they take is the application's duty, not the library's: it is the hypothesis
`Finishing` of `UrbCompletes` and of no other property. No fairness is assumed of
the kernel's urbs and reports, of unlinks, of the memory or of the call of the
destructor. `WorkSignal` and `VirtualDevice` assume that both threads are
scheduled, `VirtualDevice2` that its one thread is; works and commands are finitely
many, so weak fairness of a thread that waits for a mutex is enough. Nothing is
assumed of the usb core or of other threads of a program.

### Disagreements with the code's own words

- `refetch`: `bg_work` stores the result 0 of `usb_vhci_fetch_data` in `res`. If the
  work object or the queue entry cannot be allocated afterwards, the retry builds
  a new urb with new buffers and skips reading the data.
- `lost`: for an urb whose address no port has, `bg_work` deletes `puw`, which is
  null; the comment there says that this deletes the urb.
- `throws`: `bad_alloc` from the cancel work leaves `bg_work`, which is declared
  `throw()`, although its other allocations are retried; and so does the
  `invalid_argument` of the constructor of `urb` for isochronous packets without
  a buffer. The trace of the run ends with the latter, which takes fewer steps; with
  `UrbInputs <- UrbsOut` it ends with the former (`BgCancelThrows`).
- `double_free`: after a failed `usb_vhci_fetch_data` the C example frees the
  buffers, goes on with the urb, and frees them again.

Noticed while modelling, without a run: the STRING case of `process_urb` in both
examples does not break and ends in the stall of the default case
(`virtual_device.cpp:178`, `virtual_device2.c:157`); the C++ example acknowledges a
SET_ADDRESS above 0x7f, which `bg_work` ignores; the header masks the endpoint
number with 0x07, the C example with 0x7f (no run sends endpoint 8 to the C++
library); several `malloc` calls are unchecked. An urb whose data cannot be read for
another reason than a cancel (`local_hcd.cpp:219-225`) is neither tried again, as
`bg_work` does after its own allocations, nor given back with an error, as the C
example does: the kernel waits for it. No comment says what is meant to happen.

## 5. Proofs

All hold for every value of the constants that satisfies the named assumptions:
in essence a port number fits into a byte, no cell or block is the null pointer,
requests and reports are of the right type. `UrbCopies` assumes a finite heap
besides (`BlocksAssumption`: `Room` counts its free blocks), `PortHub` that the core
sends control requests only, with an in endpoint only for what is read
(`HubUrbsAssumption`), and `VirtualDevice` that other threads use the port requests
of the library (`OtherRequestsAssumption`) and that the core, which gives out
addresses up to 127, asks for no other one at endpoint 0 (`DeviceUrbsAssumption`;
without it the example acknowledges an address that the library does not store).
Bounds such as `MaxReports` may be any number.

**`LocalHcdProofs`**: `InductiveInvariant` (`Spec => []IInv`), `TypeCorrect`,
`MemorySafe` (`Spec => []Ownership`). `Ownership` alone is not inductive: whether a
retry may delete or reuse `psw` or `puw`, and whether it is a report or an urb,
depends on where `bg_work` is. `IInv` therefore adds `TypeOK` and `Control`, which
ties `pc` to the kind of `wk`, to the class of the object in `obj`, to whether `u` is
set, and to `res`: once `puw` is kept for a retry the data have been read, so a
failing `fetch_data` never meets a `puw`. The proof has one lemma per action and
conjunct. Three lemmas carry most of it: deleting works that are in a queue, or
the one in hand, leaves all other pointers alone (`DeleteKeeps`, `DeleteSound`); a
new object is placed where no pointer leads (`NewKeeps`); an enqueued cell was in
no queue (`EnqueueKeeps`). `BuiltInvariant`: the urb object that `bg_work` has built is
the request it has in hand (`Built`), through all retries; the two modules that
follow need it.

**`LocalHcdLifecycleProofs`** builds on it, with any failing allocation, that of
`usb_vhci_fetch_data` included.

- `NoneLost` (`Accounted`), for every value of the constants: handles used again, and
  cancels by users. The invariant `AllHeld` says where an urb is that the kernel waits
  for: with `bg_work`, in a queue, dropped, or given up at a shutdown. Only
  `FetchUrb` (a type that is unknown), `DataRefused` and `RouteNowhere` drop one. A work leaves
  the queues only when it is marked or given back, a cancel gives back what it
  marks, and `Built` carries an urb from `bg_work` into the inbox.
- `UrbInvariant`, and from it `UsersWorkOnOpenUrbs`, if no handle is used twice
  (`MaxSubmit = 1`). `UrbInv` says that a handle has one work in the queues; that the
  kernel waits for its urb exactly as long as that work is not marked, and marked
  works are in the inbox only; and what `bg_work` has in hand is in no queue. With a
  handle used again all this is false: the marked work of the first use may still be
  in the inbox, a cancel of the second use finds it first, and the work of the second
  use is handed out although its urb has been given back.
- `NeverGivenBackTwice` and `RefinesLifecycle`, the refinement, if besides no user
  cancels (`OncePerHandle`; without it the code gives back twice). Then `UrbInv` also
  says where an urb with a notice is. For the refinement each action is mapped to the
  abstract step it is, or to a stuttering step; `AllHeld` gives that a cancel that
  finds nothing is for an urb that was dropped or is completed.

**`LocalHcdQueueProofs`**, with reused handles and user cancels. First the order, with
failing allocations: `AddressesKeepOrder` (`RoutedInOrder`) and `NoEdgeLost`
(`TriggersChain`).
A step does one of four things to the inbox: nothing, a notice behind it, a report or
an urb behind it, or works off its front; and a cancel changes nothing that a work
tells of its port. `View` compares a position before such a step with one after it.
`RoutedInOrder` needs besides `Built`, that the urb object is the request `bg_work`
fetched. `TriggersChain` is carried by a relation, `LastStat`, that names
the last status of a port before each position, so that taking works off the front
only moves its start.

Then memory. When an allocation fails the code does leak, and does hand out urbs
without their data (`refetch`), so `NoLeak` and `DataFetched` hold only while none
fails, and the proof has two halves:

- `LastsInvariant`: while no step of `bg_work` is refused memory (`AllocationFails`,
  which includes `DataRefused`),
  `Lasting` holds: `NoLeak`, `DataFetched`, `Built`, and `Building` (nothing is kept for
  a retry, and `res` still tells of data to be read until the urb has them).
- `MemoryLasts`: under `EnoughMemory` none is refused. `Budget` counts: the cells in
  use, one cancel for each urb that may yet be canceled, and what `bg_work` will still
  take for what it has in hand, are at most three for every use of a handle and one
  for every report. `EnoughMemory` is therefore `~NoMem` and that many cells, and no
  cancels by users, which have no end; or infinitely many cells and anything else. The
  bound is tight: the run `urbs` has just the 3 * 2 + 1 cells, and needs them.

`OnlyDroppedLeak` (`NoLeak`) and `DataComeAlong` (`DataFetched`) follow.

**`WorkSignalProofs`**, for any number of works: `WakeupNotLost` (a work in the inbox
is announced by `has_work`, is about to be announced by the callback, or will be
found because the main thread is on its way to `next_work`; a sleeping thread has
found `has_work` unset and set `waiting_for_work`), `CallbackGone`,
`ThreadOutlived`, `TypeCorrect`.

**`UrbStatusProofs`**, for any status value, number of packets and length:
`FailureNeverHidden`, `IsoErrnoOnlyForIso`, `IsoAnswersAgree`, `ResultReadsBack`,
`TypeCorrect`. The invariant says that nothing is set on an urb after it has been
given back, so that what the kernel got is still the conversion of the urb.

**`VirtualDevice2Proofs`**, for any control requests and any number of commands:
`AddressesAgree`, `RefusedIfHasty`, `TypeCorrect`. The core of the invariant is
`Quiet`: if the core is not hasty one thing happens at a time, so what a report
leads to is at most one request, and the hub takes it. `Agreed` says which of
the two addresses is ahead: after the report that is on its way, or when the
SET_ADDRESS in hand is given back, they are the same.

**`VirtualDeviceProofs`**, for any control requests, commands and requests of other
threads: `AddressesAgree`, `RefusedIfHasty`, `TypeCorrect`. Here what the C example
does in one step is spread over two threads and the inbox, so `Quiet` says where it
is: a change of the port is unreported, with the background thread, queued or being
answered (`Changed`, `Fetched`, `Queued`, `Replying`), or a request is with the
driver, with the background thread, in the inbox, with the main thread or gone but
for the traces of its cancel (`WithDriver`, ..., `Gone`). Each action moves from one
of these phases to another. `Moved` is a SET_ADDRESS that the background thread has
carried out before the device has seen it. `TriggersAgree`, for any two statuses:
the C function and the C++ constructor find the same edges, so both devices are
told the same.

**`UrbCopiesProofs`**, for any works, data and finite heap: `UndefinedIfBroken`,
`CopiesDeep`, `OnlyBuffersLeak`, `TypeCorrect`. The invariant `Shape`: urbs are sound
and share no block, those of usable works are whole and hold what they should,
and every block belongs to one or has leaked. `CpyOutcome` and `NewUrbOutcome` say
what a copy may leave behind, `OneChanged` that a change of one urb keeps `Shape`.

Only model-checked: the liveness properties (`UrbCompletes`, `CancelReachesUser`,
`ShutdownEnds`, `EveryWorkTaken`, `DestructorReturns`, `PortAnswered`, `UrbAnswered`):
the prover handles neither fairness nor ENABLED, nor induction over data. The
invariants that the passing runs check, and the refinement, are proved.

## 6. Not modelled

- The constructors of `urb` from single fields and the single-bit setters of
  `port_stat`: nothing in the library calls them.
- `usb_vhci_open` and `usb_vhci_close` beyond opening and closing: pure I/O. So are
  logging and the printing of the examples.
- The bytes of descriptors, data and names, and lengths of packets beyond what
  `actual` tells. Thread priorities and stack sizes.
- Torn reads of the two words of a status in `get_port_stat`: a bit has its old or
  its new value.
- What follows a crash: a failed `malloc` in `usb_vhci_giveback` ends the process, and
  undefined behaviour ends a model. (That of `usb_vhci_fetch_data` makes the call fail
  instead, and is modelled.) The C example does not check its own two either: without
  a buffer `usb_vhci_fetch_data` fails, which is modelled, or `process_urb` writes
  through a null pointer, which is not.
- Data refused to the C++ example: `VirtualDevice` assumes that memory suffices, so
  `usb_vhci_fetch_data` fails there with ECANCELED only.
- More than one port with a device: each port has its own work, and the order
  between ports is in `ports`.

## 7. Plan

Done: all modules of section 2 with their runs and proofs, among them the parts
planned first (the life of an urb as an abstract specification, the port session
with both examples, thread life, copies).

Left: a hub with two ports and devices at two addresses in `VirtualDevice`, to see
two ports with one address (the TODO in `bg_work`) from the core's side.
