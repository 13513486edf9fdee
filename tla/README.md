# mhwallet in TLA+

mhwallet talks to a Ledger Nano S over USB HID: a C++ class, `nanos_wallet`,
sends APDU commands (address, signature, version, applications) and reads the
answers; below it `frame_io_apdu` and `frame_io` cut requests and answers into
64-byte reports, `hidpp_device` wraps one HID handle in a mutex, and one of four
C backends of hidapi does the I/O. This directory has TLA+ modules of these
parts, TLC configurations that check them on small instances, and proofs,
checked by TLAPS, that most of what is checked holds for instances of any size.

Paths below are relative to the repository.

## The system

| Component | State | Operations | Talks to |
|---|---|---|---|
| `nanos_wallet` (`src/nanos_wallet.cpp`) | `m_valid`, `m_framer`, `m_devLock` | `init*`, `reopen_with_app`, `close`, `exchange`, `run_app`, `get_opened_app_pid`, and the commands built on `exchange` | `frame_io_apdu` (calls), `hidpp` (enumeration) |
| `frame_io_apdu`, `frame_io` (`src/frame_io_apdu.cpp`, `src/frame_io.cpp`) | `rn`; `m_seq`, `m_offset` | `exchange`; `write`, `read`, `reset` | `hidpp_device` |
| `hidpp_device` (`src/hidpp_device.cpp`) | `m_dev`, ids, `m_dev_lock` | `open`, `close`, `read`, `read_back`, `write`, `getError` | the backend |
| `hidpp` (`src/hidpp_base.cpp`) | hidapi's global state | `hid_init`/`hid_exit`, `enumerate_devices` | the backend |
| backend libusb (`src/hid/libusb/hid.c`) | handle, transfer, queue of input reports, flags, mutex and condition variable, a read thread | `hid_open_path`, `hid_read_timeout`, `hid_close`, callbacks, and synchronous calls | libusb |
| backend mac (`src/hid/mac/hid.c`) | the same with a run loop, two barriers and two callbacks | the same | IOKit |
| backends linux, windows | an error text; windows: one pending read | synchronous calls | kernel |
| command line (`src/main.cpp`) | none | one command on a new wallet | `nanos_wallet` |

What is hard here:

- **Framing.** A report carries 59 bytes of data behind 5 of header, and the code
  counts in units of 64. `rn`, `m_seq` and `m_offset` survive an exception.
- **Retry.** A wrong sequence number makes `nanos_wallet::exchange` close and
  reopen the device and send the request again, though the device may have
  executed it, may answer it late, or may be gone.
- **Handles.** The Ledger re-enumerates whenever an application is opened or
  quit, so that an open handle dies while `m_valid` says it is fine; and
  `hidpp_device` overwrites a handle without closing it.
- **Threads.** Two mutexes, of which one is held across a blocking read; two
  operations that take neither; in the libusb and mac backends a read thread that
  may end because of `hid_close` or because of the device.

What makes each part correct: an exchange returns the answer to its own request,
whole and in order, or says that it failed; a wallet neither leaks a handle nor
uses a closed one, and an operation that reports a device opened has it open; a
process that exits with 0 printed the Ledger's answer to its own command; a
backend hands on reports in order, loses them only when too many wait, wakes
every reader, and `hid_close` returns and frees only what nobody uses any more.

## Modules

| Module | Models |
|---|---|
| `ApduFraming` | answers, their frames, the response buffer: where each byte of it comes from |
| `ApduExchange` | one call of `nanos_wallet::exchange` after another, down to each report; the device |
| `RequestReply` | abstract: a request is executed once at most and answered once |
| `ApduExchangeProofs`, `ApduQuietProofs` | the theorems about `ApduExchange`: on any line, and on a quiet one |
| `MCApduExchange`, `MCApduLengths` | instances: real commands; answers of the lengths at which frames end |
| `CommandLine` | the processes of `main.cpp` over `ApduExchange`, and what the commands of `nanos_wallet` make of a response |
| `MCCommandLine` | instance: real answers, and application lists put together as the Ledger does |
| `HidppDevice` | threads on one `hidpp_device`: its mutex, its reads and the backends' error texts, over `HidReports` |
| `HidEnumeration` | `hid_enumerate`, `hid_open`, `hid_free_enumeration` of the four backends, `enumerate_devices`, and hidapi's global state |
| `NanosWallet` | sessions: which operation opens, closes, replaces or uses the handle, under which mutex |
| `HidReports` | abstract: what a backend promises about one handle's input reports |
| `HidLibusb` | one handle of the libusb backend; implements `HidReports` |
| `HidMac` | one handle of the mac backend; implements `HidReports` |
| `CommandLineProofs`, `NanosWalletProofs`, `HidppDeviceProofs`, `HidEnumerationProofs`, `HidLibusbProofs`, `HidMacProofs` | the theorems about the module of that name |

How the state corresponds to the code:

- `ApduExchange`: `m_valid`, `m_dev`, `m_seq`, `m_offset`, `rn`, `respLen` are the
  variables of those names. `buffer` is the sequence of writes made to the
  response, each with its position, so that a byte is known by the answer and the
  place it came from; `ByteAt` gives its value where the code looks at it (length
  and status word). Integers that wrap (`m_seq`) are taken modulo 2^16. One action
  stands for one report written or read (`WriteFrame`, `AcceptFrame`,
  `RejectHeader`, `WrongSeqno`, `ShortReport`, `ReadError`), because the device
  and its user act between reports. `RejectHeader` and `ShortReport` are exceptions
  nobody catches; `WrongSeqno` is the one that `exchange` retries
  (`CloseForRetry`, `ReopenForRetry`). `m_dev = "dead"` is a handle whose device
  has gone, which `hidpp_device` cannot tell from a live one.
- `NanosWallet`: an exchange is its outcome; a step begins or ends where a mutex
  is taken or left, where the bus is looked at, and where the handle changes.
  Handles have an identity here (`open`, `pid`), so that leaks and late uses show.
- `CommandLine` adds to `ApduExchange` who calls: `program` runs its commands one
  after another (`Invoke`, `Proceed`), exits with 1 at the first exception or with
  0 (`Exit`), and its wallet closes the handle; the next process opens a new one
  (`Start`) to the same Ledger, which goes on with what it was asked. `MethodReturns`
  says whether a method of `nanos_wallet` returns or throws; `AppList` is the loop of
  `get_app_list` over the bytes of the response. That a range beyond the response
  throws is an assumption about the toolbox library.
- `HidppDevice`: `holder` is the owner of `m_dev_lock`. A text is the number of the call
  that set it, so that one that is too old shows; each backend's rule for it is an
  operator (`TextAtRead`, `LinuxTextAfterWrite`, `WindowsTextAfterWrite`, `Unchanged`).
  A read returns under the
  lock (`ReadReturns`), `read_back` in a step after it (`Unlocks`, `ReadBackReturns`). `before`
  is a history variable: the newest report returned when a thread's call began.
  Locking a `std::mutex` twice is undefined: `Relock` has both outcomes, the thread
  blocks or it passes (as with some C++ runtimes for windows).
- `HidEnumeration`: `list` has the C variables `root`, `cur_dev`, `prev_dev` and, for
  the records, their `next` and whether they are allocated; `Appended` and `Dropped`
  move the pointers as the code does, and `Reached` is where a loop over `next` gets. What a backend does with a device is the
  table `LinuxDoes`, `WindowsDoes`, `LibusbDoes`, `MacDoes`, by how the system
  describes the device: wholly, poorly, not at all, or no longer, because it left
  after the list was made. One action is one turn of the loop, or on libusb of
  the inner loops over interfaces and settings (`AddAnother`). A device has the `address` that
  the bus gave it, which another device gets when it is free. `context` is
  `usb_context`, `hid_mgr` or `lib_handle`, numbered by when it was made.
- `HidLibusb`, `HidMac`: a report is its number. The mutex and the condition
  variable are `mutex` and `waiting` (`asleep`); the flags are read and written
  without the mutex, as in the code. libusb's transfer has a state of its own,
  because `libusb_cancel_transfer` does different things in each.

Composition: `NanosWallet` assumes of an exchange what `ApduExchange` shows (it
ends with a status or an exception, and uses the handle only between taking and
leaving `m_devLock`); `ApduExchange` assumes of a handle what `HidReports` says,
with a queue that is never full, as the device sends no more than three frames
per answer; `CommandLine` is `ApduExchange` with its caller; `HidppDevice` uses the
actions of `HidReports` as its backend, and shows that with `m_dev_lock` there is one
reader at a time, which `HidReports` assumes; `HidLibusb` and `HidMac` implement `HidReports` by a refinement
mapping.

## Runs

| Run | Module, cfg | Shows |
|---|---|---|
| exchange_clean | `MCApduLengths`, `ExchangeClean` | three calls with a device that behaves: every answer is returned whole (`ReturnsValidResult`), nothing is left over (`WholeDataRead`), every call returns (`EveryCallReturns`) |
| exchange_unplug | `MCApduExchange`, `ExchangeUnplug` | unplug and replug at any moment, on a backend without error texts: a step of `RequestReply` or nothing a caller sees (`RequestReplySpec`): the Ledger executes each command once, and the caller gets the answer to it |
| exchange_faulty | `MCApduExchange`, `ExchangeFaulty` | strange reports, lost writes, an unplug, retries: `SuccessIsComplete`, `IoOnHandle`, and the inductive invariant `ExchangeInv` of the proof |
| wallet_sessions | `NanosWallet`, `WalletSessions` | two threads, three operations, two mode changes: `HandleOwned`, `ValidMeansHandle`, `IoOnOpenHandle`, `AppReopened`, `EveryOpReturns` |
| libusb_reads | `HidLibusb`, `LibusbReads` | `SafeFree`, `CloseEnds`, and `ReportsSpec`: `HidReports` is implemented |
| mac_reads | `HidMac`, `MacReads` | a read fails only when the device has gone (`ErrorMeansGone`), `RunLoopValid`, `CloseReturns`, `ReportsSpec` |
| enumeration | `HidEnumeration`, `Enumeration` | on every bus of three places, with each backend, a list the system may refuse and a change at any moment: the hand-linked list is sound (`ListIsSound`) and complete (`ListIsComplete`), everybody who owns records frees them (`RecordsFreed`), `hid_open` opens what it was asked for (`OpensAsked`), and handles are closed before hidapi's global state ends (`HandleHasContext`) |
| device_reads | `HidppDevice`, `DeviceReads` | two threads and four calls on each backend, with failing writes and an unplug: one thread at a time is in the backend, and none gets a handle that is closed (`OneInBackend`); a report that was read is returned (`ReportKept`), and after those that had been returned when its call began (`ReturnedInOrder`); a failed read has its own text (`FailureToldByItsText`); a device that is gone ends every call (`GoneEndsCalls`) |
| command_line | `MCCommandLine`, `CommandLine` | two processes with strange data, an unplug and an interruption: exit code 0 means the Ledger's answer to this command (`PrintsTheAnswer`, `ListsTheApps`), a whole answer is never thrown away (`AnswerIsUsed`), and without strange data nothing is left for the next process (`LeavesNothing`) |
| next_part | `MCApduExchange`, `NextPart` | violated: the third frame is written 5 bytes after the tail, against `frame_io.cpp:61` |
| stale_answer | `MCApduExchange`, `StaleAnswer` | violated: after a retry the second answer is taken for that of the next call |
| read_error_deadlock | `MCApduExchange`, `ReadErrorDeadlock` | violated: with a backend that has error texts (linux, windows) a failed read locks `m_dev_lock` twice |

What else the models showed, for which there is no run:

- `JunkKinds` with `"tag"` or `"channel"`: one strange report of that kind ends a
  call with an exception and leaves the true answer queued, although
  `nanos_wallet.cpp:206-207` means to get past strange data.
- After a retry in the middle of a two-frame answer `rn` is not cleared, and the
  new attempt stops after its first frame.
- When the reopen of a retry fails, the call returns an empty answer under the
  caller's `CODE_SUCCESS`; this is why `SuccessIsComplete` speaks of replies.
- An answer with a payload of 252 bytes makes the status word be read from
  beyond the buffer.
- An answer of 60 to 64 bytes (56 to 60 of payload) counts as read after its first
  frame, because `frame_io_apdu.cpp:46-51` counts the 5 bytes of the header as data:
  `WholeDataRead` of `ApduExchange` fails for these lengths, which no command but
  `get_app_list` could have.
- `init_ext_root` after `init_ext`, when the user has quit the application in
  between, reports APP_NOT_OPENED and keeps the dead handle of the application:
  `m_valid` holds and the dashboard is on the bus, so that nothing is opened
  (`nanos_wallet.cpp:94`), although `nanos_wallet.h:51-54` says "opens root ledger device".
- `PrintsTheAnswer` without `fresh` fails. A process that is interrupted while the
  Ledger waits for its user leaves the request there, and the next process, say
  `get-address`, prints the first 20 bytes of whatever the answer was and exits with
  0. Strange data does the same without an interruption: `sign-tx` asks for the
  address twice, takes the second address for the signature, throws, and leaves
  the signature to the next process.
- `CommandLine` has a livelock under weak fairness: after one stray report a call may
  meet, in every attempt, the second frame of the answer to the attempt before,
  when the Ledger sends the first while the handle is closed. The second of sleep
  in `nanos_wallet.cpp:221` makes this unlikely; the model has no clock, and
  command_line claims no liveness.
- `ReportKept` without its exception fails on windows, where nothing clears the text
  that `hid_error` gives: after one failed write every read that takes a report
  returns 0, or does not return (`hidpp_device.cpp:140-147`), although `hidapi.h:425-426`
  says of the functions that set it that they "will reset the last error to NULL before their
  execution".
- `Disciplined = FALSE` breaks `OneInBackend`: a read that has been called waits behind
  `close()` and then gives `hid_read` a null handle.
- `CloseEnds` of `HidLibusb` without its exception fails: when the
  first `libusb_submit_transfer` failed there is no transfer to cancel, no callback
  sets `cancelled`, and `hid_close` waits for ever, although `libusb/hid.c:842-843` says
  "This call will fail if no transfers are pending, but that's OK".
- While the device stays, `hid_close` of libusb may not return with `LateCancel`
  = TRUE: a transfer that is done but not yet called back cannot be cancelled, and
  its callback submits it again. `CloseEnds` therefore speaks of a device that is gone.
- `BarrierWakes = TRUE` breaks `RunLoopValid`: the barrier's `pthread_cond_wait` is in
  no loop (`mac/hid.c:90`), and a spurious wakeup lets `hid_open_path` return
  before the read thread has a run loop, which `hid_close` then wakes.
- `ListIsComplete` without its exception fails on windows: the inner loop of
  `windows/hid.c:345`, which is to "make sure this device is of Setup Class
  HIDClass", looks at all devices from the first one on, and one without class at
  the front hides every other.
- `HandleHasContext` fails with two wallets: the destructor of one ends the global
  state (`hidpp_base.cpp:21`) on which the read threads of the other run, although
  `hidapi.h:107` says of `hid_exit` that it "should be called at the end of execution".
- `OpensAsked` without its exception fails on linux and mac, where a Ledger that
  re-enumerates between `hid_enumerate` and `hid_open_path` has the same path under
  another product id; on libusb, where a device that is plugged in may get the address
  of one that has gone; and on windows, where `HidD_GetAttributes` may leave `attrib`
  uninitialised for a device that has just gone.
- `hid_enumerate` returns NULL for a list that the system refused (`udev_new`,
  `libusb_get_device_list`) as for an empty bus; `ListIsComplete` takes it for the latter,
  as every caller does. On libusb it lists a device once for each HID interface and
  alternate setting (`libusb/hid.c:552-577`), the settings of one interface under one path.
- `read_back` gives `m_dev_lock` back (`hidpp_device.cpp:176`) before it writes the report to
  `out`: another thread may read the next report and return before it. This is what
  `ReturnedInOrder` allows `read_back` and no other read.
- `Disciplined = FALSE` of `NanosWallet` breaks `IoOnOpenHandle` and `HandleOwned`: `close()` takes no
  `m_devLock`, and `init()` on an open wallet loses the handle.

### Bounds

`MaxCalls` = 3 lets an answer of the first call reach the last across a failed
one; `MaxPending` = 2 holds a request and its retry; one unplug and two strange
reports make every pair of faults meet. The lengths of `OneOrTwoFrames` are those
at which a frame begins, ends or spills (0, 1, 54, 55 and 61, 113, 114 bytes of payload) and
two real ones; 56 to 60 are left out, because they fail (see above).
`CommandLine` needs two processes, the second of which may find what the first left,
with the two calls of `sign-tx` each (`MaxCalls` = 4), one stray report, one unplug
and one interruption; lists of no, one and two applications take one, two and three
frames. `HidppDevice` needs two threads and four calls: an open, a failing write,
and two reads or a read and a close.
`HidEnumeration` has three places, so that linux can take a record off the list at the front, at
the end and between two others, every way to describe each device, and one change of the bus, which
can replace a device: enough to make any entry of the list stale between two steps. Four `Addresses`
let a device that comes have a new address or that of the one that went, and `MaxRecords` = 4
lets one device have two records beside the others.
`NanosWallet` needs two threads, two handles (the one lost and the one gained), two
applications for `run_app` to return the wrong one, two mode changes (away and
back), one denied open and one retry. The queues of the backends have `QueueLimit`
= 1 in place of 30: with five reports the list fills, drops and empties; the code
treats no other length specially. The list holds `QueueLimit + 2` reports, because
the test counts neither the first nor the new one.

The deadlock check is off: every module has states in which its caller is done.

### Fairness

`HidppDevice`: a thread runs on, and one that waits for a mutex gets it in the end,
because the calls are finitely many (weak fairness). Elsewhere:

Threads run on: weak fairness of the steps of each thread of the program, never
of a call by its user. Two more assumptions: a thread that waits for a mutex gets
it, since every holder leaves it after a few lines (strong fairness of the steps
that take it), and a timed wait ends, since its deadline is absolute. Of the
outside: a user confirms or rejects in the end, a device that is plugged in and
was asked answers in the end, a transfer to a device that is gone comes back, and
a run loop serves a signaled source. Nothing is assumed about unplugging, strange
reports or spurious wakeups.

## Proofs

Eight modules hold theorems, each about every value of the constants that the named
assumptions of its module allow (`FramingAssumption`, `ExchangeAssumption`,
`WalletAssumption`, ...). What a theorem assumes beyond them is stated in it.

| Module | Proved | Assumed besides |
|---|---|---|
| `ApduExchangeProofs` | `TypeOK`, `SuccessIsComplete`, `IoOnHandle`, `ExchangeInv` | |
| `ApduQuietProofs` | `WholeDataRead` | `Quiet`, `LengthsAgree` |
| | every step is one of `RequestReply` or a stutter (`RequestReplySafety`) | `Quiet`, `LengthsAgree`, `TwoFrames` |
| | `ReturnsValidResult` | the same, and `MaxUnplugs = 0` |
| `CommandLineProofs` | `CTypeOK` | |
| | `LeavesNothing` | `~LossyWrites`, `LengthsAgree` |
| | `PrintsTheAnswer` | `Quiet`, `LengthsAgree`, `TwoFrames` |
| | `ListsTheApps` | the same, and `AnswersParse` |
| | `AnswerIsUsed` | the same, and `MaxKills = 0` |
| `NanosWalletProofs` | `TypeOK` | |
| | `HandleOwned`, `ValidMeansHandle`, `IoOnOpenHandle`, `AppReopened` | `Disciplined` |
| `HidppDeviceProofs` | `TypeOK`, `FailureToldByItsText`, `ReportKept`, `ReturnedInOrder` | |
| | `OneInBackend` | `Disciplined` |
| `HidEnumerationProofs` | `TypeOK`, `ListIsSound`, `ListIsComplete`, `RecordsFreed`, `OpensAsked` | |
| | `HandleHasContext` | one wallet |
| `HidLibusbProofs` | `TypeOK`, `SafeFree`, every step is one of `HidReports` or a stutter (`ReportsSafety`) | |
| `HidMacProofs` | `TypeOK`, `ErrorMeansGone`, `ReportsSafety` | |
| | `RunLoopValid` | `~BarrierWakes` |

The assumptions are those under which the code is right; each is the boundary that
a counterexample of TLC shows (above, "What else the models showed"):

- `Quiet` (`MaxJunk = 0` and no lost writes): a strange report makes `exchange` give up
  or send again, and a surplus answer goes to the next call (run stale_answer).
- `LengthsAgree`: the answer has as many reports when counted in units of 64 bytes, as
  `frame_io_apdu.cpp:46-51` does, as in the 59 that a report carries. It excludes
  answers of 60 to 64, 119 to 128, ... bytes and is true of each answer to `get_address`,
  `sign_tx` and `get_app_version`.
- `TwoFrames`: the third frame is misplaced (run next_part).
- `AnswersParse`: `get_app_list` finds the names in the Ledger's payload, and the other payloads
  are as long as their methods need. The loop of `get_app_list` is a recursive function,
  whose value on every payload cannot be proved; on the lists of the run TLC computes it.
- `MaxKills = 0`: an interrupted process leaves its request in the Ledger.
- `Disciplined`: nobody calls `close()` or a second `init()` beside a running operation,
  as `main.cpp` never does; they take no lock.
- One wallet: the destructor of one ends the global state of all.
- `~BarrierWakes`: `pthread_cond_wait` at the barrier of mac is in no loop.

### The arguments

**An exchange on any line** (`ExchangeInvariant`). A call succeeds when the frames it
accepted had the sequence numbers 0, 1, ... The code never compares anything else between
two frames, so what has to be shown is that a frame 1 accepted after a frame 0
belongs to the same answer, and landed behind it. For the first, the queue of the
handle delivers in order, the device sends the frames of one answer before those
of the next, and a retry closes the handle, which empties the queue:
`QueueInOrder`, `BufferThenQueue` and `QueueThenEmit` say that a frame 1 follows its
frame 0 within the queue, from buffer to queue, and from queue to the frame that
is sent next. Frames 0 in between cut this chain, and are what `NoFirst` excludes.
For the second, `m_offset` is a multiple of 64 that is at least 64 once a frame
was read (`FramerType`), so the second frame goes to 59 or, with an offset left by
an abandoned attempt, to 123 or beyond, past the end of any answer of two frames
(`Assembled`); the status word is then read from bytes nobody wrote, as zero, and
is not `CODE_SUCCESS` (`UnwrittenBytes`, `ReplyIsComplete`). `SuccessIsComplete` speaks of
answers of up to two frames.

**An exchange on a quiet line** (`QuietInv`). At any moment of a call the device holds its
request (`Waiting`), or the answer is cut into what the buffer has, what the queue has and
what the device has yet to send, with consecutive sequence numbers (`Arriving`), or the
device has gone and there is only a front part of it (`Lost`). So no report is ever
rejected and no attempt is repeated (`NoRetry`); when the loop of `frame_io_apdu` ends, the
frames it counted are all of them (`AllReportsRead`, from `LengthsAgree`); and the request
was executed in this call for the first time (`ServedInv`). If the device is gone in the
middle of an answer, the status word lies in bytes nobody wrote.

**One process after another** (`CommandInv`). The steps of a process are those of the exchange,
and `ExchangeInv` is not disturbed by closing the handle of one process or by opening that of the next
(`EndExchange`, `StartExchange`). The quiet line is a claim about a process: `RunInv` says that one
that found the Ledger at rest has `QuietInv` while no strange data comes, whatever happened
before; `RestInv` that, without strange data and interruptions, the Ledger is at rest between two
processes, so that each finds it so. Strange data and interruptions are conditions on the state here
(`junk`, `kills`), as in `LeavesNothing`, and not bounds. From there `DeliveredOwn`: what an
exchange delivers is the answer to its own call or nothing; the exit code is what
`MethodReturns` made of it (`ProcessInv`). For `AnswerIsUsed` the converse is needed, that no
confirmed answer is taken for a failure: if the last frame was lost with the device, the
status word reads as zero, and `LengthsAgree` has then put a part of the payload into that
frame, too (`PayloadThenStatus`); and two answers to one call, of which one is a rejection,
are excluded by `OneAnswer`.

**Sessions** (`TypeInv`, `SessionInv`). `HandleOwned` is not inductive, as the handle and the
flag change apart from each other in most operations. `SessionInv` says for each point of each operation whether
there must be a handle, must be none, or either, and whether `m_valid` agrees; together with the owner
of `m_devLock`, which `TypeInv` has for callers of any kind, a thread outside the lock
can rely on it. `ProductInv` (a wallet that was opened once has a product id) is what a retry
needs, which opens by that id.

**One device** (`DeviceInv`). From `hid_read` to the answer of `hid_error` a call holds
`m_dev_lock` (`LockInv`); calls have numbers of their own (`NumberInv`), so that the text of a
call can be told from an older one (`TextInv`). What waits in the queue came after what
threads hold, and what a thread holds came after all that had been returned when its call
began; the thread inside the lock has a newer report than the threads that have left it
and not yet returned (`OrderInv`), which is why only `read_back` can be overtaken.

**Enumeration** (`EnumerationInv`). `Linked` is what the loops need of the pointers: `next` leads
from allocated records to allocated records, `cur_dev` is the last, and every set of
records that has `root` and is closed under `next` has all that is allocated. It is kept by linking
a record behind `cur_dev` and by taking that one off again, so that `hid_free_enumeration`
reaches everything. For `OpensAsked`, `Recorded` ties each record to a device that was
`Seen`: it is there still, unless the bus has changed, and its path is its own, on libusb
because no two devices have one address at a time (`ApartInv`). For `ListIsComplete`, `CompleteInv` says what
the list has after the first *n* devices (`Filled`): a record for each promised one of them
(`AllWanted`), none for another id (`OfAsked`), none of a device yet to come but on libusb the next
(`OfVisited`), and the records in the order of the devices (`InOrder`), from which it also follows
that a device has one only, but on libusb. `next` leads to later records (`Forward`), so the order in memory is that of the list. A
device passed over, or taken off again, is none that was promised while the bus stays
(`WholeIsAdded`).

**Backends** (`LibusbInv`, `MacInv`, `BarrierInv`). The read thread, the callbacks and `hid_close`
share flags without a lock. On libusb `cancelled` is set only when no transfer can call
back, and `hid_close` frees after it has joined the thread that waits for it. On mac `BarrierInv` says that
two threads get through a barrier in one step, and that its count tells who waits there,
so that `hid_close`, this side of the second barrier, finds the read thread alive. A read fails
only for the flags of a device that was removed or is being closed, and the run loop comes back
with an end of its own only for the first of them; `GoneInv` says so of each flag, and that nobody reads
while `hid_close` runs. In
both, adding to the list of reports and taking from it map to the steps of `HidReports`,
the loss of the oldest report to a step of its own.

### What is only model-checked

- Liveness, and the fairness in `RequestReplySpec` and `ReportsSpec` (of which the safety
  parts are proved): `EveryCallReturns`, `EveryOpReturns`, `CloseEnds`, `CloseReturns`,
  `GoneEndsCalls`. Fairness and ENABLED are beyond the prover.
- What `AppList` makes of a payload, and the processes of `CommandLine` beyond the assumptions above: that a
  process which finds the Ledger at rest prints its own answer though one stray report comes
  (the length tells the answers to `address` and `sign` apart), that a list of two applications,
  in three frames, is not printed wrong, and that
  an interruption does not make the next process throw an answer away.

## Not modelled

Strings and feature reports, and the polling and timed reads of linux and windows:
one synchronous call each, which the wallet never makes; how `hid_write` cuts or pads
a report; serial numbers and vendor ids in an enumeration, of which the wallet uses
one; copies of a `hidpp_device` beyond what `NanosWallet` says of assignments; the
text and encoding of errors and status words; the options of the command line and
the layout of what it prints; the length of the hash given to `sign-tx`, which is not
checked. `hidtest.cpp` is hidapi's sample, and `tests/main.cpp` has no test.

## Plan

1. Done: framing and exchange, sessions, enumeration, the libusb and mac backends,
   `hidpp_device` over the linux and windows backends, the commands and the command
   line.
2. Done: the proofs above, about every module that has actions but the two abstract ones.
3. Left: `PrintsTheAnswer` with strange data, which needs a bound on the answers left over
   by a retry.
