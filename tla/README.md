# Verification of Embedded-Base

Embedded-Base is the C library every Northeastern Electric Racing firmware
links: data structures and utilities, drivers for the parts on the boards, CAN
drivers for three microcontrollers, wrappers around ThreadX, a TraceX dump
facility, and a NetX Duo layer for Ethernet, MQTT and PTP time. This directory
holds TLA+ modules translated from that code, the TLC runs that check them and
the proofs that TLAPS checks.

To check a run, `tlc -config <cfg> <module>`; to check the proofs, `tlapm` on
the eight modules whose names end in `_proofs`. The configuration of a run that
is about one component is named after its module (`MCFdcan.cfg` is for `Fdcan`);
those of several small components are for `ThreadX` and `Devices`.

## Inventory

### What is modelled

| Part | State it keeps | Operations | Interacts with | Hard behaviour | What makes it correct |
|---|---|---|---|---|---|
| Ring buffer (`middleware/ringbuffer`) | slots, `head_idx`, `curr_elements` | insert, last n, head, tail | an interrupt and a thread of the application | no interrupt lock: either side sees the other between two loads or stores; wrapped indices; returned pointers into the buffer | holds the last elements inserted, in order; what a read interrupted between two loads may hand out is known |
| Software timer and debounce (`middleware/timer`, `debounce`) | start, end, active, completed | start, cancel, ask; sample | HAL tick | the tick wraps; samples come at any time | expires exactly when its duration has passed; no callback for a signal that bounced, none missed |
| EEPROM (`general/m24c32`, `middleware/eeprom_directory`, `m24c32_eeprom_directory`) | the partitions' addresses; the memory of the device | init, write, clear, read | I2C functions of the application | page roll-over in the device, a transfer that fails half-way, other threads' transfers in between | what was written is there and nothing else changed |
| FDCAN (`platforms/stm32h563/fdcan`, `threadX/u_tx_can`) | filter indices; the peripheral's filters, notifications, state | init, add filter, send, bus-off recovery | ST's HAL, interrupts | each of many HAL calls may fail; recovery against senders; a retry of a startup that half succeeded | filters and notifications survive; what was rejected is rejected for a reason; bus-off ends |
| ThreadX timers (`threadX/u_tx_timers`) | the TX_TIMER | init, start, stop, reset, restart | tick interrupt, other threads | each function is several ThreadX calls | the callback comes after the full duration, as often as the type says; a restart restarts |
| ThreadX queues and threads (`threadX/u_tx_queues`, `u_tx_threads`) | the byte pool, the queue, buffers on the stacks | create, send, receive | other threads, pool | bytes rounded to words; memory released when creation fails | pool accounted; messages whole, in order, none lost |
| CMSIS queue and flag (`os/rtos_utils`) | queue, thread flag | queue and set flag | producers in threads and interrupts, one consumer | queue and flag are two calls | no message left behind with its consumer asleep |
| TraceX (`traceX/tracex`, `traceout`) | the trace buffer, "started", what is left of a dump | init, start, stop; dump from an interrupt, chunk by chunk | two interrupts and a thread | shared statics, interrupts of different priority | a dump is the buffer, is not written while sent, ends, and recording goes on |
| Ethernet and MQTT (`NetX/u_nx_ethernet`, `u_nx_protobuf`) | one device: IP, PTP and MQTT client, `is_initialized` | init, publish, reconnect; create and send a message | NetX, broker, several threads | every NetX call may fail, the link comes late, the connection drops, two threads initialize | initialized means complete; sent means created in full; no call hangs but in the wait for the broker |
| PTP client (`NetX/nxd_ptp_client`) | the slave's state, its master, the four times of a request, flags, sockets, a timer | start, stop; the thread's handling of Announce, Sync, Follow_Up, Delay_Resp and the timer | masters, network, application threads, `u_nx_ethernet`'s copy of the UTC offset | packets lost, late, doubled, of several masters; one flag for two sockets; start and stop against the thread | an offset is of one exchange with one master; nothing unread, no request forgotten, a silent master is left |
| PTP clock (`NetX/u_rtc`, the client's time functions) | the MAC's clock and its update registers; the client's software clock | get, set, adjust, time stamps; arithmetic of times; dates | the client, the running clock | two registers read while the clock runs; borrows between halves of either sign; leap years and centuries | a request sets the clock to the master's; successive seconds have successive dates |
| Sensor registers (`general/lsm6dso_reg`, `lsm6dsv_reg`, `lis2mdl_reg`) | the device's registers, its bank, its page | set and get of some three hundred fields; data rates; paged memory | bus functions of the application | read-modify-write with transfers that fail; banks left selected; masks, enumerations with holes; addresses that wrap in a page | a getter reports what was set; other fields and the bank survive; failures are reported |
| LSM6DSO object (`general/lsm6dso`) | which sensor is enabled, the rates of disabled ones | init, enable, disable, rate and mode, eight events, data-ready routes | the register functions | rates kept in the object while powered down; modes that exclude each other; events that share fields, pins and one register of embedded functions | the rate asked for survives; an enabled event stays routed; a disabled one leaves nothing |
| LAN8670 PHY (`general/lan8670`) | none; the PHY's registers and its indirect selection | fields set and read, init, reset, link state | management bus, the Ethernet driver's thread | four transfers for one access, each of which may fail | fields are what they were set to, a reading is of the register meant |
| Expanders TCA9539, MAX7314 (`general/tca9539`, `max7314`) | none; the output registers | write a pin | several threads | read and write-back in two transfers | pins of other ports and other bits survive |
| Bit stream (`middleware/bitstream`) | the buffer, the bits used, overflow | init, add, add signed | the application | widths that straddle bytes; capping at limits of either sign | a reader finds each value that was added, or the nearest to it |

### What is not

| Part | What it is | Why it is not modelled |
|---|---|---|
| `middleware/heap_ringbuffer` | a bounded queue of malloc'd elements | `create` leaves `front`, `rear` and `count` uninitialised, and the file includes the wrong header, so that it does not compile; a model would have to guess what was meant |
| `platforms/stm32f405/can` | bxCAN with 14 filter banks | planned; the bank is counted before it is configured |
| `platforms/stm32g431/fdcan` | FDCAN with a table of interfaces | planned; the table's empty entries are dereferenced, so the first call fails |
| `general/pi4ioe`, `mcp23008` | I/O expanders, one transfer each | nothing to interleave; what they get wrong is below |
| `threadX/u_tx_flags`, `u_tx_mutex` | one ThreadX call per function | a model would be ThreadX's |
| `middleware/pid`, `high_pass`, `simple_ema` | floating-point filters | TLC has no floating point |
| `middleware/c_utils`, `serial`, `i2c_utility`, `u_tx_debug`, `u_nx_debug` | pure conversions, formatting, output | nothing concurrent or stateful |
| `general/` sensors and monitors | a command, a wait, a conversion | no state beyond a handle |
| `general/ltc68041`, `vl6180x*` | manufacturers' drivers | commands with checksums; fixed register sequences whose sense lies in a device the repository does not describe |
| `ner_environment`, `dev`, `patches`, `Testing` | build tooling, emulator peripherals in C#, patches, an example test | not part of a firmware (the patch of ThreadX's queue limit is `MaxWords` of `TxQueue`) |

Of the components modelled in part, what is left out: of the PTP client, the
master's side and gPTP (not built), Ethernet framing, and `nx_ptp_client_create`
and `_delete`; of the sensor registers, functions over several registers at once
(pin routing beyond what the object uses, FIFO tags, the sensor hub's
transactions, self-tests) and conversions to physical units; of the object, the
single fields an application may set by itself and the readings; of the
directory, lookups that change nothing.

## Modules and the code

| Module | Code | State and actions |
|---|---|---|
| `RingBuffer` | `ringbuffer.c` | the struct's fields; `InsertCopy`, `InsertAdvance`, `InsertCount` are the stores of `rb_insert`; `ReadTest`, `ReadClamp`, `ReadStart` the loads of `rb_get_last_n` before its loop, `LoadHead`, `LoadCount` the two of `get_nth_element` or of `rb_get_tail`, `ReadCopy` the memcpy of an iteration; `GetHead`, `TailBegin`, `TailReturn` the pointer functions |
| `LastN` | what `ringbuffer.h` promises | abstract: the contents are the last `Size` elements inserted |
| `NerTimer`, `Debounce` | `timer.c`, `debounce.c` | the timer's operations as actions over its fields; `Debounce` composes them, one action per branch |
| `TraceOut` | `tracex.c`, `traceout.c` | the statics; one action per store or call between which an interrupt may come; `stack` holds the contexts that have begun |
| `TraceDump` | what whoever reads the dump expects | abstract: chunks that follow each other and make up the buffer |
| `Fdcan` | `stm32h563/src/fdcan.c`, `can_filter_init` | `can_init` by the call it fails at, recovery one action per HAL call, sending in two steps |
| `TxTimers` | `u_tx_timers.c` | one action per ThreadX call, and the tick |
| `TxCreate`, `TxQueue` | `u_tx_threads.c`, `u_tx_queues.c` | allocation, creation and release; the copies and ThreadX calls of send and receive. `TxQueue` extends `TxCreate`: a queue is sent on only once it exists |
| `Notify` | `rtos_utils.c` | the two calls of `queue_and_set_flag`, and a consumer |
| `ThreadX` | `Notify`, `TxTimers`, `TxQueue` | one of them in each behaviour |
| `EthernetDevice` | `u_nx_ethernet.c`, `u_nx_protobuf.c` | one action per NetX call of `ethernet_init` and of the reconnect, and for the stores before them (`BeginInit`, `StoreParameters`); the PTP client's events, which set the copy of the UTC offset; creating, encoding and publishing a message |
| `PtpClient` | `nxd_ptp_client.c` | the struct's fields; an action per flag the thread wakes up for, per packet it reads, by type, and per step of start and stop. A time is what it is the time of: `t1` a Sync that left, `t2` one that arrived, `t3` a request, `t4` its answer; `InitAgain` is `ethernet_init` called on a running device |
| `PtpTime`, `PtpClock`, `PtpDate` | its time functions, `u_rtc.c` | halves and carries of the arithmetic; readings of the MAC's clock in their two register accesses, the copy of the software clock for a Delay_Req word by word (`Prepare`, `Copy`), the offset of a request and its application; the conversion to a date, second by second |
| `RegisterField` | `lsm6dso_reg.c` and the other two | what an accessor is: bank, field, values, the way it treats a value its enumeration does not have |
| `Lsm6dsoRegisters`, `Lsm6dsvRegisters` | the structs and enumerations of the headers | the layout of each register, the values of each enumeration |
| `Lsm6dso`, `Lsm6dsv`, `Lis2mdl` | the set and get functions | one accessor per pair of functions |
| `RegisterDriver` | every such function | bank, read, write and restore as transfers that may fail, before or after they took effect |
| `DataRate`, `PageAccess` | the data rate functions; `ln_pg_read`, `ln_pg_write` | the constraint of the state machines, the family of rates; the loop over pages |
| `Lsm6dsoObject` | `lsm6dso.c` | the object's fields with the device's; a function is its sequence of steps and returns at the first that fails |
| `Lan8670`, `Expander` | `lan8670.c`; `tca9539.c`, `max7314.c` | the transfers of an access; the registers that a call makes of what it read |
| `Bitstream` | `bitstream.c` | each byte as the set of its bits; the loop over the bits in one action, since nothing else sees the buffer |
| `EepromDirectory`, `M24C32` | `m24c32.c`, the directory's two files | one action per bus transfer; the directory computes where a write goes and refuses what does not fit |
| `Devices`, `MCDevices` | what is behind a bus, and the bit stream | one part in each behaviour; `MCDevices` adds the values of its constants that a configuration cannot write |
| `Middleware_proofs` (ring buffer, debounce), `ThreadX_proofs`, `TraceOut_proofs`, `PtpClient_proofs`, `Interfaces_proofs` (FDCAN, Ethernet), `Devices_proofs` (EEPROM, ports, clock, dates), `Sensors_proofs` (registers, sensor object, bit stream), `Arithmetic_proofs` (lemmas of the last two) | | the theorems |

`ThreadX` and `Devices` put side by side components that do not interact in
this code: the initial state chooses the component a behaviour is about, and
nothing is composed but the runs.

Conventions. A definition with a suffix (`Trigger_NoStop`) is a fault seeded in
the definition of the name before it, as a plausible mistake in that code would
make it; no behaviour uses it. `PROJECT.json` pairs each property with the faults
that break it. History variables are marked as such where they are declared;
no guard reads them but to bound a run. Interrupts: where the priority of the two sides
matters, the module says which one may preempt which (`preempting`,
`HigherPriority`); threads of equal standing interleave at every call that the
kernel could switch at. What is not in this repository (ST's HAL, ThreadX,
NetX, the devices) is modelled as the code uses it, its documented refusals
included, and may fail where the code handles a failure.

## Runs

| Run | Module | What it checks | States |
|---|---|---|---|
| `ringbuffer` | `RingBuffer` | `HoldsLastInsertions`, `ReadSound`, `PointerStable`, and that the buffer implements `LastN` (`KeepsLastN`) | 599,437 |
| `traceout` | `TraceOut` | equal priorities: `NotTracedWhileDumped`, implements `TraceDump` (`DumpsBuffer`), `DumpsComplete` | 247 |
| `traceout_complete_preempts` | `TraceOut` | *violated*: `ChunkInBuffer`, see findings | |
| `fdcan` | `Fdcan` | two senders: `FiltersKept`, `ReceivesWhenHealthy`, `RefusedOnlyIfOvertaken`, `StartupSettles`, `BusOffRecovered` while HAL calls fail | 754,040 |
| `fdcan_notifications` | `Fdcan` | *violated*: `NotificationsRestored`, see findings | |
| `debounce` | `Debounce` | `CallbackMeansHeld`, `AnswersTruthfully`, `CallbackEachPeriod` before the tick wraps | 7,438 |
| `threadx` | `ThreadX` | `NothingStranded`, `Delivered` (`Notify`); `CallbackOnTime`, `ResetAloneTakesEffect` (`TxTimers`); `PoolAccounted`, `MessagesIntact` (`TxQueue`) | 459,009 |
| `ethernet` | `EthernetDevice` | `ReadyMeansComplete`, `SentIsComplete`, `CallsReturn` | 156,100 |
| `ethernet_unit` | `EthernetDevice` | *violated*: `InitializedCanBeSent`, see findings | |
| `ptp` | `PtpClient` | `OffsetIsSound`, `CalibratedByMaster`, `NextRequestScheduled`, `UtcOffsetTold`, `NothingUnread`, `LeavesSilentMaster` | 488,248 |
| `ptp_one_sync` | `PtpClient` | *violated*: `OffsetFromOneSync`, see findings | |
| `devices` | `MCDevices` | `WrittenSoFar`, `NothingElseChanges` (`M24C32`); `SetThenGet` (`RegisterDriver`, `Bitstream`, `Lsm6dsoObject`); `OthersKept` (`RegisterDriver`, `Lsm6dsoObject`); `FailuresMet` (`RegisterDriver`); `FieldsAsSet` (`Lan8670`, `Expander`); `RatesMet` (`DataRate`); `PagedSound` (`PageAccess`); `ClockFollows` (`PtpClock`); `DatesFollow` (`PtpDate`) | 775,128 |

Several of these names stand for a conjunction whose parts the module names:
`ReadSound` that a read copies no slot that was never written, nothing out of
order while there was room for the insertions that came, and exactly the newest
elements if none came - except for an index whose two loads an insertion tore;
`DumpsComplete` that a dump ends and that recording resumes; `CallbackEachPeriod`
that callbacks are spaced and none is missed; `CallsReturn` that every call
returns or comes to the wait for the broker; `MessagesIntact` that messages
are whole and in order; `FailuresMet` that failures are reported and the bank
restored; `PagedSound` and `ClockFollows` likewise. `SetThenGet`, `OthersKept` and
`FieldsAsSet` are each one question asked of several drivers.

Bounds, each a constant with its own comment, and why they suffice:

- Ring buffer: three slots and seven insertions wrap the indices twice; a read
  of two or three elements can be overtaken at every load and before every copy.
- TraceOut: chunks of two bytes and buffers of up to nine, so that dumps are
  empty, shorter than a chunk, whole chunks and whole chunks with a rest;
  `Modulus` is above every size, as 2^32 is, and small enough that an underflow
  shows.
- Fdcan: up to three filters of each kind, a FIFO of two, two senders, two
  failures: enough for a failed startup that is retried, a sender that takes the
  room another one found, and a recovery that fails after one that did.
- Debounce: a period of three in twelve milliseconds fits three expiries, late
  samples and signals that drop in between. `Modulus` is above the uptime: the
  run, like the theorems, is about the time before the first wrap.
- Notify: two producers and three calls each fill and overfill a queue of two.
- TxTimers: two threads with two calls each and five ticks of a timer of two:
  every pair of functions overlaps, and a periodic timer expires twice.
- TxQueue: two blocks and two objects, one refused; five bytes are two words; a
  queue of two fills.
- EthernetDevice: two threads, two failures and two drops: a reconnect that
  fails and is tried again, in both of its halves; calls of `ethernet_init` that
  overlap, and that come when the device is ready.
- PtpClient: a master of one step and one of two, two requests, so that an
  answer may be to an earlier request, of an earlier master; sockets of one
  packet, timeouts of one and two ticks. Whatever is in a socket is chosen when
  it is read, so any loss, delay or repetition needs no further messages.
- M24C32: pages of three and partitions of four and two: the first partition
  crosses a page, the second shares that page. The two threads are symmetric
  (only invariants and action properties are checked; the expanders use the same
  threads), and the values they write are named by the call.
- Registers: every accessor of the three sensors, every value of its field, the
  register before the call all zeros or all ones, likewise the same address in
  the other banks; calls of which any transfer may fail.
- Data rates: no bound but the sets of rates: below, at and above those of the
  state machines, and the ends of each family. Pages: two pages of two bytes,
  buffers of none, one and three bytes, two calls: a buffer crosses one page or
  two and follows a call that failed.
- PTP clock: seconds of four nanoseconds and a word of sixteen, so that halves
  carry; masters in their first second and later, clocks ahead and behind by
  less and by more than a second; four nanoseconds pass at any of the steps of
  two requests, those between the words of a reading included. Dates: days of two seconds, the first two years, those about
  2000 and about 2100, each second of which follows from the one before.
- LSM6DSO object: unbounded calls of which one fails, at any step, before or
  after it took effect; rates of 1 Hz and 833 Hz, which every limit of a mode
  changes; sets of events that share pins, fields or the register of embedded
  functions. A behaviour uses rates or events; an event's enabling does set the
  rate of an accelerometer that is off.
- PHY: three calls, of one thread that configures and one that polls the link.
  Expanders: two ports of two pins, two threads, three calls.
- Bit stream: bytes of three bits, so that widths of up to four straddle them,
  in a buffer of nine bits, which three values overfill; values at, between and
  beyond the limits of the widths. The reference reads each value's bits in turn
  and takes the nearest value that they can stand for; after the last come zeroes.

`CHECK_DEADLOCK FALSE` stands in the two runs of bounded calls, where everybody
is done in the end.

Fairness, and why the code justifies it:

- `TraceOut`: the processor runs (`Step`), and a transmitter that accepted a
  chunk completes it (`TxComplete`) - `traceout.h` requires the callback to
  initiate a transfer. Nothing makes the application ask for a dump.
- `Fdcan`: the application retries a startup that failed and polls for bus-off;
  failures are bounded, that is, the hardware works again in the end.
- `Notify`: the kernel is preemptive and the consumer blocks on its flag only.
- `EthernetDevice`: a call that has begun goes on and the cable is plugged in in
  the end. Nothing makes the broker answer: `Connect` and `Reconnect` have no
  fairness, since `nxd_mqtt_client_connect` is told to wait for ever.
- `PtpClient`: the timer runs, the client's thread is scheduled, and start and
  stop go on once called. Strong fairness of the end of its reading loop
  (`DrainEnd`): packets do not come for ever faster than they are read. Without
  it the loop starves the timer, and a silent master is never left.

## Findings

1. `traceout_complete_preempts`: `start_next_chunk` calls the transmit callback
   before it advances `s_dp` and `s_remaining`. With a completion interrupt of
   higher priority than the context that began the dump, the chunk is sent
   twice, `s_remaining` underflows, and what follows lies beyond the buffer.
   With equal priorities (run `traceout`) the dump is right.
2. `fdcan_notifications`: `can_recover_bus_off` re-enables the receive
   notification, not the bus-off notification that `can_init` enabled. The
   comment says that notifications do not survive Stop. An application that
   recovers from the interrupt recovers once; one that polls
   `can_is_bus_off` (run `fdcan`) always.
3. `ethernet_unit`: the header allows a unit of 15 characters; the schema makes
   the field `char unit[15]`; `pb_encode` needs the terminating NUL. Such a
   message is created with `.initialized` true and can never be sent.
4. `ptp_one_sync`: a `Follow_Up` is taken for the last Sync whenever its id
   equals `nx_ptp_client_sync_id`, which nothing resets when a new master is
   taken on or when the Follow_Up came. `t1` may then be of a Sync that was lost
   or repeated and `t2` of another. With a master of one step, whose Sync carries
   its time, both are of one Sync (`OffsetIsSound`, proved).

Disagreements met while modelling for which no run is kept; the first five can
be reproduced by the change named:

- The tick wraps after 49.7 days: `end_time` wraps with it, and a timer started
  shortly before expires at once (`Modulus = 8` in `MCDebounce.cfg` breaks
  `CallbackMeansHeld` and `AnswersTruthfully`).
- `tracex_start` and `tracex_stop` called by a thread once dumps are armed race
  with the dump request and leave the trace buffer written while it is sent
  (`CallsAfterArming = {"start"}` or `{"stop"}` breaks `NotTracedWhileDumped`).
- A dump request of higher priority than the completion interrupt
  (`HigherPriority = "trigger"`) may begin a dump between the end of one and
  the restart of recording (breaks `NotTracedWhileDumped`).
- `timer_reset` deactivates and changes a timer in two calls and ignores that
  the change does nothing to a timer another thread started in between
  (`ResetTakesEffect` of `TxTimers`).
- `get_nth_element` and `rb_get_tail` load `head_idx` and `curr_elements` one
  after the other, and `rb_insert` stores them one after the other: in a buffer
  that is not full, an insertion in between gives the slot next to be written,
  which no insertion has written yet, whatever room there is. `ReadSound` and
  `PointerStable` except such an index (`torn`, `LoadsTorn`). After more insertions
  than there is room for, between a slot's computation and its memcpy,
  `rb_get_last_n` copies, say, elements 4, 3 and 4 again; `InOrder` says nothing of
  it. Nor does it of a build that loads `curr_elements` once more for the result
  of the clamp (`ringbuffer.c:62`), and copies more than n. The memcpy of one
  element is one step of the model; an interrupt could come in the middle of it.
- `m24c32_clear` does not split at pages as `m24c32_write` does (`<<1, 4>>` in
  `MCClears` of `MCDevices` breaks `NothingElseChanges`).
- `thread_sleep_ms` passes milliseconds where ThreadX counts ticks.
- The directory's header says a write that does not fit wraps to the head of
  the partition; the code returns `EEPROM_ERROR_ALIGNMENT`, and `head_address`
  never moves.
- `ethernet_mqtt_reconnect` does not set the client's callbacks again, and
  `u_nx_ethernet.c:504` says of it "TODO fix bug that breaks reconnection with
  0x10007": no property claims that a lost connection comes back. A failed
  `ethernet_init` cannot be repeated, since what it created before is refused;
  and without a broker that answers it never returns, and the device never
  counts as initialized.
- `ethernet_init` stores its node id, driver and callback before anything can be
  refused: of two calls that overlap, both fail or one goes on with the other's
  parameters, and the IP address and the MQTT client may be of two nodes
  (`overlapped` in `ReadyMeansComplete`). A call on an initialized device is
  refused, but has set the UTC offset to 0 (line 173) before it looks; messages
  are stamped without it until the client tells of the next change
  (`cleared` in `UtcOffsetTold`).
- Two senders: `can_send_msg` looks for room and adds in two calls, so the room
  may be another's by then; the frame is refused with the HAL's error instead of
  `HAL_BUSY` (`overtaken` in `RefusedOnlyIfOvertaken`).
- `can_filter_init`, when one of its own filters fails, leaves the peripheral
  started; `can_init` is then refused by every retry, at the global filter, and
  startup never succeeds (`StartupSettles` has it as one of the two ends).
- A `HAL_FDCAN_Start` that fails in a recovery leaves the peripheral stopped,
  and every later recovery fails at `HAL_FDCAN_Stop`. The run `fdcan` leaves
  that failure out of `MayFail`, and `BusOffRecovered` says nothing about it.

Sensors (`lsm6dso_reg.c`, `lsm6dsv_reg.c`):

- `lsm6dsv_ois_gy_full_scale_set` masks its value with 0x03 although
  `LSM6DSV_OIS_2000dps` is 4: it sets 125 dps (`Disputed` in `Lsm6dsv`, which
  the run leaves out).
- `lsm6dsv_stpcnt_mode_get` stores nothing in its result.
- `lsm6dso_ln_pg_write` takes the status of deselecting the page for its own: a
  byte that failed goes unreported (`PagedFailureReported` of `PageAccess`).
  `lsm6dsv_emb_pin_int1_route_get` and `_int2_` forget a failed read;
  `lsm6dsv_ois_angular_rate_raw_get` and its EIS twin compute the second and
  third axis from the first. Four setters of `lsm6dsv_reg.c` write back a
  register they failed to read (`Unguarded`).
- `lsm6dsv_xl_data_rate_set` and `_gy_` set the family of high-accuracy rates
  that both sensors share and nothing ever clears: after one such rate, the
  other sensor runs at another rate than was set (`RateAsSet` of `DataRate`).
- The accelerometer's 1.6 Hz, the slowest rate with the greatest value, passes
  the constraint of the state machines; enabling them does not raise rates.
- After a failure LSM6DSO's functions leave the embedded bank selected, and
  every later call reads and writes registers of that bank.

The object (`lsm6dso.c`):

- A Disable that powered the sensor off but reported a failure reads the rate
  "off" when repeated, and the next Enable succeeds with the sensor off. The
  same after a change of mode that failed behind its power-off. An Enable that
  failed after it took effect leaves the sensor on with its flag 0, and Disable
  then does nothing (`RateKept` excepts both).
- "We must switch off gyro otherwise Ultra Low Power does not work": nothing
  keeps `LSM6DSO_GYRO_Enable` from switching it on again.
- `LSM6DSO_Init` resets neither the enabled flags nor modes nor routes; the
  model initializes only what is not initialized.
- Events share rate, scale, tap and wake-up fields: the last enabled one wins,
  and disabling the single tap resets what the double tap uses. Enabling a tilt
  or step detection that fails between "off" and "on" leaves every embedded
  function off (`EventsRouted` excepts it).
- `LSM6DSO_Set_Interrupt_Latch` refuses two values its own switch lists.

PTP and the clock (`nxd_ptp_client.c`, `u_rtc.c`):

- While it listens, the client takes a Delay_Resp of any clock and moves its own.
- Two threads that stop the client at once leave a stale STOP flag that kills
  the next run (`StartedRuns` of `PtpClient`, which fails with two `Apps`).
- `cFieldHigh << 16` of a 32-bit value drops the upper half of a correction.
- The software clock is passed by reference for a Delay_Req and copied with
  interrupts enabled, although every other access of it disables them: its timer
  may turn the second over between the words, and t3 is up to a second ahead or
  behind. This firmware uses the MAC's clock.
- `ptp_clock_callback` reads nanoseconds, then seconds, while the clock counts:
  a reading may be up to a second ahead. It disables interrupts for reading but
  not for NX_PTP_CLIENT_CLOCK_PACKET_TS_PREPARE, and an adjustment does not wait
  for the previous one to be taken over. `ClockFollows` bounds the error and
  excepts a request that used such a reading (`torn`).

PHY and expanders:

- `max7314_set_pin_mode` works on the output registers, and sends the first
  port's last pin to the second port with a shift of -1 (modelled as what that
  may do); `max7314_set_pin_state` returns `HAL_OK` when its write failed.
- `pi4ioe_write` only sets bits, and shifts beyond the byte for devices above
  seven; `mcp23008_read_reg` ignores its register.
- `LAN8670_PLCA_ReadTOTMR` returns bit times in a boolean; `LAN8670_Init` reads
  the strap register at the address it is about to determine.
- Two threads that write pins of one port lose one of them (`mixed`), and two
  that configure the PHY disturb each other's selection; the model has one.
- `bitstream_add_signed` of 32 bits computes its mask with `1u << 32`, which C
  leaves undefined: with a shift taken modulo 32 the value is stored as zeroes.
  The model's signed values are narrower than a word.

## Proofs

All are safety properties, proved for every value of the constants.

- Ring buffer (`Middleware_proofs`). `TypeCorrect` and `LastInsertionsHeld`, from the
  assumptions that the capacity is positive and the bound a natural number. The
  type invariant alone is not inductive: `position`, the argument of the next
  `get_nth_element`, stays in range only because a read's progress is tied to
  the count, so the invariant adds `ReadProgress`; and the placement of the
  elements (`HoldsLastInsertions`) is stated for every intermediate state of
  `rb_insert`. The arithmetic rests on one lemma, that an index below twice the
  capacity wraps at most once (`ModIsWrapped`), and on where the k-th insertion
  lies (`Placed`). `LoadsMade` says of each loaded index when it was loaded, and
  so to which element the slot computed from both belongs (`IndexIsPlace`).
  `ReadsSound` adds what is known of a read that insertions interrupt
  (`ThreadReads`): what it copied is older than what it copies next, and as long
  as nothing was inserted it stands where it should. `PointersStable` counts
  down the insertions a returned pointer survives (`PointerHeld`). `ImplementsLastN` is the refinement: the store that
  copies the element is the abstract insertion, the other two are stutters.
- Debounce (`Middleware_proofs`). `TimerCorrect` and `CallbackJustified`, under the
  assumption that no timer started ends beyond the first wrap of the tick: the
  tick then equals the uptime and `end_time` the deadline. The invariant ties
  the timer's fields to its history: an active timer was started at its end
  minus the period, and the signal has been high since before that.
  `CallbacksEachPeriod` adds that no callback came since the timer was started.
- `TraceOut_proofs`, each theorem with the priorities it needs. The shape of the
  stack comes first: which contexts may be on it, and that a context is idle
  exactly when it is not (`StackInv`). `NothingTracedWhileDumped` needs that the
  request does not preempt the completion interrupt and that threads call
  nothing after arming; TLC finds it broken without either. `BufferIsDumped`,
  the refinement of `TraceDump`, needs only that completion does not preempt the
  request: at each point of `start_next_chunk`, what has been handed out and what
  remains make up the buffer, one context at a time (`OutInv`). With the priority
  it excludes, finding 1 is the counterexample.
- `ThreadX_proofs`. `WakeUpNotLost`: while a message is queued, the consumer is
  taking messages, or its flag is set, or a producer is between its two calls
  (`Attended`). That is inductive because the flag is set after the message is
  in, and would not be the other way round. `PoolIsAccounted`: a block is named
  by the call that allocated it, and those of objects belong to calls that ended
  (`OfEndedCall`), so that none is released that is in use. `MessagesStayIntact`,
  from positive sizes: a thread's buffer holds its own message from the copy on
  (`MessageInv`), and the order is stated element by element (`InOrder`).
  `CallbacksOnTime`: the timer has run for what it is short of its duration,
  unless it stands expired (`TimerInv`). `ResetsAloneTakeEffect`: a call that no
  other overlaps finds the timer as its own last ThreadX call left it
  (`AloneInv`); ticks may come at any time. `SideBySide` carries these over to
  `ThreadXSpec`, which the run checks.
- `PtpClient_proofs`, in three invariants, each of which builds on the one
  before. `RequestsGoOn` and `UtcOffsetIsTold` hold for any number of
  application threads, from an invariant about the role alone (`Scheduled`): a
  slave has its request's timer running or its flag set. `NoWakeUpLost` and
  `StartedThreadLives` need that one application thread starts and stops the
  client (`Apps = {App}`, an assumption of the theorem; with two, the second is
  false): the invariant says, for each stage of start and stop, in what state
  the client's thread, its flags and sockets can be (`LifeCycle`, `Stage`).
  `OffsetsAreSound` and `CalibratedByItsMaster` add what is known of the four
  times at each moment (`TimesKnown`, `Sound`): whose Sync t1 and t2 are, that
  t3 and the request id belong together, and which of them a change of the
  master or a step of the clock has made stale.
- FDCAN (`Interfaces_proofs`). `FiltersStay` holds since filters are added only after a
  successful startup, and `can_init`, which resets the index, is refused by a
  peripheral that was started (`FilterInv`). `HealthyReceives` needs to know
  what is set up after each call of startup and recovery (`ReceiveInv`).
  `RoomFoundStays` is about any number of senders: whoever found room and is not
  overtaken still finds it, since only additions fill the FIFO (`RoomInv`).
- Ethernet device (`Interfaces_proofs`). `ReadyIsComplete`: of several threads at most one
  gets past the first call of `ethernet_init`, as the packet pool is refused
  the second time, and its position says what is set up (`Progress`). Whose node
  id the address and the client have is known while no call began inside
  another (`NameInv`).
  `SentWasComplete` follows a message from its creation to its publication.
- `Devices_proofs`.
  - EEPROM: `WrittenIsThere` and `OthersUntouched`, under `LayoutAssumption`: the
    partitions fit the memory and a clear stays in its page, neither of which
    the code compares. The invariant adds where a call stands in its region
    (`InRegion`, `Positioned`); the arithmetic is in `TargetInPage`, that up to
    the end of its page the device writes where it was told to, and
    `WriteLength`, that every chunk ends there or before.
  - PHY and expanders: `FieldsAreAsSet`. An access through the PHY's indirect
    selection reaches its register because only the configuring thread uses it
    (`OnlyLink`, `Selection`), and what is written back was read from the
    register as it still is (`CopyUpToDate`); the expanders' pins likewise, for
    ports on which no two calls overlapped (`OneAtATime`, `CopyIsCurrent`).
  - Paged memory: `PagedAccessIsSound`, for every size and number of pages and
    every length up to the memory's, which is what keeps two bytes of one buffer
    from one address (`PointedOnce`). While a call transfers, the device points
    at its next byte (`Pointing`): its own address counter wraps within the
    page, and the driver selects the next page just when it did (`NextAddress`,
    whose quotients and remainders are unique by `DivMod`). What a call has
    transferred, and undone, is in `Contents` and `Ending`.
  - Clock: `ClockFollowsMaster`, under `ClockFits`: a word of at least eight, and
    masters and ticks that leave the clock room in one. First the arithmetic: a
    time in two halves stands for one number of nanoseconds, and sums,
    differences and halves are those of the numbers (`SumOf`, `DiffOf`,
    `HalfOfTime`). The invariant then says at each stage of a request how its
    times lie to the clock's error when they were taken (`Stages`), and of a copy
    in progress from which times its words can be (`Copying`); a set clock
    never goes below 0, even after torn readings, only because `DelayResp` steps
    it for whole seconds and adjusts it for less.
  - Dates: `DatesFollowCalendar`, under `DatesFit`: a year's seconds fit a ULONG,
    the offsets a LONG, and the times 64 bits with sign. That the two loops end,
    and with what, is an induction over the seconds that are left
    (`LoopDefined`); it is written with sets, as `WFMin` of the library states
    well-foundedness, since the library's induction theorems cannot be used. The
    months of a year follow each other from any month on (`MonthsFollow`), and
    the years from any second on (`YearsFollow`).
- `Sensors_proofs`.
  - Registers: `FailuresAreMet`, for every table of accessors, of which the
    three sensors' are one, under `NoneForgets`: that no function replaces the
    status of its transfers by that of its last selection. The functions that do
    are among the findings (`Disputed`). The invariant says at each transfer
    which bank is selected and which failures the function knows of
    (`RegistersInv`).
  - Rates: `RatesAreMet`, from what the setters store (`RateStored`).
  - Fields kept: `OthersAreKept`, from `FieldsAssumption`, which TLC evaluates
    for every accessor of the three sensors: fields lie in one byte, or a word
    is written whole, and no setter writes an unread register of a bank it could
    not select (`AccessorsAreFit`). A fold over a sequence is defined by its steps on every set of
    positions (`FoldDefined`); a byte is known by its bits (`BitsDetermine`), and
    assigning fields leaves the bits outside of them (`NothingElse`). The
    invariant `KeptInv` adds that until it writes, a call has changed nothing,
    and that it writes to its own bank what it read there. The half about the
    sensor object needs no assumption: `ObjectInv` says which marks of an event
    may remain in the sensor, and a call's register writes, of which any prefix
    may take effect, are shown to keep what every single one keeps.
  - Set, then got: `SetIsThenGot`, again under `NoneForgets`, in three parts.
    A field assigned to holds what was assigned, and those apart from it what
    they did (`PutPartHolds`), so that fields assigned one after the other hold
    the whole value (`PutHolds`, by induction over the fields) and a getter
    that takes them together reports it (`StoredIsReported`); `StoredInv` says
    at which points of a call the device already holds it. For the stream, a bit
    appended reads as it was written and disturbs none before it (`PackedBits`);
    what is read back of the bits of a number is the number (`ReadBack`), and
    for values of either sign the nearest that fits (`SignedDecoded`).
    `StreamInv` adds where the values end. For the object, `RateInv` says what
    the flags of an uninitialised object are; the rest is what a sequence of
    steps leaves of a rate when any of them may fail (`OffFirst`, `Settled`): a
    sensor is turned off before its flag is cleared, and nothing fails after
    the flag is set.
- `Arithmetic_proofs` holds what the two share: quotients and remainders,
  induction over the numbers, loops that count and loops that end, folds, powers
  of two and the bits of a number.

Only model-checked, and why:

- Liveness (`DumpsComplete`, `StartupSettles`, `BusOffRecovered`, `Delivered`,
  `CallsReturn`, `LeavesSilentMaster`): the prover does neither fairness nor ENABLED.

Every invariant and every action property of the runs is proved. `NoneForgets` is
no assumption of the module: the three accessors of `Disputed`, of which two
forget, are real, and the configuration's table leaves them out.

## Plan

Next modules, the most important first:

1. `BxCan` (F405 filter banks and mailboxes) and the table of interfaces of the
   G431 driver, next to `Fdcan` in a run of their own.
2. The functions of the sensor drivers over several registers: pin routing with
   failures inside the embedded bank, the sensor hub, the FIFO.
3. The object's finite state machines and embedded bank composed with
   `DataRate` and `RegisterDriver` in one behaviour.

Next theorems: those of the modules above. `OthersAreKept` and `SetIsThenGot` are
about any table of accessors, and carry over to the functions over several
registers once these are sequences of accesses.
