# TLA+ models of the dual multiprotocol OTU2 muxponder firmware

The program is the firmware of a muxponder card: a Nios II soft processor that
configures transceivers, clocks and framers, answers a control unit (CU) over
the KURS protocol, talks to an ARM processor on the card over the IPGLB
protocol 2, keeps user preferences in flash and can be updated over the same
serial line. Paths below are relative to `src/`; most of the firmware is in
`src/src/`.

## How the program runs

There is one processor, one main loop and interrupts that do not nest.

* **Main loop** (`main`, main.c 709-745): `timer_kick`, `dvt_handler`, restore
  of the defaults, the check for an updated image and reset, `scheduler()`. The
  scheduler runs four tasks to completion: every 2000, 100, 55 and 10 ms.
* **Timer interrupt**: counts ticks and runs the alarms. One of them,
  `kurs_handler`, every 15 ms, handles a whole KURS request, flash erase
  included, inside the interrupt.
* **UART interrupts** (`uart_isr`): a byte received goes to the IPGLB receiver
  or to the KURS receiver according to its ninth bit; a free transmitter takes
  the next byte of a ring buffer.

Everything is shared by global variables. The sections below list the state
that matters and who writes it.

## Inventory

| Component | State | Operations | Written by | What makes it correct |
|---|---|---|---|---|
| UART transmit queue (ring_buffer.c, main.c) | slots, head, tail, count, ITRDY | put, get, send_9bit_uart_packet, kurs_send_packet, callback_uart_trdy | main loop, alarm, UART interrupt | bounded FIFO; nothing stranded; replies in one piece |
| Boot copier (advanced_boot_copier.c) | flash images, memory, entry point | validate, pick, copy records, jump | runs alone after a reset | best valid image, whole, in memory before the jump |
| Remote update (kurs_remote_update.c) | session statics, image area, reboot_nios | HEXLOAD, block, FINISH, information commands | alarm, main loop (check and reset) | acknowledged means written; every boot safe; a completed update takes effect |
| Flash drivers (lld_S29GLxxxP.c, altera_avalon_cfi_flash*.c) | status of the chip | erase, program, poll | alarm with one, main loop with the other | what is written is there when the call returns well; the chip is left readable |
| Scheduler (scheduler.c) | task list, tick counts, position of the scan, mailbox | scheduler, s_task_create and its kin, messages | main loop and its tasks; ticks from the timer | nobody due is passed over; counts survive the wrap; one queue per task |
| HAL alarms (alt_alarm_start.c, alt_tick.c) | linked list of alarms, tick counter | start, stop, tick | main loop; timer interrupt walks | called on time; the list is a chain at every interrupt |
| IPGLB receiver (ipglb_prot2_processor.c) | state function, counter, two buffers, ready flags | receive, cleanup, service | UART interrupts of two ports, main loop | a packet is whole and belongs to its request; the receiver recovers |
| ARM requests (main.c) | request, reply, systicks | get_slot_id, get_fp_leds, set_status_led | main loop | end, with an answer or a time-out |
| KURS receiver (kurs_processor.c) | state function, two buffers, request_ready | kurs_receive, kurs_service | UART interrupt, alarm | a request is handled whole, at most once |
| KURS core (kurs_core.c, kurs_helper.c) | sections, parameters, colours, change flags, language pack | one handler per command; conversions of numbers; check sum | alarm; main loop (values, colours, saves) | what is read and written is what was meant; changes are reported once |
| Controls (main.c) | next, current, change of each setting | set, carry out (task_10), restore the defaults | alarm asks, main loop carries out | no request forgotten; hardware and report agree |
| Thresholds (main.c) | twelve thresholds and their mode | set, copy from the module | alarm, main loop | what the control unit sets is kept |
| User preferences (kurs_user_prefs.c) | list of settings, save flag, flash | append, commit, read | main loop; alarm sets the flag | what is read is a complete earlier save |
| Transceivers (ipglb_transceiver.c, ipg_sfp.c) | state, timer, identification, thresholds, measurements | poll, boot, reads | main loop, timer | a sound module comes up; what is shown is the module's own |
| Laser shutdown (ipg_als.c) | control, register | set_mode | alarm, boot | the mode in force is the one reported |
| Performance counters (ipg_pfc.c) | structure per port, timer, copy | create, destroy, reset, copy | main loop, timer | never read when freed; a reset forgets; what is counted is shown |
| Alarms of the card and of ports (main.c, ipglb_adapter.c) | alarm word, status of each interface, two card alarms | read, sum up, send, show | main loop; alarm reads | no alarm missed, none stays on; the LED follows |
| Registers of interfaces (ipglb_adapter.c) | a table of pointers per interface | map, boot, read, reconfigure | main loop | a client is served through its own registers |
| I2C (sls_*.c, ipg_i2c.c, ipg_pca9547.c) | controller, selected channel | read, write, select | main loop | calls are atomic; the channel is that of the device |
| Clocks (ipg_si5338.c, ipg_si5375.c, main.c) | register copies, pending steps | configure, step, switch with the rate | main loop | each client has the clock of its rate |
| APS, logger | | | | APS is compiled out; nothing uses the logger |

Hard behaviours: the main loop and interrupts interleave without locks except
around single ring operations; requests and replies are lost, damaged, late or
repeated on three lines; two drivers write one flash chip, one of them in an
interrupt, and a power failure can cut either short; the bus refuses any byte
of any read or write and most callers do not look; counters run freely and wrap;
state is copied from module to report to display in steps up to a second apart; a
timer that, according to the source, sometimes stops. PROJECT.json lists each
hazard at its line with the properties that watch it, or with the reason why
none does.

## Modules

| Module | Models | Correspondence |
|---|---|---|
| `BoundedFifo` | what a queue promises that is emptied in the order it was filled, and one that may lose | `UartTx` implements `FifoSpec` by `queue <- Contents`, `taken <- wire`; `KursLink` implements `LossySpec` by `queue <- OnTheWay`, `taken <- acted`: a request is acted on at most once, in order |
| `UartTx` | ring_buffer.c, and the producers and the consumer of the queue | `buf`, `head`, `tail`, `count` are the fields; `Put` and `Get` are the successful calls, `Full` and `Empty` the guards of the others; the main loop moves byte by byte, the alarm holds the processor for a whole reply (`InIsr`), the UART interrupt takes a byte or clears ITRDY |
| `FlashImage` | image headers | `ValidateFlashImage` and `PickFlashImage`, shared by copier and update; `IsBest` is the documented criterion |
| `BootCopier` | the boot copier | `pc` follows alt_main; one `CopyRecord` per turn of the copy loop; the headers and programs of the run stand at its end |
| `RemoteUpdate` | the update handler, main's check, the boot that follows | one action per branch of HandleKursSafeReprogramming; composes `FlashImage`; `Erases` and `Writes` are the calls of the flash, which may refuse and whose results the code drops; control unit (CU) and line are external actions; the images of the runs stand at its end |
| `LldFlash` | lld_memcpy and the chip | one step per piece loaded and per read of lld_StatusGet; the chip finishes between any two |
| `CfiFlash` | alt_flash_cfi_write and the chip, with the other driver's commands coming in between | erase, then byte after byte, each polled on its top bit; used by the next two |
| `Preferences` | kurs_user_prefs.c, task_2000, the restore at boot | copy to the buffer, write, lower the flag are steps; a setting or the signature is one cell |
| `LangPack` | the language pack: CU, alarm, task_2000, boot | a block is one cell; `Damage` is a damaged block, which the command stores where its index says, as it compares no checksum |
| `Scheduler` | the scheduler | `BeginPass`, `Skip`, `RunTask`, `TaskReturns`, `NextPriority`, `EndPass` are the steps of the double loop, `TurnWithoutTick` a turn that finds no tick and takes the snapshot all the same, one action per call of the interface; the histories `waiting` and `moves` say who was due at the start of the pass and how often its priority was set since |
| `Mailbox` | messages between tasks | the two kinds of linked list; the scan of the mailbox step by step; implements one queue per task, in the order of sending (`IsFifo`, by `OnTheWay`) |
| `HalAlarms` | alt_alarm_start, alt_alarm_stop, alt_tick, alt_llist | pointers are functions; each assignment of an insertion or removal that the interrupt can see is in one critical section, the walk is step by step |
| `AlarmSet` | what the HAL promises | alarms with the ticks left to each; `PfcTimer` implements it |
| `PfcTimer` | timers of the performance counters of two ports | composes `HalAlarms`; create, start, stop, destroy of ipg_pfc.c |
| `PfcCounts` | what the performance counters of one port count and show | every half of a reset, of a rate change and of the destruction is a step; the counters are one set of errors tagged with rate and age |
| `Prot2Processor` | the IPGLB receiver | a record and one operator per function of the receiver; the cleanup is its six assignments in their order |
| `ArmLink` | requests to the ARM | composes `Prot2Processor`; the main loop step by step, each assignment of the cleanup a step, each received byte a step of the interrupt |
| `DvtLink` | the unit as the slave on the test port | the same receiver with ipglb_prot2_service and dvt_handler |
| `KursLink` | receiver, alarm, CU and other units on the line | the receiver is a record and one operator per state function; implements `LossySpec` of `BoundedFifo` for the requests that come whole; what is left of others is acted on if its command is one that compares no checksum (`made`); the UART has one register for received bytes |
| `KursProfile` | the requests of kurs_core.c, the colours, the saves | one action per command; values are measured, coloured and saved by the main program |
| `KursValues` | alarms, colours and counters of ports as they are shown | task_55 writes the shared word in steps, `Show...` operators are the branches of KURS_userget_value |
| `KursNumbers` | StrToU16, StrToU32, StrToU32Def, Str4HexToU16 | character by character |
| `Controls` | service state, transmitter, loop and rate of one interface | the alarm sets next and change, task_10 carries out in steps, the main loop restores defaults |
| `Thresholds` | thresholds of one interface | one copy a step: of the module's in task_55, of the defaults when they are restored and when the module is pulled |
| `Als` | laser shutdown of one interface | requests, restarts, restores |
| `Transceiver` | the state machine of a module | composes `HalAlarms`; one action per state function |
| `SfpData` | what is read of a module and shown | every read may fail |
| `RegisterMap` | the tables of register pointers and who uses which | a register is [FPGA, interface] or unset |
| `CardAlarms` | alarms of ports, interfaces and the card, the LED | task_55 interface by interface, update_alarms, set_status_led |
| `I2cMaster` | sls_avalon_i2c_m.c against controller and device | one step per command, wait and look at the acknowledge; a byte the driver did not wait for leaves the device astray for the rest of the call (`late`); implements `I2cCall` |
| `I2cCall` | what a call of the driver promises | a read or write that happens whole, in part, or not at all, or anything when a byte of it was late |
| `I2cMux` | the choice of the channel | a selection and the access after it, on two buses with one memory of what is selected and a callback that may get any multiplexer |
| `ClockGen` | si5338 and si5375 configuration and steps | one write a step, each an `I2cCall` of one byte, in time |
| `ClientClocks` | which attenuator and port a client's rate changes | the copies in memory and what the ports were given |
| `MCSettings` | the settings of the control unit and what is kept in flash | instances of `Controls`, `Thresholds`, `Als`, `PfcCounts`, `KursProfile`, `Preferences`, `LangPack`, `LldFlash` |
| `MCModules` | modules and what is shown | `Transceiver`, `SfpData`, `PfcTimer`, `KursValues` |
| `MCLinks` | lines and messages | `KursLink`, `DvtLink`, `KursNumbers`, `Mailbox` |
| `MCBoard` | the board | `CardAlarms`, `RegisterMap`, `I2cMaster`, `I2cMux`, `ClockGen`, `ClientClocks` |
| `UartTxProofs`, `BootCopierProofs`, `RemoteUpdateProofs`, `SchedulerProofs`, `ArmLinkProofs`, `KursLinkProofs`, `SettingsProofs`, `BoardProofs` | theorems | see Proofs |

The definitions marked `Mutant:` in the modules are variants of a definition
with a plausible bug. PROJECT.json pairs each property with one; with the
variant in the definition's place the property fails.

How they fit together: `KursLink` delivers whole requests at most once to the
alarm, and remains of requests to the commands without a checksum; what the alarm then does is `KursProfile` (reading and setting
parameters), `Controls`, `Thresholds`, `Als`, `PfcCounts` (settings),
`KursValues` (values), `RemoteUpdate` and `LangPack` (uploads). They take the
alarm as one step that may come between any two steps of the main program,
which is what KursLink and the processor give them. `UartTx` carries the replies.
`Preferences` saves what `Controls` set. `Transceiver` calls for the reads of
`SfpData`, whose values `CardAlarms` sums up and `ArmLink` sends to the LED.
`I2cMux` selects a channel, `I2cMaster` makes the transfer, `ClockGen` and
`SfpData` rely on what `I2cCall` says of it: that a transfer can fail silently.

## Runs

Twelve runs, nine that pass and three that end in a violation. Five look at one
component each. The other four go over *groups* of components that share no
variable (`MCSettings`, `MCModules`, `MCLinks`, `MCBoard`): an initial state picks one
component, the variable `part`, and only that one moves. Components without common
variables cannot disturb one another, so that every behaviour of such a
component alone is a behaviour of the run and the reverse; letting them
move together would multiply their states and show nothing more. Components that do
interact are composed inside their modules (`KursLink`, `ArmLink`, `DvtLink`,
`Transceiver`, `PfcTimer`, `Preferences`, `LangPack`, `RemoteUpdate`). A property of a
group says for each component what it promises; the constants of each instance are in
the MC module, those of the board and of the settings in `Board.cfg` and `Settings.cfg`,
so that `BoardProofs` and `SettingsProofs` can speak of any.

| Run | Module, configuration | Instance and bounds, and why they are enough |
|---|---|---|
| uart_tx | `UartTx` | ring of 4 with counters modulo 8, packets of 2 and 3 bytes, two per producer: a request and a reply do not fit together, so that the ring fills and drops inside a packet, and counters that wrap |
| boot_copier | `BootCopier` | every pair of seven headers (four orders of version and time stamp, one failure of each check with the latest version) and two programs, one with overlapping records; one power failure with reprogramming |
| remote_update | `RemoteUpdate` | area of 3 blocks of which 2 are erased; five images: newer, older, damaged, filling the area, too large; two uploads so that one finds the leavings of another; one power failure or one sector or block that the flash refuses (`MaxFaults`); two replies under way |
| update_erase | `RemoteUpdate`, `UploadErase.cfg` | the same with four images and no fault |
| scheduler | `Scheduler` | idle task and two more of any priority, one more call in mid-scan; ticks modulo 9 with periods of 1 and 2, turns of up to 2 ticks and one tick swallowed between two passes, so that every counter wraps and no count need reach its bound; the table of priorities is followed in memory by nothing that is a priority (by anything, in the proofs) |
| arm_link | `ArmLink` | one lost, damaged or late request or byte and one stop of the timer; request numbers modulo 2; a late ARM holds at most two requests (`MaxHeld`, in the guard of `Begin`); replies of 4 to 6 bytes as in the code, each byte tagged with the kind and the number of its request; buffers of 18, the six bytes of each reply that can come before the timer runs out |
| timer_stop | `ArmLink`, `TimerStop.cfg` | one fault and one stop |
| laser_stays_off | `Controls`, `LaserStaysOff.cfg` | one client, one request |
| settings | `MCSettings` | controls: a client of either FPGA or a line, three rates (one Ethernet, one SDH, one OTU), two requests, so that the second comes at each step of the first; thresholds: two stand for twelve, three values, three requests; laser shutdown: every mode, also an unknown one; counters: a client that changes among three rates, three requests, a second of two ticks; profile: an existing section and one that needs a colour, one request; preferences: two settings in four cells (signature, size, two values), five events (requests, interruptions, power failures); language pack: packs of one and two blocks, four events (packs begun, repeated and damaged blocks, uploads, power failures); flash driver: pieces of two cells, up to three cells, so that there are a whole and a broken piece |
| modules | `MCModules` | transceiver: the timers of one module and of kurs_handler, modulo 5 ticks, so that the roll-over bit of an alarm matters, two events; data: three optical modules of different abilities and a copper one, four events and two failed reads; timers of two ports, three alarms in the list; shown values: client 1 and client 8, at whose border the numbering of parameters breaks, three changes |
| links | `MCLinks` | KURS: packets of 3 in a buffer of 9, numbers modulo 2, one of the two requests with a command that compares no checksum, two faults (a damaged byte that looks like a start, an end or such a command, a lost one, an overrun, a slow service); the buffer is the one that two faults cannot fill, since more can (see `CounterStays`); DVT: buffer of 12 as packets have at most 12 bytes here, one fault of line or client, damaged bytes that may be a length under four; numbers: the readers StrToU16 and StrToU32Def (the other two are refuted, see below), up to seven of the digits that make up 6553 and 65535 and their neighbours; mailbox: two tasks, three messages |
| board | `MCBoard` | alarms: one client and one line, four protocols, two changes between any two reads; registers: clients on both sides of the border between the FPGAs and both lines; I2C: three cells, two calls, so that one finds what the other left, any byte refused or late; multiplexer: both buses, any write refused, a callback that gets its own multiplexer or the other one; clock generator: two of its outputs, five clients, three refusals; clocks: two clients of one attenuator and one of the next |

A larger instance of the ARM link (two faults, 19 million states) shows nothing more.

What they show, property by property:

* **uart_tx** - in every interleaving of the two producers and the interrupt
  the queue is a bounded FIFO (`QueueIsFifo`), the two ways ring_buffer.c counts
  agree across the wrap (`RingConsistent`), ITRDY is on while there is a byte
  (`NoStrandedByte`), a KURS reply is never split (`UnbrokenReplies`) and the line
  drains (`LineGoesQuiet`). A request of the main loop may have a KURS reply
  in its middle; the ninth bit tells the ARM which byte is whose.
* **boot_copier** - the image picked is the documented best (`PickIsBest`), memory
  is its records and nothing else at the jump (`EntryIsWhole`), and a valid image
  is always reached (`BootsIfItCan`).
* **remote_update** - `AckedIsWritten`: an address acknowledged is programmed, for
  images that fit the sectors erased and blocks the flash did not refuse to erase or to
  write: of a refusal the code tells nobody (`SuccessIsWritten`, below). `BootSafe`: whatever a power failure or a
  HEXLOAD between validation and reset leaves, the unit comes up with the factory
  image or a whole, sound, not older one, and does not pass over one.
  `CompleteTakesEffect`: COMPLETE leads to the new image, unless the flash refused a
  block of it.
* **scheduler** - `ServedInPass`: due at the beginning of a pass means run in it, also
  when tasks are created, deleted or moved under the scan; only a task whose priority
  is set twice in one pass can slip past it both times (no task of this program sets a
  priority; the run allows one call, the proof any number);
  `CountsDoNotWrap`: tick differences are elapsed times, the ticks that are swallowed
  between two passes included; `EveryTaskRuns`, as long as not every tick is swallowed.
* **arm_link** - `CleanRequestSucceeds`: a request on a quiet line with a healthy
  ARM succeeds whatever was left in the receiver; `AcceptsWhole`: pieces of several
  replies are never accepted, even though the cleanup races with the interrupt;
  `AnswersItsRequest`: nor is another request's reply, on a quiet line;
  `Recovers`: requests succeed again and again unless the timer stops.
* **settings** - `IsAsReported`: a port out of service is dark, hardware has the
  loop and the rate reported, counters fit the rate, thresholds of the control unit
  survive the copying of the module's until the module is pulled (but not when they are
  set while they are being written over, see `SelectionKept`), no mode of the laser shutdown is reported that
  its register did not take, and no answer comes from counters that were freed.
  `FlashIsWhole`: what a restart reads is all of one save or none, a pack that came in
  whole and was left alone during the write is what is in the flash, the driver reports success exactly for what is programmed.
  `NothingUnasked`: no transmitter is lit by a request for something else, a refused
  request changes nothing, and the flash is written only for a pack that came in whole or
  that a damaged block completed or spoiled (which the code cannot tell, `OnlySentPacks`).
  `RequestsSettle`: every request is carried out at last, and
  the counters show in the end what was counted since the last reset at this rate.
* **modules** - `ModulesAreKnown`: a module is not addressed before it had time to
  wake up, its reported state is true, identification, thresholds and values shown
  are those of the module plugged now, the list of alarms stays a chain.
  `StepsKeepPromises`: `PfcTimer` implements `AlarmSet`, every timer is called in its
  tick, and an alarm that stays does not flicker while its word is written. `ModulesComeUp`: one that stays plugged
  and answers ends operational; timers and values follow.
* **links** - `RequestsAreUnderstood`: after a request that came whole to a resting
  receiver the client is answered; what nobody sent is acted on only out of what a fault
  left in the receiver (`MadeUpByFaults`); a number is the one its digits stand for and
  the reader stays in its field, in the two readers of the run: the other two, StrToU32 and
  Str4HexToU16, do not keep this (see below). `ActsAtMostOnce`: `KursLink` implements
  the lossy `BoundedFifo` for the requests that come whole, a DVT answer is to the request
  that waits, each mailbox is a queue. `KeepsAnswering`: after the faults the control unit
  is answered for ever; the client of the test port is too, or a byte was taken for a
  length under four and the port is deaf (`Deaf`), or the reset after a shifted request
  cuts into the next packet time and again (`CutsIntoPacket`). Nothing else can silence it.
* **board** - `AlarmsAreTrue`: every alarm that comes or goes is told and the LED
  follows, although interfaces are read one at a time. `DevicesAreReached`: a client is
  served through its own registers, a call leaves the I2C line free, no register of a clock
  generator is forgotten, each of the first four clients has the clock of its rate. It says
  nothing of the multiplexers: which channel they pass is left to chance by the code
  (`ReachesItsDevice`, below), and of `I2cMux` only the types are kept.
  `StepsKeepPromises`: `I2cMaster` implements `I2cCall`, with refused and late bytes, and a
  rate of one client leaves the clocks of the others alone. The promise is that of the
  code: a write that was refused may return OK (`RefusedWriteFails`), and a call that did
  not wait for one of its bytes may do anything, but the call after it is sound again.

The deadlock check is on except where the system may stop: in `uart_tx` (no producer
has to send), `links` (the readers of numbers return) and `board` (the calls of
the I2C driver are bounded).

## Disagreements between code and text

Three of them are runs, since they need several actors and a trace to be believed:

* `update_erase` - the erase leaves the end of the space an upload may fill;
* `timer_stop` - nobody restarts a timer that stops while the main loop waits;
* `laser_stays_off` - a request that comes in the middle of task_10 is reported
  done and is not.

The others are stated as properties in the modules, next to the definitions they
speak of, and TLC refutes each in an instant on the instance named. They are kept as
definitions to be checked when the code changes. Where a model would be of no use
if the flaw hid everything behind it, the passing properties except it by name
(histories such as `raced`), or the instance of the run keeps away from it.

| Property | Module, instance | Line | What the code does, and what is said of it |
|---|---|---|---|
| `NoEntryGoesToReset` | `BootCopier`: an image that ends in a halt record (`MCHaltPrograms`) | advanced_boot_copier.c:287 | LoadFlashImage returns -1 as alt_u32 for a halt record, so `entry_point >= 0` (287) is always true and the copier jumps to 0xffffffff; advanced_boot_copier.c:302 says "If the entry point is not found, then we should jump back to the reset vector." |
| `SignatureChecked` | `RemoteUpdate`: a damaged image | kurs_remote_update.c:31 | WriteToProgCopy ignores bTestIdent and never returns 2, so FINISH answers COMPLETE for an image that fails its checks (the boot copier refuses it later); kurs_remote_update.c:28 says "flag of signature check request of the over-written program (in case of unsuccessful check, writing is not executed)". |
| `SuccessIsWritten` | `RemoteUpdate`: two images, one refusal | kurs_remote_update.c:46 | WriteToProgCopy drops the result of lld_memcpy and PrepareEraseProgCopy that of cfi_flash_erase (kurs_remote_update.c:100): a block the chip did not take, or that lies in a sector it did not erase, is acknowledged, and FINISH answers COMPLETE. The comment at kurs_remote_update.c:332 says: "reply about success in case of correctly writing the received block". |
| `ActsOnlyOnSent` | `KursLink`: as in MCLinks | kurs_core.c:688 | HandleKursWriteLangPackCommand and HandleKursEnableSetParams (kurs_core.c:246) compare no checksum: a request of these two with a damaged byte, or run into one with another, is acted on. The comment at kurs_core.c:447 says of the checksum received and the one computed: "they should match". |
| `RestartsAfterPause` | `DvtLink`: Packets 3, one fault | ipglb_prot2_processor.c:108 | The receiver gives up a packet when a byte comes more than 10000 ticks after the one before; a tick is 1 ms. The comment at ipglb_prot2_processor.c:110 says: "10ms occurred consider it a wrong packet and restart". So the first byte of a repeated request is taken for the next byte of the one that was broken off, seconds before. |
| `FullPacketIsSeen` | `DvtLink`: Packets 3, one fault | ipglb_prot2_processor.c:162 | A packet is full when the counter equals the length, and the first comparison is made with four bytes received; no length under four is refused. After one lost byte a command or a parameter is taken for a length, the counter passes it and no packet is full again: the port stays deaf and the counter leaves the buffer. The comment at ipglb_prot2_processor.c:30 says of expected_len: "this will be used to identify when a full packet has been received". |
| `SilentModuleFails` | `Transceiver`: as in MCModules | ipglb_transceiver.c:466 | Communication is checked once, before the module is monitored; in the monitor state the result of read_if_transceiver_diagnostics is ignored and the state stays OK when the module no longer answers. The comment at ipglb_transceiver.h:90 says of the state: "TRANSCEIVER_STATE_FAIL transceiver plugged but not operational, also cannot communicate with it". |
| `OnlyByHand` | `Controls`: a line, one request | main.c:4773 | Restoring the defaults puts every interface in service with tx_disable.next = 0, and the main loop raises the change flag at main.c:725, so task_10 turns on transmitters nobody asked for. The comment at main.c:6850 says: "We do not turn ON TX enable automatically for safety reasons", "We want the user to manually turn ON SFP TX". |
| `RateRestored` | `Controls`: Kinds {"client2"}, Rates {"STM1", "OTU1"} | main.c:634 | For a restored rate OTU1, STM16 or FC2 the boot leaves rate.change at 0 and relies on the restore of the loopback mode to set the rate. set_if_port_loopback sets it in every mode for clients of the first FPGA, but for those of the second not in mode MODE_LB_LN (ipglb_adapter.c:2484). Such a client is never set to its rate, though the comment at main.c:619 says "restore client port rate". |
| `Stm4Counts` | `Controls`: Rates {"STM1", "GE", "STM4"} | ipglb_adapter.c:2217 | set_if_port_rate writes code 1 for STM1 and STM4; read_if_port_rate reads code 1 as STM1 and expects STM4 at code 8. So the rate read back is never STM4, and the branch of task_10 that gives STM4 its capabilities at main.c:6943 is not reached: after an Ethernet rate the port stays without performance counters, although the comment at ipglb_adapter.c:115 says they are "not available for ETHERNET rates" only. |
| `LoopsToClient` | `Controls`: one client, one request | ipglb_adapter.c:2346 | MODE_LB_CL writes to a client the register values of MODE_LB_NORMAL (the write of rate code 6 is commented out) and nothing at all to a line, which stays looped to the line if it was; the mode is reported as set. The comment at ipg_types.h:199 says: "MODE_LB_CL port placed in loop to client mode". |
| `DataTypeIsSet` | `Controls`: Kinds {"client2"}, one request | main.c:3772 | The index of the client is the number of the parameter less ID_3_CL1_SET_DATA_TYPE, which is 0x01020088, while client 2 has 0x0102005B (kurs_constants.h:407): for the clients 2 to 16 the index is -45 to -31, a place in front of the array of interfaces, where the rate is stored if a bit there happens to be set. The comment at main.c:3509 says: "Function that changes a parameter to a new value based on user selection". |
| `SaveIsKept` | `Preferences`: two settings, three events | main.c:6695 | task_2000 lowers the save flag after the commit. A save the control unit asks for while the settings are copied or written (the commit takes longer than a poll) raises a flag that is raised already and is then lowered; the settings changed after they were copied stay out of the flash. The comment at kurs_core.c:205 says: "This function saves all parameters with write permission to EEPROM". |
| `AllAreSaved` | `Preferences`: Settings {"info", "category"}, List <<"info", "info">> | main.c:998 | For twelve clients build_preferences_list appends pt_cl_N_in_info (appended before) in the place of pt_cl_N_in_cat. The category is a setting with write permission that is never saved. The comment at kurs_core.c:205 says: "This function saves all parameters with write permission to EEPROM". |
| `AcceptedIsWritten` | `Preferences`: two settings, three events | kurs_user_prefs.c:154 | Only the signatures and the size are checked. An upload in the alarm uses the same chip: a program command of the commit that it interrupts is forgotten, the driver polls only the top bit of a byte, and the hole is accepted at the boot. The comment at kurs_user_prefs.c:148 says: "It also validates the data by checking for CRC and signature". |
| `PackRestored` | `LangPack`: two packs, two events | main.c:4478 | The boot reads the language pack from the flash at main.c:525, then calls profile.Init at main.c:600, and KURS_profile_init clears profile.lngpack again, so the pack in the flash is never read by anybody. The comment at main.c:524 says: "restore language file". |
| `OnlySentPacks` | `LangPack`: packs of one and two blocks, two events | kurs_core.c:713 | A block is checked for its length, its index and the permission to set, and for no checksum. One with a damaged index is stored in the place of another, one with a damaged index or number completes a pack that nobody sent, and that is written to the flash. The comment at main.c:4432 says of the flag it raises: "has to update the new lng pack". |
| `RefusedWriteFails` | `I2cMaster`: Stretches FALSE | sls_avalon_i2c_m.c:192 | sls_avalon_i2c_write returns OK when the address or the offset is not acknowledged, because both refusals leave the nested ifs at line 192 and only a refused data byte returns FAIL. The comment at sls_avalon_i2c_m.c:192 says: "if nack is 1, exit with a failure (0)". |
| `EveryByteIsAwaited` | `I2cMaster`: Stretches TRUE | sls_avalon_i2c_m.c:385 | checKTip tests `status && 0x2`, which is 0 or 1 and never the 2 its loop asks for: it sleeps once for TransDelay and returns, the byte transferred or not. The comment at sls_avalon_i2c_m.c:375 says: "when byte has transferred this loop terminates". |
| `SuccessIsConfigured` | `ClockGen`: one refusal | ipg_si5338.c:162 | ipg_si5338_config returns RET_SUCCESS whatever the device answered: the result of the second write is not looked at, and a write that is not acknowledged at its address or offset is not written again, since sls_write returns OK. The comment at ipg_si5338.c:151 says: "RET_SUCCESS on success". |
| `OnlySpeedIsStepped` | `ClockGen`: five clients, no refusal | main.c:6016 | adjust_ppm passes the number of the client, 0 to 15, as which_clk_output, and ipg_si5338_change_speed reads clk_speed_registers[which_clk_output] behind the end of its four elements: clients 4 to 7 write to the step size registers, the others to whatever the linker put there. The comment at ipg_si5338.c:44 says: "Array storing the registers used for clock speed control of the 4 clock outputs." |
| `PortDIsModified` | `ClientClocks`: Clients {2, 3, 7} | main.c:5531 | switch_to_otu1 puts the registers for client 3 in portC_configuration of the first attenuator and then writes port D from its unchanged copy: client 3 keeps its clock, and the copy of port C, the one of client 2, is overwritten. The comment at main.c:5530 says: "Modify the SI5375 PORT D output configuration." (switch_to_otu2, which nothing calls, does the same for clients 3, 7, 11 and 15.) |
| `NewIsApplied` | `ClientClocks`: Clients {2, 3, 7} | main.c:5604 | Every switch ends by configuring port PORT_A + _index of each of the first four attenuators. The index of a client runs to 15 and ipg_si5375_config knows ports 0 to 3, so for clients 4 to 15 it reads an address behind its table and returns RET_FAIL: the new clock stays in memory until a client of the same column below 4 is switched. The comment at main.c:5603 says: "Apply the new SI5375 configuration." |
| `IndexIsPort` | `ClientClocks`: Clients {2, 3, 7} | main.c:2048 | handle_user_i2c_config takes index - 6 both for the attenuator and for its port; only indices 6 to 9 configure one, the diagonal, and from index 12 on the address is stored behind the array of six. The comment at main.c:2040 says: "we have 6 SI-5338 (indices 0:5) and 6 SI-5375 device with 4 ports (index 6:30)". |
| `ReachesItsDevice` | `I2cMux`: both buses, MuxPassed {"own"}, no refusals | main.c:2370 | rem_i2c_bus4 gets select_channel_on_bus4, whose static current_selected_channel is that of i2c_bus4; select_channel_on_rem_bus4 is never used. When the same channel is wanted on the other bus nothing is written to that bus's multiplexer. The comment at main.c:2192 says: "still talking to the same channel, nothing to do". |
| `ReachesItsDevice` | `I2cMux`: MuxPassed {"own", "other", "none"} | main.c:2186 | select_channel_on_bus4 has three parameters, the multiplexer and the port among them, and is called through selectChannel, which has one (ipg_i2c.h:29, ipg_i2c.c:47): the two pointers it follows are whatever the registers hold (the listing src/dual_otu2_multiprotocol_otu2_mxp.objdump has `callr r2` at 200abc8 with the argument in r4 alone). The comment at main.c:2179 says: "Function that makes the configurations needed to activate a certain I2C channel on bus 4 FPGA1." |
| `RefusedIsRepeated` | `I2cMux`: one bus, Refusals TRUE | main.c:2235 | select_pca9547_channel and unselect_all_pca9547_channels drop the result of sls_write, and the channel is remembered as selected even when the multiplexer did not take it; the following accesses go to no device or, when the clearing was refused, to the one selected before. The comment at main.c:2192 says: "still talking to the same channel, nothing to do". |
| `EveryModuleIsWired` | `I2cMux`: one bus, no refusals | main.c:2533 | Both loops over the SFPs use the indices 0 to 7, and both halves of the line the indices 0 and 1: modules 2 to 7 end on rem_i2c_bus4, 0 and 1 on the line buses of the second FPGA, and the i2c_dev.bus of 8 to 17 is what malloc left. The comments at main.c:2520 and main.c:2530 say: "8 SFPs on BUS4 as well" and "8 SFPs on BUS9 as well". |
| `EveryU32IsRead` | `KursNumbers`: Parsers {"StrToU32Def"} | kurs_helper.c:397 | StrToU32Def compares before each character, the delimiter included, and stops with the default as soon as the number exceeds 429496729: no number from 429496730 to 4294967295 is ever returned. The comment at kurs_helper.c:394 says: "this checks wether the value we are sending exceeds 32bits". |
| `EveryU32IsRead` | `KursNumbers`: Parsers {"StrToU32"} | kurs_helper.c:702 | The character behind 429496729 is compared with the digit 6 without being a digit: the semicolon, which ends a value in a request, is greater, and the value 429496729 is refused. The comment at kurs_helper.c:702 says: "at the edge and the next character will be greater than 32 bits". |
| `AcceptsTheValue` | `KursNumbers`: Parsers {"StrToU32"} | kurs_helper.c:708 | StrToU32 refuses an eleventh digit and a number that begins with 429496729 and goes on with 6 or more, and nothing else: 4294967300 to 9999999999 are returned modulo 2^32, to be compared with the limits of the parameter only then. The comment at kurs_helper.c:708 says: "the number we received exceeds the maximum number of digits needed to represent 32-bits values". |
| `EndsInField` | `KursNumbers`: Parsers {"StrToU32"} | kurs_helper.c:713 | A delimiter before the first digit has no branch in StrToU32 (nor in Str4HexToU16, line 465): the function goes on to the next digit it meets, in the next field or behind the request, and returns that number with success. The comment at kurs_helper.c:713 says: "the number we received as string has ended". |
| `AcceptsTheValue` | `KursNumbers`: Parsers {"Str4HexToU16"}, digits to 15 | kurs_helper.c:419 | Str4HexToU16 counts up to five digits, the number that 65535 has in decimal, and its comparison with 6553 is that of the decimal function: five hexadecimal digits are returned modulo 2^16. The comment at kurs_helper.c:412 says: "This function converts a 4-digit hex string into an unsigned 16-bit number." |
| `SelectionKept` | `Thresholds`: two thresholds, one request | main.c:6620, ipglb_adapter.c:2595 | task_55 tests threshold_mode and then copies twelve thresholds of the module; the KURS alarm that comes between acknowledges a threshold of the control unit and sets THRESHOLD_USER, the copy overwrites the threshold, and as the mode is now THRESHOLD_USER nothing corrects it. When the module is pulled, reset_if_kurs_power_threshold writes the defaults whatever the mode is, and the mode stays THRESHOLD_USER. The comment at main.c:3509 says of KURS_userset_value: "Function that changes a parameter to a new value based on user selection." |
| `UnknownIsNotAnswered` | `KursProfile`: Asked {6} | kurs_core.c:333 | section_index starts at 0, so a number without a section (0, 6, 7, 9 to 99, 104 and above, or a section that is empty) is answered with the values of section 1 under that number; the branch that answers NA is never taken. The comment at kurs_core.c:356 says: "section not found or empty". |
| `FailureShows` | `KursProfile`: Colours {7}, no request | kurs_core.c:1387 | ColorDynamicParameters colours nothing: it takes the maximum of the colours the last coloured read of section 2 left, so that without such reads a failure never shows in block_color. The comment at kurs_core.c:1384 says: "This function colors all dynamic parameters." |
| `ResetReachesHardware` | `Als`: a client | main.c:4775 | SetDefault assigns ALS_CONTROL_DISABLED to control without calling set_mode, and the main loop, which raises the change flags of five other settings (main.c:723), has none for it: the hardware keeps the old mode until the next restart. The comment at main.c:3863 says: "Inform the main loop that it has to update the HW to reflect the" new settings. |
| `LineIsEnabled` | `Als`: a line | main.c:5152 | init_als_module gives a line no registers, so that set_port_als_mode sets and reads back a bit at an address malloc left, and acknowledges the mode when that happens to succeed. The comment at main.c:5053 says: "for lines, ALS can only be enabled in LINE mode". |
| `EthernetReadsItsMac` | `RegisterMap`: clients 0, 8, 15 and the lines | ipglb_adapter.c:191 | client_port_mmap assigns gemac_1 twice, the second time with the base of the second FPGA, and gemac_2 never: an Ethernet client of the first FPGA is configured, counted and cleared in the other FPGA, and one of the second through what malloc left. The comment at ipglb_adapter.c:644 says: "This function reads the statistics and alarms of an ETHERNET port." |
| `LineUsesItsOwn` | `RegisterMap`: clients 0, 8, 15 and the lines | ipglb_adapter.c:304 | line_port_mmap subtracts LN_INDEX_OFFSET, 2, from the index and compares the 14 or 15 it gets with LN_INDEX_START and LN_INDEX_END, 16 and 17: neither branch is ever taken, and all registers of both lines are what malloc left. The comment at ipglb_adapter.c:296 says: "This functions maps a port's registers to a line's registers". |
| `LofRecovers` | `RegisterMap`: clients 0, 8, 15 and the lines | main.c:6725 | task_55 forces the receiver through odtu_ctrl_reg_1 for every client, that of the first FPGA also when the client is in the second, which never recovers. The comment at main.c:6715 says: "To recover from LOF, we have to switch teh GXB to force LTR briefly". |
| `TransmitsWhenReady` | `RegisterMap`: clients 0, 8, 15 and the lines | main.c:2664 | The braces of run_boot_sequence put the end of the sequence into the loop over the clients: the line is enabled, and its receiver released, after the first client. The comment at main.c:2663 says: "all is ready, enable transmission on east and west GXBs". |
| `AllLinesAreOff` | `RegisterMap`: clients 0, 8, 15 and the lines | main.c:1291 | The loops that disable and enable the lines run while if_index < LN_INDEX_END, the index of the last line, and leave it out. The comment at main.c:1285 says: "Function to disable transmitters of all lines transceivers". |
| `LedShowsTheAlarms` | `CardAlarms`: one client | main.c:6763 | set_status_led is called only when an alarm changed, and its result is ignored; the alarms start as raised, so that an alarm present from the start is no change, and an exchange that is lost is never repeated: the LED keeps its old colour. The comment at main.c:6758 says: "Update status LED according to Alarm 1 and Alarm 2 states". |
| `AbsentShowsNone` | `CardAlarms`: one client | ipglb_transceiver.c:602 | Values of an absent module are set to the lowest there are, -5 degrees and -40 dBm, which are below the critical thresholds, and the card's alarm looks at them whether the module is there or not. The comment at ipglb_adapter.c:2573 says: "clear all alarms if SFP is absent". |
| `RemovedAlarmsAreOff` | `CardAlarms`: one client, four changes | ipglb_adapter.c:510 | CLEAR_STM_ALARMS keeps the eight low bits of a word that the protocols share, and the assignments of RS_TIM, MS_BIP and MS_REI are commented out: what OTU1 left there (SM_BIP, SM_IAE) raises the alarm until the module is pulled out. The comment at ipglb_adapter.c:522 says: "alarms removed in this project". |
| `CopyFits` | `Mailbox`: Sizes {1, 2, 3} | scheduler.c:590 | s_task_send_msg allocates sizeof(bytes_count), two bytes, for the data and copies bytes_count bytes to it. The comment at scheduler.c:562 says: "data bytes are copied inside this function". No task of this program sends a message. |
| `LineAlarmsAreShown` | `KursValues`: Ports {4, 16} | main.c:3431 | The index of the interface is the number of the parameter less ID_2_CL1_OTU_ALRMS, but the lines have the numbers behind client 4 and the clients 5 to 16 others (kurs_constants.h:158-176): line 1 is answered with the alarms of client 5, the clients 5 to 16 with what lies behind the array of interfaces. The rate tested would hide a line's alarms too, OTU2 is not OTU1; its colour has the same index (main.c:4213). The comment at main.c:2804 says: "Function that gets a fresh copy of a parameter value". |
| `OctetsAreItsOwn` | `KursValues`: Ports {7} | main.c:3282 | ID_8_CL_7_ETH_RX_OCTS is 0x0107019E and ID_8_CL_8_ETH_RX_OCTS 0x01070201, so that for the clients 8 to 16 the index is 105 to 113, behind the array of 18 interfaces. The comment at main.c:2804 says: "Function that gets a fresh copy of a parameter value". |
| `CopyIsFresh` | `KursValues`: Ports {0}, three rates | main.c:3438 | The alarm words of the protocols are one word (a union). task_10 stores the new rate at once, the word is written when task_55 next comes to the port, up to a second later; until then the bits of the last protocol are shown under the names of the new one, a frame check error of Gigabit Ethernet as OTU1's LOM. The comment at main.c:2804 says: "Function that gets a fresh copy of a parameter value". |
| `OnlyCopperIsSet` | `SfpData`: one failed read | ipg_sfp.c:203 | get_sfp_connector_value does not look at the result of sfp_read_data, which leaves 0 when the read fails, and 0 stands for an unknown connector; get_sfp_info (line 747) then takes the module for an electrical one and returns RET_SUCCESS. An optical module whose connector was not read once has its PHY registers set for SGMII and copper Ethernet (ipglb_adapter.c:2539) and its thresholds are not read, until it is plugged again. The comment at ipg_sfp.c:725 says of get_sfp_info: "@return \c RET_SUCCESS on success". |
| `LineCountsAreShown` | `PfcCounts`: Kinds {"line"} | main.c:3112 | The parameters of the OTU counters, LN_1 and LN_2 among them, are answered only if the rate of the port is PORT_RATE_OTU1, and zero otherwise; a line is OTU2. The comment at main.c:644 says: "Lines are fixed rates OTU2 and support PFC". |
| `LineReadsItsRegisters` | `PfcCounts`: Kinds {"line"} | main.c:892 | The base of a line's counters is entry index - LN_INDEX_OFFSET of a table of two; LN_INDEX_OFFSET is 2 (configs.h:93) and the lines are the interfaces 16 and 17, so that the entry is number 14 or 15 and the address whatever the stack holds there. The comment at main.c:644 says: "Lines are fixed rates OTU2 and support PFC". |

Two more have no definition: each reply of KURS_profile lists every section as changed
for ever (kurs_core.c:852, against the comment at 830), and `sprintf_s32` prints the
smallest number as -0 (kurs_helper.c:64).

## Assumptions and fairness

* *Interrupts do not nest and an action of an interrupt is atomic for the main
  loop.* So the UART interrupt and the alarm; in `UartTx` the alarm is split into
  its turns only to show each byte, and nothing else moves between them.
* *The main loop goes round and interrupts that are raised are taken*: weak fairness
  on the steps of the main loop and of the interrupts, in every module that has
  them. Strong fairness only where a step is enabled again and again, between
  ticks: the main loop of `PfcTimer` and `Transceiver` (ticks are a millisecond apart and a
  step takes microseconds), `Poll` of `KursLink` (the alarm comes every 15 ms) and
  `timer_kick`, which the main loop passes in every turn.
* *Environment*: users, the control unit, power failures and modules owe nothing:
  their actions have no fairness, except that the clients of a link send on
  (`DvtLink`, `KursLink`) or give up, without which no answer could be owed.
* *UartTx*: producers need never send.
* *BootCopier*: a sequential program goes on; power failures are bounded.
* *RemoteUpdate*: only the main loop is fair. The CU asks for the block the last
  reply named, repeats at will, gives up at will; the operator starts an upload
  on a quiet line. Time is a class (up to 3 s, up to 30 s, longer). The flash refuses
  to erase a sector or to write a block, and power fails, `MaxFaults` times; what was
  refused, and acknowledged, is remembered by the history `refused`. A block that
  is not erased keeps its content if it is the same and becomes garbage
  otherwise; a torn write or erase leaves the block it was at garbage.
* *Scheduler*: ticks arrive, the scan goes on, tasks return. A turn of the main
  loop takes at most `MaxLag` ticks, at most `MaxSwallowed` ticks are swallowed between
  two passes, and a period with two turns and these fits the width of
  the tick counter: true of 2^32 ms. A turn that finds no tick reads the counter twice,
  and a tick between the two reads is never seen (scheduler.c:159, 222). It takes a tick
  in those few instructions each time to keep the scheduler from a pass; were it to happen
  for ever no task would run, and `EveryTaskRuns` rests on the bound. Its tasks send one another nothing in this
  program; `Mailbox` models what a task may do with the interface all the same.
* *ArmLink*: the main loop goes on making requests (task_55), bytes arrive, the
  ARM answers, sooner or later, and time passes while the timer runs. Between two
  rounds of task_55 the bytes on the line arrive, for a round comes 55 ms after
  the other at the earliest and six bytes take less than one; `set_status_led`
  follows `get_fp_leds` without a pause. The exclusive or of a packet is taken to
  tell a whole packet from anything else.
* *KursLink*: the control unit gives up only when the unit is slow or has nothing
  left to serve; `Free` are the requests with a command that compares no checksum, and
  whether a handler likes the fields of a damaged one is open. *DvtLink*: packets are no longer than `Cap`; whether a byte is late
  is open, as the time between two bytes is.
* *Controls*: the reset value of RATE_SELECT is unknown; refusals because no module
  is plugged and the reset of counters are left out. *Thresholds*: two stand for
  twelve. *Als*: requests are atomic, since the alarm starts after the boot
  (main.c:683).
* *Preferences*, *LangPack*: one cell for each value or block, and an erase cut
  short leaves any part of it. A damaged block has any index and, as block 0, any number. *LldFlash*: three bits of the status byte; DQ2 and
  the poll counter of 2^32 are left out.
* *PfcCounts*: one port; the counters are one set of errors, each tagged with the
  rate and the reset it was counted under; the end of a period resets the hardware
  registers, which are external. Requests that race with a rate change are excepted.
* *KursValues*: five bits stand for the alarm word; the hardware changes between
  turns of task_55. *CardAlarms*: three bits.
* *Transceiver*: the polls of one interface are at least `PollTicks` apart, and the boot
  timer (1001 ticks) is shorter than two rounds over eighteen interfaces. *SfpData*:
  the end of a boot comes at any time, lost answers are not counted, only optical
  modules measure themselves; an exchange between two polls, which nobody can see,
  is excepted by a history.
* *HalAlarms*, *PfcTimer*: ticks and seconds have small ranges in place of 2^32; each
  assumption names the inequality that the real width satisfies. *KursNumbers*: a
  number of 32 bits is modelled with 16, and its limits with it.
* *I2cMaster*: controller and device are external; with `Stretches` a byte may take
  longer than TransDelay, and the driver does not notice. What the device makes of the
  rest of such a call is open: it may be in any mode and have a register written, and the
  bytes received may be any. *I2cMux*: a multiplexer keeps its channel over a restart;
  `MuxPassed` is what the callback may get for its multiplexer, in the run its own or
  that of the other bus. *ClockGen*: two of four outputs; these chips are taken not to
  hold the clock. *ClientClocks*: the registers of a port are one value; OTU1 for the
  clients 1, 3, 7 and 12 is excluded, as it writes the registers of others.
* *RegisterMap*: where a pointer is never assigned it is `unset`, and what lies there
  is not followed.
* *Configuration*: KURS_PROTOCOL on, APS_EN 0, 18 interfaces of which 16 and 17 are
  the lines.

## Proofs

All theorems are for every value of the constants that the named assumptions
allow; the bounds on uploads, failures and replies may be any number.

**`UartTxProofs`**, from `RingAssumption` (the size of the ring divides the range
of the counters and is smaller) and `UartAssumption`: `TypeCorrect` (slots that are
indexed exist, counters stay in their range), `RingIsConsistent`,
`NothingStranded`, `RepliesUnbroken` and `RefinesFifo`. None of the first three is
inductive alone: that a get or a put keeps `count = Used` needs both counters in
range and `Used <= NElem` (which is why the ring must be smaller than the range of
the counters), and `NoStrandedByte` needs `Used' = Used + 1` after a put. Their
conjunction `IInv` is.

`Contents` is a sequence read through two remainders, the mask of the counters and
the size of the ring, so that the refinement rests on arithmetic: a
wrap of a counter does not move its slot (`OffsetAcrossWrap`, where the divisibility
is used) and no two bytes of the queue share a slot (`SlotsDiffer`). From these a put
appends to `Contents` and leaves the rest alone, and a get takes its head
(`PutContents`, `GetContents`). `LineInv` follows what was sent and what is still
queued as one sequence: in the middle of a reply it ends in the part of the reply
already queued, at any other time it is unbroken.

**`BootCopierProofs`**, from `BootAssumption` (any set of headers, programs that are
sequences of records, any addresses): `PickMeetsCriteria` (the nested comparisons
compute the documented order), `TypeCorrect`, `PicksTheBest` and `EntersWhole`.
Type correctness needs `Choice`: the image being loaded is the one that
PickFlashImage picks from the flash as it is now, because the flash is replaced
only while the power is off; the other two rest on it. `EntersWhole` needs what
memory holds in the middle of the loop: the last record so far that covers an
address is there (`LastWins`), what is in memory is in the footprint of the picked
image (`NothingElse`, which speaks of the turns before the last power failure too),
and the application runs only after the last record (`AllCopied`).

**`RemoteUpdateProofs`**, from `RemoteUpdateAssumption` (an area of at least two
blocks not all of which are erased, any images, a valid factory header):

* `TypeCorrect`;
* `EveryBootIsSafe` - from `ValidIsWhole`, `WholeIsValid` (the header check passes
  exactly for a whole, sound image) and `Decision` (the copier takes the area
  exactly if it is not older). It needs no invariant: it holds of every content of
  the area;
* `AcknowledgedIsWritten` - the inductive invariant `UInv` says, by phase of the
  CU, which requests and replies can still be on the line and where the unit
  is. Its core is `SessionInv`: in an open session the unit is neither behind the
  CU nor behind any block named by a reply under way, what it went past is
  written and what is to come is still erased, but for the blocks the flash refused
  (`refused`, which only grows in a session). The rest makes a late HEXLOAD
  harmless (it can be pending only while the CU is at block 1), and a late block
  (only before the answer to FINISH). Steps that touch none of this are `Quiet`
  and are dealt with by one lemma; every other step has one of its own.

**`SchedulerProofs`**, from `SchedulerAssumption`: `TypeCorrect`, `CountsHold` and
`NobodyPassedOver`, for any number of tasks and of calls of the interface. The
assumption says that a period, two turns of the main loop and the ticks swallowed between
two passes fit the width of the tick counter (`p + 2 * MaxLag + MaxSwallowed <= Wrap`; the
code has 2^32 and milliseconds). With
less the difference that `RunTask` compares is not the time that passed, and
`CountsDoNotWrap` is false. `IInv` consists of

* `LagInv`: the clock is at most `MaxLag` ahead of the snapshot taken last;
* `ListInv`: the list is sorted by handle, which keeps handles apart, and who is still
  waiting for this pass is in it;
* `AgeOK`: what an active task has waited is less than its period and the lag, to which
  a turn and the ticks swallowed since the last pass come while it may have been due
  in it. This makes a difference modulo `Wrap` a duration;
* `ScanOK`: the scan has not passed a task that still waits. The code's table holds HIGH
  and NORMAL twice and LOW once, between them: the task waits for the first entry
  of its priority or, once its priority was set in this pass, for the last.

`ScanOK` cannot be kept for a task whose priority is set twice in the same pass: down
before the scan reaches it, then up again behind the scan, it is passed over both
times. The proof is what found this. The run makes one call a pass and never gets
there, so that `ServedInPass` and `CountsDoNotWrap` exclude it by the history `moves`, and
the theorems are about any number of calls.

**`ArmLinkProofs`**, from `ArmLinkAssumption` (at least two request numbers, and buffers
of `6 * (MaxHeld + 1)` bytes, which is what the late replies and the due one
come to): `TypeCorrect`, `CleanSucceeds`, `OwnAnswer` and `AcceptedIsWhole`, for any
number of faults, late replies and stops of the timer. The lemmas about the
receiver (`ReceiveStep`, `CleanupWriteStep`) speak of any state of it, as the
cleanup of the main loop can stop between any two assignments while the
interrupt stores bytes. The invariant is a conjunction:

* `RoomInv`: bytes stored, on the line and owed by the ARM, six for each answer, are at
  most `6 * (MaxHeld + 1)`: the interrupt never writes behind its buffer;
* `GenuineInv`: every byte stored is one of an answer, tagged with its request, or known
  to be damaged, so that a buffer that passes the checks is *one* answer (`WholeReply`);
* `ResetInv`: the receiver of a request that began in silence, after each of the six
  assignments of the cleanup;
* `QuietInv`: from then on only bytes of its own answer come, and they can fill one
  buffer, which nothing touches until it is read (`BufferInv`);
* `CleanInv`: without a fault it is the whole answer, with the ARM, on the line and in
  the receiver, or handed over (`UnderWay`).

**`KursLinkProofs`**, from `KursLinkAssumption`: `TypeCorrect`, `NextAnswered`,
`ActsOnce`, `MadeUpOfRemains` and `CounterStays`, for any length of packets, any buffer that
holds one, any set of requests whose command compares no checksum and any number of faults. `IInv` says that an end of packet changes the buffer and that
the one handed over is left alone until it is served (`BuffersInv`), what the alarm
works on (`ServingInv`), and that the line holds the rest of one packet (`LineInv`): an
undisturbed one leaves the receiver waiting for the next (`InOrder`), which is then
received from its first byte on, served and answered (`Followed`): what the alarm then
has is a whole request, so that nothing is made up (`MadeUpOfRemains`, the last part of
`ServingInv`). `ActsOnce` is the refinement of `LossySpec` by `OnTheWay`, the request
on the line and the one handed over: a byte that is lost or damaged, an overrun and a
reply that ends an earlier request each leave out a part of that queue (`LeaveOut`,
`Losing`). An earlier promise, that the set of open requests is served at most
once, is false as soon as there are more faults than packet numbers, as a number comes
round; the queue says what was meant.

`CounterStays` is about the counter of received bytes, which the code compares with
nothing. It stays in the buffer if `Cap + 1 >= Length * (MaxFaults + 1)`: with each
fault the receiver can miss one end of packet, and `RunInv` counts that budget
of bytes. The bound is exact: with a buffer smaller by one TLC finds the write behind it.
So the code is safe only as long as few ends in a row are lost, not for ever.

**`BoardProofs`**, about the group `MCBoard` and so from the assumptions of its six
components, for any values of the constants: `TypeCorrect`, `AlarmsTrue`,
`DevicesReached`, `LineReleased` and `PromisesKept`. The components share no variable,
and the invariant is one conjunct for each, kept by its own steps and untouched by those
of the others (`BoardNext`):

* `AlarmsInv`: task_55 reads the interfaces one at a time. What was read of one at which
  nothing changed since is what it shows (`ReadSince`; how long ago that is, `Since`, goes
  round with the scan), and after the last one the card has the sum of what was read
  (`SummedUp`);
* `MapInv`: the clients mapped so far have the table of `client_port_mmap` (`ClientsMapped`),
  and what was touched of a client is its own register in its own FPGA (`Serves`). The
  code tells the FPGAs' clients apart by comparing indices; `Fit` says of a loop's
  interfaces and fields that they belong together;
* `MasterInv`: between the bytes of a call none of which was late the device expects what
  comes next (`DeviceFits`), points at the byte to be transferred (`PointsAtNext`), has
  taken the bytes before it and none more (`MemSoFar`), and what was delivered are those
  registers (`BuffSoFar`). Every end of a call is then a step of `I2cCall` and every step
  before it a stutter, as the promise sees the registers as they were when the call began.
  Once a byte was late only what the driver itself knows is left (`PhaseFits`), and the
  end of the call is the step `Late` (`LateEnds`, `LateGoesOn`). The next call starts
  afresh, from whatever registers and bus this one left;
* the multiplexers keep their types, and nothing more;
* `GeneratorInv`: a register the configuration went past is written, or its write was
  refused for good (`WrittenOrExcused`);
* `ClocksInv`: the copy kept for a client fits its rate, but for client 2, whose copy
  client 3 writes over (`CopyFits`).

None of these theorems has a hypothesis beyond the named assumptions: they hold for any
buses and whatever the callback gets for its multiplexer, and for devices that hold the
clock. They say as much as the code keeps: `DevicesReached` nothing of the channel,
`PromisesKept` nothing of a call with a late byte.

**`SettingsProofs`**, about the group `MCSettings` and so from the assumptions of its
eight components (among them: a list of preferences in which a setting may stand more
than once, a block that holds it between two signatures, a signature that differs from an
erased cell in the bit the driver polls): `TypeCorrect`, `AsReported`, `FlashHolds` and
`OnlyWhatWasAsked`, for any values of the constants. They are the three invariants and
the action properties of the run. The invariant is again a conjunct for each component
(`SettingsNext`):

* `ControlsInv`: what task_10 carries out in steps is, for each control, done already or
  still asked for (`Done` names the steps between the two), unless a request came in
  between (`raced`): `ServiceInv`, `TxInv`, `LoopInv`, `RateInv`. That no transmitter is lit
  unasked is `LitInv`: the next state is lit only by a request or by the defaults;
* `ThresholdsInv`: a value of the control unit means mode USER (`SetByUser`), and a copy
  that will write over it began before it or came of a pull (`CopiedOver`);
* `AlsInv`, in which the mode reported is the one in force, needs no more than that;
* `CountersInv`: the counters exist exactly while the rate is capable, and while they
  are destroyed the rate and protocol that led there show none of them (`StructureInv`);
* `ProfileInv`: an alarm has one colour as long as the power has one for each severity
  (`PowerColoured`);
* `PreferencesInv`: the chip is busy only while the driver waits for it
  (`PrefControlInv`); the cells are those of one save, written from the front since the last
  erase (`PrefBlockInv`). As the second signature is written last, a block that was not
  written to its end is not valid (`ValidIsAll`). What was copied for a request, up to the
  setting the copy is at, is what was asked for or was changed since (`PrefSaveInv`);
* `LanguageInv`: the blocks sent so far are in memory unless a damaged one came between
  (`SentInv`), the flag stands for a whole pack or for one with damaged blocks
  (`PackInv`), and what is programmed is that pack from the front
  (`LangBlockInv`);
* `FlashInv`: what is left of the data is their end, and each piece lies on one page
  (`PieceFits`, from `OnePage`); the chip programs the piece of the driver (`ChipInv`); while it
  works its status toggles from read to read, and once it is ready either the first of the
  three reads showed no error or all three are of the data (`ReadInv`), so that lld_StatusGet takes no
  data for an error (`StatusMeans`); and an erased area holds the data up to the offset
  and is erased behind it (`MemInv`), whence the comparison of one byte a piece suffices.

`PrefBlockInv` and `LangBlockInv` are about the flash while it is not `disturbed`, by an
upload to the same chip or an erase that the power cut short, and `FlashIsWhole` says so
too: `AcceptedIsWritten` shows what happens otherwise.

The theorems of `KursLinkProofs` are about a component that the runs check through an
instance (`MCLinks`) and state the definitions of the component.

Only model-checked:

* the modules, `DvtLink`, `KursNumbers`, and the refinements of the queues of `Mailbox` and of
  `AlarmSet`. `Mailbox` and `HalAlarms` walk linked lists, and what a walk collects is a
  recursive function over its length, which needs induction over data;
* type correctness and the invariants of `MCModules` and `MCLinks`, of which `KursLink` is
  proved by itself;
* liveness (`LineGoesQuiet`, `BootsIfItCan`, `CompleteTakesEffect`, `EveryTaskRuns`,
  `Recovers`, `RequestsSettle`, `ModulesComeUp`, `KeepsAnswering`): fairness is ENABLED,
  out of the prover's reach.

What could be proved next is `CleanAnswer` of `DvtLink`, with the receiver lemmas of
`ArmLinkProofs`; the module declares no RECURSIVE operator.

## Not modelled

The definitions stand for about 9,700 lines, 13 per cent of the 73,000 in the repository
and some 40 per cent of those this program has of its own. What is left is:

* generated code and libraries: the hardware abstraction layer and drivers of the board
  support packages (of which the alarms and the flash write are modelled), register
  headers (`mmap.h`, `system.h`), tables of constants (`profile.h`,
  `kurs_sections.h`, `kurs_constants.h`), of which the models keep the rules where they
  break them (`KursValues`, `Controls`);
* parts of the flash vendor's driver without a caller (protection, CFI query,
  suspend and resume), and the code for chips of another family;
* code that the configuration compiles out: most commands of IPGLB protocol 2
  (KURS_PROTOCOL is defined), the optical protection (APS_EN is 0), alternatives of
  the boot copier;
* code nobody calls: semaphores and CPU usage of the scheduler, the logger,
  the SFP+ driver, OTU2 for clients, `ring_buffer_put_many`;
* straight lines of register writes without a decision: bring-up of the board, framers,
  hub and thermometer, MDIO, raw access to registers for the test bench;
* values a register alone decides: hundreds of cases of `KURS_userget_value` and
  `KURS_userset_value` that repeat one of the kinds in `KursValues`, `KursProfile` and
  `Controls` sixteen times over;
* computations without state: check sums (taken to tell a whole packet from a damaged
  one), the printing of numbers, the scaling of measurements, ratios of counters.

A part of these could be written down as constant functions, and would only repeat
the table it came from. Further work is in the proofs and in the composition of
`UartTx` with `KursLink`, for replies cut by a full ring.
