# A TLA+ model of the EPOS4 motor application and its EtherCAT master

The repository drives an EPOS4 motor controller over EtherCAT. `soem/`,
`oshw/` and `osal/` are the Simple Open EtherCAT Master; `test/EPOS4` is the
motor application with its remote control. This directory models the parts
whose correctness depends on the order of steps, on what is lost on the way and
on the arithmetic of addresses, checks them with TLC on small instances, and
proves the most important facts for all values of the constants with TLAPS.

Run a model with `tlc -config <instance>.cfg <MC module>.tla`, a proof with
`tlapm <name>_proof.tla`. `PROJECT.json` lists the runs, ties every definition to the
lines it models and every property to a mutant of the code it catches, and lists the
hazards.

## 1. The system

    GUI --TCP--> acyclic loop --mode,input--> real time thread --process data--+
                 (simpletest)                 (ecatthread)                     |
                 start-up,hook                ec_sync <-- clock of a slave     |
                                                                               v
    ecatcheck --states--> slave supervision        process data exchange (ethercatmain.c)
                                 |                                             |
    CoE FoE EoE SoE --> mailbox  |  EEPROM (SII)        process image map (ethercatconfig.c)
                          |      |    |                                        |
                          +------+----+---> datagram primitives (ethercatbase.c)
                                                     |
                                     frame layer (oshw/nicdrv.c) --> NIC(s) --> slaves

| Component | State it keeps | Operations | What makes it hard | What makes it correct |
|---|---|---|---|---|
| error list (`ethercatmain.c` 148-208) | ring `elist`, head, tail, `EcatError` | pusherror, poperror, iserror | overflow while entries wait, index wrap, a flag that stands for the ring | a FIFO that loses only its oldest entry; the flag never hides an entry; the drain loop ends |
| frame layer (`nicdrv.c`, `ethercatbase.c`) | `rxbufstat`, `rxbuf`, `txbuf`, `lastidx`, two mutexes | getindex, outframe, inframe, srconfirm, setbufstat | all threads poll one socket and sort each other's replies; losses, retries, late replies, failing sends | an index has one owner and is never lost; the answer belongs to the datagram; calls return |
| redundant port (`nicdrv.c` 312-600) | second socket, source addresses of the replies | outframe_red, waitinframe_red | a cable broken anywhere, two frames per datagram, each may be lost | every slave is served once and the counter says so |
| process image map (`ethercatconfig.c` 900-1500) | `FMMU`s, `LogAddr`, `BitPos`, segments, pointers | config_map_group, config_overlap_map_group | bits that share bytes, several sync managers, segment limits | the pointers meet the process data, nothing overlaps, segments cover the image |
| process data exchange (`ethercatmain.c` 1600-2010) | index stack, `IOmap` | send_processdata, receive_processdata | lost frames, slaves that do not answer, overlapped and blocked LRW | a full work counter proves the exchange; nothing outside the image is written |
| motor controller (`test/EPOS4`) | `mode`, `input`, `rxPDO`, `txPDO`, `rxBuffer`, `packetBuffer` | readPacket, decode, one cycle of the real time thread | two threads without a lock; a stream read as packets: reads end anywhere, bytes of earlier reads stay; faults of the drive | the last command is in force and the drive comes to follow it, and only commands |
| start-up (`main.cpp` 42-142, 173-284, `Macro.h`) | the drive's PDO objects, `rxPDO`, `dorun`, `inOP` | SetupParam and PdoMapping (the hook), simpletest up to its loop, start of ecatthread | 22 writes in an order the drive insists on, no result looked at; two threads that start together | the structs lie over the objects they name and the cycle runs |
| slave supervision (`ethercatmain.c` 721-897, `ethercatconfig.c` 1508-1621, `main.cpp` 474-555) | `slavelist[].state, configadr, islost`, `docheckstate` | readstate, writestate, statecheck, recover_slave, reconfig_slave, ecatcheck | slaves that lose power and come back, in part, at other positions; writes that are lost | every slave that is there comes back to OPERATIONAL as itself and exchanges its data |
| mailbox (`ethercatmain.c` 904-1102) | `mbx_cnt`, SM status and repeat bit of the slave | mbxempty, mbxsend, mbxreceive | lost reads, repeat requests, emergencies in between | every message of a slave is received once, in order |
| CoE, FoE, EoE, SoE (`ethercatcoe.c`, `foe.c`, `eoe.c`, `soe.c`) | local to a transfer; the variables of the EoE hook | SDO, PDO and object dictionary; IDNs; file read and write; frame send and receive, addresses, readfragment | answers to earlier requests, segments, toggles, busy, fragments that come during other calls | the data of a transfer that succeeds is the data of the other side; the hook gets whole frames; transfers end |
| EEPROM (`ethercatmain.c` 333-660, 1104-1610) | `esibuf`, `esimap`, `configadr`, `eep_8byte`, `eep_pdi` | readeeprom, writeeeprom, their FP and AP forms, siigetbyte, esidump, eeprom2master, eeprom2pdi | busy polling, not acknowledged commands, lost frames | what is cached and returned is the content |
| mapping discovery (`ethercatconfig.c` 606-899, `ethercatcoe.c` 660-990) | `SM`, `SMtype`, `Obits`, `Ibits` of each slave | find_mappings, readPDOmap(CA), readPDOassign(CA), readIDNmap, map_sii, map_sm | some twenty reads per slave of which any may fail, five ways to the same result | a slave is mapped as it is, or at least no larger |
| slave discovery (`ethercatconfig.c` 103-600) | `slavelist`, the header fields, SM0 | config_init, lookup_prev_sii | a pipeline of reads whose answers are told apart by their order; slaves that kept addresses of an earlier session | every slave has its own fields and mailbox and comes to PRE_OP |
| distributed clocks (`ethercatconfig.c` 430-460, `ethercatdc.c`, `main.cpp` 145-170, 318-343) | `parent`, `topology`, port times, `pdelay`; `DCtime`, `integral`, `toff` | search for the parent, configdc, dcsync0, dcsync01, ec_sync | trees of slaves guessed from port counts; time stamps of 32 bits; a control loop over lost frames | the parent is the parent, the delay is the delay of the cable, SYNC0 starts at a multiple of the cycle and the frames come to rest beside it |
| operating system layer, texts, slaveinfo, motor_test, rt_motor_test | - | - | - | sleeping, printing, fixed sequences |

How they interact. Everything that reaches a slave is one datagram through the
frame layer: `getindex`, fill the buffer, `srconfirm`, `setbufstat`. Process data
keeps several frames in the air and remembers their indices on a stack. The
mailbox, EEPROM and state operations are loops of single datagrams until an
answer or a timer. Before the map is found, `ecx_config_find_mappings` calls the hook of the motor
program, which writes the PDOs. The three threads of `main.cpp` share `mode` and `input`
(acyclic loop and real time thread), `wkc` and `inOP` (with `ecatcheck`), and
below that the frame layer with its buffers and locks.

## 2. Modules

| Module | Models | Abstracted |
|---|---|---|
| `LossyFifo` | what the error list promises: a bounded queue that drops its oldest entry | - |
| `ErrorRing` | the ring with wrapping indices, `EcatError`, the drain loop; implements `LossyFifo` | the record of an error is a model value |
| `NicDrv` | one confirmed transaction per thread, step by step: every access to `rxbufstat` is an action of its own, as nothing but the two mutexes orders them | frame contents: the transaction and attempt a frame was sent for |
| `RedundantPort` | one transaction over two ports on a line of slaves with a cable that may break and be repaired; the decision tree of `waitinframe_red` | competition for buffers (subject of `NicDrv`) |
| `FindMappings` | both loops of `config_find_mappings`: types, assignments and PDOs over CoE, the copy from a twin, the IDNs of servo drives, the PDOs of the EEPROM, the sync managers that are written; one read per action, which brings its own answer, that of an earlier one that came late, or none | the data of a PDO is its number of bits |
| `StartUp` | extends `FindMappings`: the hook's writes one by one, the structs laid over the image, SAFE_OP and OPERATIONAL, the start of `ecatthread` | where the bits lie in the image (`IoMap`); the cycle itself (`MotorApp`) |
| `IoMap` | the two loops over the slaves that create FMMUs, pointers, segments and work counter sums, one slave and direction per action | the register writes; sync managers are start and length |
| `ProcessData` | extends `IoMap`: the cycle of send, loss, answers of the slaves and receive over the finished map | a byte is where it came from and who had processed it, not its value |
| `MotorApp` | acyclic loop and TCP reader, real time thread from the exchange to the outputs, drive with its state machine, GUI | the stream is made of units: CR, LF, the header, two halves of a value; numbers are model values and hold no marker; values are of equal width and those of the sinusoidal mode are left out; what bytes that are no header read as is one of `Junk`; printing, measuring, UDP |
| `SlaveGuard` | `ecatcheck` with the functions it calls, one datagram per action; slaves that lose power and come back, at any place of any tree | the SM registers of a slave, its FMMUs and the objects of the hook are each written all or not; who controls the EEPROM, which recovery does not see |
| `Mailbox` | `mbxempty`, `mbxsend`, `mbxreceive` with repeat requests and emergencies, one datagram per action; the two mailboxes of the slave; the EoE hook, which takes fragments during any call | a poll that finds nothing changes nothing and is no action; one work counter value for "none" |
| `Coe`, `Soe`, `CoeObjects`, `Foe`, `Eoe` | extend one another over `Mailbox`, each with the slave's side: SDO read and write; IDN read and write; RxPDO, TxPDO and the object dictionary; file read and write; frames, addresses and the hook | data is a sequence of pieces; toggle bits and packet numbers are kept |
| `MailboxProtocols` | composes them: calls one after the other over the same mailbox | - |
| `DcTopology` | the search for the parent and `configdc`, against the wiring itself | the datagrams for one slave are one action |
| `ClockSync` | extends `DcTopology`: `dcsync0` and `dcsync01`, one datagram per action; the control loop of the motor program, one cycle per action, in nanoseconds | the cycle of SYNC0 begins where the call put it; the system time offset; the kernel's scheduler |
| `Eeprom` | reads and writes of the EEPROMs: control, command, busy polling, refused commands, retries, by station address or by place, one send per action; the single datagrams that set a slave up | a cell is a field or a word |
| `Sii` | extends `Eeprom`: the byte cache, the search for a section, the dump of the whole | of a section the first word |
| `SlaveDiscovery` | extends `Sii`: `config_init` from the count of the slaves to PRE_OP, then the accesses of a program | broadcasts to registers nobody here looks at |

Each `MC...` module only holds the instances, each `..._proof` module the proofs about the
module of that name (section 4). State variables carry the names of the C
variables; `pc`-like variables (`pc`, `stage`, `step`, `link`, `at`) say where a thread is.
The slaves, the cable, the EPOS4 drive and the GUI are external: they do what the
code presumes of them, and lose or delay what the code handles. They are marked
`external` in the map.

Where one module ends and the next begins: `NicDrv` shows that a datagram is answered
with its own answer or not at all, and the modules above it rely on that: a datagram is
answered or lost (`SlaveGuard`, `Mailbox`, `Eeprom`, `DcTopology`). `Mailbox` and `Coe` show what
an SDO read may return: the object, nothing, or the late answer to an earlier read of another
subindex of the same object, as `ecx_SDOread` compares the index only (ethercatcoe.c:173).
`FindMappings` lets each read be answered in these three ways. It
shows that the sync managers have room for the bits (`BitsHaveRoom`), which is what `IoMap`
presumes of its input, and `StartUp` that the image holds what `MotorApp` reads and writes.

### Correspondence, where it is not obvious

* `NicDrv.Step` is one thread's next step. `ecx_inframe` first looks into its
  own buffer (`PollBuffer`), then tries the lock and reads one frame
  (`RecvNothing`, `RecvFrame`), then sorts it (`SortOwn`, `SortOther`, `StoreOther`).
  `SortOther` and `StoreOther` are separate as the check "someone is waiting" and
  the store are separate statements that the waiter can run between.
* `Timely` (in `NicDrv`, `RedundantPort` and `Mailbox`) says whether a timer can
  run out while the reply is still on its way. With it, properties about normal
  operation hold; without it, instances show what late replies do.
* In `FindMappings` every SDO and SoE read is a step. `behind` holds answers that came after
  their read had given up; a later read of the same object (or, over SoE, of the same drive)
  may take one for its own, and the map is `mistaken` from then on. Complete Access goes
  through the buffer `PDOdesc`, which keeps what the last PDO left. `Tsize` is what
  both loops do with the sum, `EndCoe` falls back from Complete Access to single reads.
* `ProcessData` ends a loop of LRD or LRW when the remaining length is 0 (`Turns`: a last segment
  longer than what is left makes it negative and the loop goes on), that of LWR, which cuts its
  last segment, when none is left (`CutTurns`). It has the same index stack and the same four places where send
  pushes (LRD, LWR, LRW, and the first datagram with the clock). `busy` counts the
  frame indices that are in use.
* `MotorApp.StoreMode` and `StoreValue` are separate: in `main.cpp` 239-258 the mode
  is stored first and the value decoded after it, and the real time thread may
  run between. So may it between the two stores at the end of set zero (435-436), which
  `HandOver` makes one by one.
* `MotorApp.ReadPacket` reads any number of the units that wait. `rxBuffer` keeps what the
  read did not overwrite, the whole of it is searched for the first marker (tcpPacket.cpp:54-61),
  and without one the packet decoded before is decoded again (main.cpp:239). `whole` says whether
  the read returned exactly one packet, `cut` whether any read has ended inside of one.
* `SlaveGuard` runs the thread `ecatcheck` as a sequence of datagrams, each of which may be
  lost on its way to the slaves (the write does not happen) or back (it does, and the
  master does not know). The writes that
  clear and give the address and that of the FMMUs are not checked by the code (`WriteUnchecked`):
  `missed` remembers which kinds of them did not reach a slave they were for.
  The identity of a slave is four fields read one by one, of which one that is not answered reads 0.
* `Mailbox.Send` and `Receive` are the calls of a protocol function; it goes on when
  `link` is `"idle"` and reads `wkc` and `MbxIn`. `Repeat` and `Place` are the slave's: it answers a
  repeat request and moves its next message into the mailbox.
* `Mailbox` calls the hook where `mbxreceive` does: a fragment it takes ends that
  turn of the loop without an answer, so the fragments of a frame may be spread over calls.
* `SlaveDiscovery.Agenda` is the order of the accesses in `config_init` 316-601 as
  a sequence: the broadcasts that count the slaves and take back what they have kept, address, its confirmation and the size of a chunk, then the fields of
  the header in rounds, then SII, first mailbox and PRE_OP of each slave. `Skip`
  leaves out what the code leaves out for a slave without mailbox or one not counted.
* In `Eeprom`, `Listening` are the slaves a datagram reaches: those with the station
  address, or the one at the place. When several have one address, the last in the
  line writes its data into the frame last (`Speaker`).
* `StartUp` puts the hook's writes before the first step of `FindMappings`, as the hook is
  called before the assignment is read. `Prompt` says that `ecatthread` has begun
  before simpletest sets `dorun`, which nothing but time ensures in the code.
* `ClockSync`: the phase is where in its period the clock stands when the frame passes.
  `Turn` is one turn of `ecatthread`: the clock of the frame just received is taken or
  not (the frame was lost), `ec_sync` computes `toff`, which is in force a cycle later.
* In `Eeprom` a slave acts only while the master works on it (`Watched`). What it did
  earlier would be seen no sooner, so this loses no behaviour the master can tell apart.

## 3. Runs

Most runs take seconds, the largest (mappings, motor, slave_guard, slave_discovery: 0.6 to 1.5 million
states) two to three minutes.

| Run (module, instance) | Properties | Bound, and what it lets happen |
|---|---|---|
| error_ring (`MCErrorRing`) | TypeOK, PendingIsFlagged, RefinesFifo, DrainEnds | 4 slots, 2 errors: every phase of wrap, overflow and drain |
| nic_timely (`NicDrvTimely`) | OneOwner, NoIndexLost, AnswerIsMine | 3 threads, 3 buffers, 4 transactions of 2 attempts: every thread sorts frames of every other, the search meets used indices and wraps |
| nic_live (`NicDrvLive`) | CallReturns, LostInWindow | 2 threads, 2 transactions of 2 attempts, late replies and failing sends: an index really is lost, and only in one place |
| redundant_port (`RedundantPort`) | Serviced, WkcIsHonest | 4 slaves, a break at every place or nowhere, one change, 3 attempts: retransmission through the second port, twice |
| mappings (`FindMappings`) | MapIsSlaves, BitsHaveRoom, NothingInvented, StartsUp | every pair of 11 devices, the programmed drive alone and with another, 5 sync managers, two answers lost or late among all reads and writes: every fallback, each direction alone, the copy from a twin, every write of the hook lost |
| process_data (`ProcessData`) | PointerMeetsData, NoSharedBit, SegmentsCover, WkcProvesExchange, StaysInImage | 2 and 3 slaves, segments of 4 bytes: every cut of a segment, bits before and behind bytes; every frame may be lost, every slave may skip every frame |
| motor (`MotorApp`) | FollowsCommands, CommandInForce, ObeysLast | 2 commands of all seven modes, 2 values, and one trouble: a read that ends inside a packet, a lost frame or a fault. The second command arrives in every phase of the first, in one read with it, or over its remains in `rxBuffer` |
| slave_guard (`SlaveGuard`) | AddressIsOwn, HealthyLeftAlone, StateIsSlaves, Restored | 3 slaves, the third behind the first, two of them told apart by their alias only, one with a hook; 3 losses of power, of all at once too, and any one datagram lost, checked or not: a slave goes while another is being recovered, positions shift |
| mailbox (`Mailbox`) | Delivered, FailsForAReason, HandedWhole, CallReturns | 2 of 21 calls, two of them to another subindex of the object of the first, transfers of 1 to 3 frames, one trouble, one frame of the slave, with and without a hook: what one call leaves in the mailbox meets the next |
| mailbox_hole (`MailboxHole`) | violated: AllDelivered | one SDO transfer, a slave without repeat requests, one loss |
| distributed_clocks (`DistributedClocks`) | ParentIsReal, DelayIsReal, SyncStarts, Locks | all trees of up to 4 slaves with any clocks where the line does not split, all of 5 with clocks: every nesting of splits the ports allow; one loss; time runs through zero. One drive: six calls of dcsync, the program's then followed by its cycles from the phases 0, 1, 450000 and 450001 ns with -45, 0 and 20 ns of drift in a cycle |
| slave_discovery (`SlaveDiscovery`) | FoundIsOwn, ReachesPreOp, AnswersAreTrue, FlagIsControl, EveryCallReturns | 3 slaves, two of a kind, one without mailbox, one still in OPERATIONAL from an earlier session with its address, an error bit and its PDI in control of the EEPROM; any two troubles, a broadcast may end between two slaves; 2 sends per datagram; one access of the program, by address or by place, after the discovery |

What the bounds cut off: more slaves, threads or calls than these repeat the same pairwise
interactions, except in `RedundantPort` and `DcTopology`, where 4 and 5 slaves are needed for a
break or split with neighbours on both sides. The frame layer is proved for any
number. Numbers keep their width where it matters: the ring's bytes, the 32 bit times
(`Half`), the segments; SDO sizes and image addresses do not come near their limit.
`ClockSync` runs in the real units of the program: the loop comes to rest after some
1500 to 2200 cycles, and from half a period away in either direction, which is as far as a
phase can be. A run of lost frames begins only at phases that are multiples of `LossStep`.

Of the type invariants only that of the error ring is listed by a run. The others
(`TypeOK` of `DcTopology`, `SlaveDiscovery`, `FindMappings`, and `ProcessData!ExchangeTypeOK`)
hold of the same instances and can be added to any cfg; those of `NicDrv`, `RedundantPort`, `MotorApp`,
`SlaveGuard` and `MailboxProtocols` are proved in section 4.

Deadlock is checked, except for `slave_discovery`, whose system really stops: a slave
that disappears can leave the master in a loop (section 5). Models that end otherwise
stutter in an action that says so (`Done`, `Finished`, `Mapped`).

### Other instances

Each line shows one property violated when an assumption of a run is dropped: change the
run's cfg as stated and check the property alone.

| Run | Change | Violates | Shows |
|---|---|---|---|
| nic_timely | 2 threads, MAXBUF = 2, MaxTry = 1, Timely = FALSE | NoIndexLost | a reply is stored for a thread that has given up: the index is lost |
| nic_timely | 2 threads, MAXBUF = 2, SendFails = TRUE | OneOwner | `send()` fails and the buffer is released under its owner |
| nic_timely | 3 threads, MAXBUF = 2 | OneOwner | all buffers are in use: the search ends with one of them |
| nic_timely | 2 threads, MAXBUF = 2, MaxTry = 1, Timely = FALSE | AnswerIsMine | a late reply answers the next transaction |
| redundant_port | N = 3, Timely = FALSE | Serviced, WkcIsHonest | the timer runs out first: no frame, or what comes late is put together with another attempt |
| redundant_port | N = 3 | WkcSurvivesBreak | the cable breaks in flight |
| redundant_port | N = 3, MaxTry = 2, MaxChange = 0 | RetriesWhileTimeIsLeft | a work counter of 0 is not retried |
| mappings | Lines <- Emptied | MapIsSlaves | an empty assignment is filled with that of a twin |
| mappings | Lines <- HalfTypes | MapIsSlaves | the type of SM3 is missing: corrected without Complete Access, not with it |
| mappings | Lines <- Spare | UnusedIsOff | a sync manager reported as unused is switched on again |
| mappings | check NothingEverInvented | NothingEverInvented | a late 1C00:3 is taken for 1C00:4, or 1C00:3 of a slave whose types are one too low is lost and the correction is not made: inputs are mapped as outputs; over SoE the list of one telegram for that of the other |
| mappings | check CommandsLand | CommandsLand | a write of the hook is lost: the struct names other objects than the image holds |
| mappings | check NoCrash | NoCrash | the outputs are not mapped at all: `rxPDO` is NULL and written through |
| mappings | Prompt = FALSE | CycleRuns | `ecatthread` is late and clears `dorun` after it was set |
| process_data | Networks <- ThreeSyncManagers | PointerMeetsData | three separate sync managers of one direction |
| process_data | Networks <- MoreOutputs | StaysInImage | overlapped map, more outputs than inputs |
| process_data | Networks <- OverlapBlocked | WkcProvesExchange | the overlapped map with a slave that forbids LRW |
| process_data | Networks <- SplitBits, MaxSegment = 3 | CountsOnce | bits that cross a segment count twice |
| motor | Cmd <- StopAndCSV, MaxTrouble = 0 | AnyCommandInForce | two packets in one read |
| motor | Cmd <- StopAndZero, MaxTrouble = 0 | CommandOrZero | a stop that comes by itself is overwritten by the end of a set zero |
| motor | Cmd <- StopAndCSV, MaxTrouble = 0 | QuietWhenEnded | the GUI goes while the motor moves |
| motor | Cmd <- Positions, MaxTrouble = 0 | MovesAreCommanded | the mode is there before its position |
| motor | Cmd <- Positions | NothingTorn | a read ends inside a packet: the drive moves to a number put together from two packets |
| slave_guard | upstream <- Line | OwnAddresses, AlwaysLeftAlone | the write that clears the temporary address is lost: a slave that kept it gets the address of the next one as well, and is reconfigured for it |
| slave_guard | slavecount = 2, upstream <- Branches, MaxLoss = 0, MaxOff = 2 | StateIsAddressed, AlwaysRestored | all slaves lose their power: the states of slaves without address are stored as those of the configured ones, and nobody looks for them any more |
| slave_guard | slavecount = 1, PO2SOconfig = {1}, MaxLoss = 0, MaxOff = 1 | AlwaysRestored | the line of the motor program: its one EPOS4, switched off and on, is never brought back |
| slave_guard | slavecount = 2, MaxOff = 1 | RestoredAnyway | a write nobody checks is lost: the slave counts as recovered and has no address or no FMMUs |
| slave_guard | slavecount = 2, type <- Twins, MaxLoss = 0, MaxOff = 2 | AlwaysOwn, Restored | two slaves of one kind, the first stays away: the second gets its address |
| slave_guard | type <- Twins | HealthyLeftAlone | two slaves get one address, and the healthy one is reconfigured with the other |
| slave_guard | slavecount = 2, type <- Unnamed, MaxOff = 2 | AlwaysOwn, Restored | the read of an alias is lost and reads 0, which is that of a slave without one |
| slave_discovery | check EveryCallReturnsAnyway | EveryCallReturnsAnyway | a slave refuses a command and disappears |
| slave_discovery | check SectionsAreOwn | SectionsAreOwn | what was misread is copied to slaves of the same kind |
| slave_discovery | Kept <- Rearranged, MaxTrouble = 0 | FoundIsOwn | a slave further down still has the address that was just given: its chunk size is taken for that of the first |
| distributed_clocks | MaxSlaves = 4, Networks <- AllNetworks, MaxLoss = 0 | DelayIsReal | a split at a slave without a clock |
| distributed_clocks | MaxSlaves = 2, Networks <- ClockNetworks | NoWrongDelay | a read that is lost leaves an earlier time in use |
| distributed_clocks | SyncDelay = 1000000 | SyncStarts | the first pulse lies before the call has told the slave of it |
| distributed_clocks | check ActiveFires, MaxSlaves = 1 | ActiveFires | `DCactive` is set though a datagram of the call was lost |
| distributed_clocks | MaxSlaves = 3, Starts <- AcrossSign, MaxLoss = 0 | DelayIsReal | the time passes from positive to negative |
| mailbox | Jobs <- CoeJobs, MaxFrames = 0, MaxCalls = 1 | ReportedOnce | an emergency is read twice after a repeat request |
| mailbox | the same with SilentSpec, Timely = FALSE, MaxTrouble = 0 | CallReturns | a slave that stops answering: the segments of an SDO transfer are asked for for ever |
| mailbox | psize = 2 | HandedWhole | a frame that does not fit the hook's buffer is handed over cut off |
| mailbox | Jobs <- FoeJobs, MaxFrames = 0, MaxCalls = 1 | AllDelivered | BUSY ends a download with success |

Larger instances that hold, and are too large for a run each: nic_timely's constants with 3 threads,
2 buffers, 3 transactions of one attempt and Timely = FALSE (LostInWindow, 533 650 states);
motor with Cmd <- Positions, MaxCmd = 3 and Junk <- Headings (AppInv, 1 075 286 states); slave_guard on
a line (1 767 418 states), and with MaxLoss = 2, MaxOff = 2 (356 774).

### Fairness

* `ErrorRing`: the drain loop runs (`WF(poperror)`); nothing is assumed of pushes.
* `NicDrv`: a thread in a call takes its next step; a thread that polls again
  and again gets the lock in the end and finds a frame that stays there (SF on
  reception: the mutex is free between turns); the timer it looks at in every
  turn has expired in the end (SF on `Retry` or `GiveUp`).
* `MotorApp`: the real time thread is scheduled by its deadline, the acyclic loop
  wakes from its sleep of 10 ms. Nothing is assumed of the GUI, of losses or of faults.
* `SlaveGuard`: both threads run, and a slave that lost its power gets it back.
* `StartUp`: the program goes on (WF of its next step). As each of its two threads takes finitely
  many steps until the cycle runs, this is fairness to both.
* `ClockSync`: `ecatthread` goes on with its turns (WF of `Turn`). Losses are bounded: each run of
  lost frames ends, and then none is lost any more.
* `Mailbox`: the master runs; its timers run out (SF: they are looked at again and
  again); the slave serves its mailboxes (SF on `Place`: a repeat request may come in
  between). Losses are bounded, not fair.
* `SlaveDiscovery`: the master runs, each EEPROM comes to the end of a command.

## 4. Proofs

| Theorem | Says |
|---|---|
| `ErrorRing_proof!TypeCorrect, FlagCorrect, SignalCorrect` | the invariants of the ring for every ring size |
| `ErrorRing_proof!RingRefinesFifo` | every step of the ring is a push, a pop or a stutter of `LossyFifo` on the entries between tail and head |
| `NicDrv_proof!NicInvariant` | the inductive invariant of the frame layer for any number of threads, buffers, attempts and transactions |
| `NicDrv_proof!IndexIsOwnedOnce, AnswerIsOwn, IndicesAreKept` | its consequences |
| `NicDrv_proof!IndexLostOnlyInWindow` | `LostInWindow`, under no condition: late replies, failing sends and more threads than buffers included |
| `RedundantPort_proof!TypeCorrect` | types, on any line, however often the cable changes |
| `RedundantPort_proof!EverySlaveIsServiced, CounterIsHonest` | `Serviced` and `WkcIsHonest` for any line, any break, any number of attempts and losses |
| `MotorApp_proof!TypeCorrect, DriveFollowsCommands, LastCommandIsInForce` | types, `FollowsCommands` and `CommandInForce` for any commands, values, losses, faults and reads that end anywhere |
| `SlaveGuard_proof!TypeCorrect` | types, in any environment |
| `SlaveGuard_proof!EverySlaveKeepsItsAddress, BroadcastIsTrue` | `AddressIsOwn` and `StateIsSlaves` for any number of slaves of any kinds in any tree, losses of power and lost datagrams, unchecked writes included |
| `SlaveGuard_proof!HealthySlavesAreLeftAlone` | `HealthyLeftAlone` for the same, if no two slaves are alike |
| `MailboxProtocols_proof!TypeCorrect` | types, for any objects, files, frames, calls and troubles |
| `MailboxProtocols_proof!FramesAreWhole` | `HandedWhole` for frames of any length in any number of fragments |
| `ClockSync_proof!PulsesStartInTime` | `SyncStarts` for any cycles, shifts, clocks and travel times |
| `ClockSync_proof!EveryParentIsReal` | `ParentIsReal` for networks of any size and shape |
| `ProcessData_proof!MapInvariant, NoBitIsShared` | where the FMMUs lie at every step of the loops, and `NoSharedBit`, for any line of slaves with any mix of bits and bytes |
| `ProcessData_proof!ImageInvariant, SegmentsAreImage` | sizes, counters and segments along the loops, and `SegmentsCover`, for any line and any segment size |
| `ProcessData_proof!PointersMeetData` | `PointerMeetsData`: every pointer, bit by bit, for data broken up in up to two FMMUs |
| `ProcessData_proof!AnswersStayInImage` | `StaysInImage` for any number of frames, losses and cycles |
| `ProcessData_proof!WorkCounterProves, ExchangeProved` | `CountsOnce` and `WkcProvesExchange` for any number of slaves and frames, whichever of them are lost or do not answer |
| `ProcessData_proof!AlignedExchange` | the same for byte oriented slaves, where it is proved and not assumed that no slave is cut in two by a frame limit |

Conditions. Some theorems need more of the constants than the modules assume. Each condition but
`Aligned` holds in the run that checks the property (some of its networks are aligned, with outputs
and inputs in several frames, and others have bits), and section 3 has an instance for each part that
shows the property violated without it.

| Condition | Where | Why |
|---|---|---|
| `NicDrv_proof!Env`: no more threads than buffers, timely replies, sends do not fail | `NicDrv_proof`, all but `IndexLostOnlyInWindow` | the search takes a used buffer otherwise; a late reply is matched by its index; a failed send releases the index |
| `Timely` | `EverySlaveIsServiced, CounterIsHonest` | a timer must not run out while a frame still travels |
| `Distinct`: the identity of no slave is that of another, or differs from it only in fields that are 0 in the other | `HealthySlavesAreLeftAlone` | a slave is told from others by its identity only |
| `HookHasRoom`: the hook's buffer holds every frame | `FramesAreWhole` | `ecx_EOEreadfragment` hands over what it has when the last fragment does not fit |
| `PulseIsAhead`: SyncDelay and shift together exceed four frame timeouts | `PulsesStartInTime` | four datagrams go between reading the clock and starting SYNC0 ("here 100ms") |
| `OrderedNetworks`: slaves are numbered in the order in which the datagram reaches them, and no two are plugged into one port | `EveryParentIsReal` | that is how EtherCAT addresses them by place; the search has nothing else to go by |
| `RealNetworks`: the sync managers of a slave have room for its bits | `ProcessData_proof`, all | what `FindMappings` shows of them (`BitsHaveRoom`) |
| `SlavesFit`: the data of one slave and direction fit in a frame, with a byte to spare | the theorems on segments and exchange | a segment is closed when the next slave does not fit, never within a slave |
| `TwoRunNetworks`: the sync managers of a direction ascend, with at most one gap | `PointersMeetData, ExchangeProved, AlignedExchange` | the length of a third FMMU is wrong (`ThreeSyncManagers`) |
| `SmallImage`: twice the image fits in MAXIOSEGMENTS - 1 full segments | the theorems on segments and exchange | the code does not look at the limit of 64 segments; as two segments that follow each other are longer than one, this is enough: some 46 000 bytes, and the program's `IOmap` has 4096 |
| `InputsReachOutputs`: an overlapped map has at least as many inputs as outputs | `AnswersStayInImage` | the answer is stored behind the outputs whatever its length (`MoreOutputs`) |
| `Exchangeable`: `SmallImage`; no slave has one direction in two datagrams; no slave of an overlapped map forbids LRW | `WorkCounterProves, ExchangeProved` | a slave with bits on both sides of a frame limit counts twice (`SplitBits`); LRD and LWR of an overlapped map read inputs at the wrong address (`OverlapBlocked`) |
| `Aligned`: each direction of a slave has no bits or more than seven, or the map overlaps | `AlignedExchange` | only bit oriented slaves share a byte, and so can lie on both sides of a frame limit (`SplitBits`); the EPOS4 of these programs exchanges whole bytes |

Error ring. The invariant that is inductive is `TypeOK` with `PendingIsSignalled`:
a slot's mark must be known before the index that reaches it wraps. For the refinement
the entries between tail and head are a sequence of length `(head - tail) mod
MAXELIST`; one lemma each says what advancing head, advancing tail, or both does to it.

Frame layer. `NicInv` joins: who may hold which lock (`LockInv`); what the
search has established while it runs (`ScanInv`); for each thread, which status its
buffer can have at each place (`StatusOk`) and what the buffers then contain
(`ContentOk`); that every frame on the wire belongs to a transaction whose owner still
holds that index (`FrameInv`). The last is what makes `AnswerIsMine` inductive: a reply
is matched by its index alone, so one must know that no older frame with that index is
still travelling.

`LostInWindow` needs none of this: a step that leaves every owner its index, and marks only buffers
that have an owner, loses no index (`OwnersKept`). All steps but one are of this kind.

Redundant port. `RedInv` follows the datagram and the dummy through an attempt over a cable that
has not changed: where each comes back for the given break (`ToPrim`, `ToSec`), what each socket
can hold (`Awaited`), that a resend only happens with the first half of the datagram in hand
(`HalfDone`), and which slaves have served it by then (`ServedNear`, `ServedFar`). The two frames
are put together right because the half in the tx buffer ends where the rest begins. Once the
cable changes `RedInv` says nothing more, like the properties.

Motor application. A value is in up to six places between the GUI and the drive: socket,
`rxBuffer`, packet, `input`, `rxPDO` and the drive. As long as no read ends inside a packet (`cut`),
`AppInv` says of each that what is there was sent for the mode it is used in (`WholePackets`,
`PacketIsSent`, `ValuesAreSent`); the two stores of the acyclic loop do no harm to that, as the value
of each mode has a variable of its own. `CommandInForce` needs no such condition for what came
before: a read that returned just the last packet (`whole`) puts it at the front of `rxBuffer`, so
whatever else is left there its marker is the first, and `OnItsWay` follows it to `mode` and `input`.

Supervision. `AddressIsOwn` is inductive only with `TempIsOne`: at most one slave has the temporary
address, and when it is about to get its own its type has been compared. `BeliefHolds` is what
makes acting on old states harmless: a slave whose stored state is below OPERATIONAL and whose turn
is still to come cannot have got to OPERATIONAL since, as only this loop takes it there. Both hold until
the write that clears the temporary address misses a slave (`missed`), and are not claimed any more
then: an instance of section 3 shows what follows. That slaves stand behind one another does no
harm: one that is cut off with the temporary address is met by that write when it is back.

Mailbox. `FragmentInv` says that every EoE message in the slave, on its way or received is the
fragment of a frame as the slave cut it (`Genuine`), and that what `ecx_EOErecv` and the hook hold
are the first fragments of one frame (`Received`, `Hooks`). That a fragment with the right number
and offset continues the frame is the lemma `FragmentJoins`, on sequences of any length. The proof has a
lemma for each action of master and slave; those of CoE, FoE and SoE show the types, and that none
of them touches what the hook holds.

Image. The code computes with sums over slaves, sync managers and segments, and all of them are
folds or recursive functions here. The library's induction theorems cannot be used (they take an
operator), so the proofs use that the order of the natural numbers is well founded, which speaks
of sets, and lemmas that unroll a fold into the sequence of its partial results (`TotalIsSum`).
`MapInv` is what the two loops over the slaves keep: each FMMU lies below the bit that is given
out next, so that those of the next slave lie behind it, and no two share a bit. `GroupInv` adds
where the outputs end and that the counters are the sums over the slaves that were mapped. For
the segments one needs that the index into `IOsegment` never passes its limit: `SegmentsOK` has
`Len(closed) * MaxSegment <= Total(closed) + LogAddr`, as a segment and what opened the next one
are longer than one frame.

Pointers. `PointInv` says of each direction of a slave that exactly one logical bit of its FMMUs
leads to each of its data bits: the one as far behind the first bit of the first FMMU. Inside
one action the code runs through the sync managers; `Pointing` is what one turn of that loop
keeps (`Tied`: the bits mapped so far are the first bits of the data and lie one behind the
other, the next FMMU begins at the first bit that is not mapped yet).

Exchange. `SentInv` says that the frames in the air are those that the finished map cuts the
image into. These are shown to be apart and to cover the image (`Straight`, `Serving`, from
`InputsStart` and the lemma `CutFront` on the segments behind a given byte). `WkcInv` then knows
the counter: one for each slave in a set R whose inputs came back, two for each in a set W that
took outputs, whatever frames were lost, R and W being subsets of the slaves that have inputs
and outputs (`Accounted`). The number expected is reached only when both sets are all. That
requires every slave to count once, so that no frame limit may cut one in two (`Unsplit`). For byte
oriented slaves this follows from the map: a segment is closed at a byte that all slaves before are
below and all slaves after it are not (`UncutInv`), and the datagrams, the ones cut short for
LRD and LWR too, meet at such bytes only (`OnePart`).

Parents. `ParentInv` says that topology and parent of every slave looked at so far are true, if
no datagram was lost. The search counts backwards from slave i: each slave adds one less than
the number of slaves plugged into it. So the count at s is the number of slaves plugged into any
of s .. i - 1, less i - s (`SumsAre`). At the parent it is not negative, as the slaves behind it
up to i are all plugged into these; at any slave s behind the parent it is negative, as only
those between s and i are (`BelowParent`). Here the numbering matters: in any other order the
search finds another slave.

Clocks. `StartInv` says what a call of `dcsync` has written so far, and that the clock has gone on by
at most one frame timeout for each datagram since it was read; `FirstTrigger` is a multiple of the
cycle by a lemma on division.

Only model-checked, and why:

* Liveness under fairness and all that needs ENABLED is out of the prover's reach: `DrainEnds`,
  `CallReturns` of the frame layer and of the mailbox, `ObeysLast`, `Restored`, `Locks`, `EveryCallReturns`, `StartsUp`.
* `DelayIsReal`: the delays add up over two walks, from a slave to its parent and through the slaves
  between them, over times that wrap around at 32 bits, with consumed ports as the memory of what was
  walked. The proof of the parents shows the way, but the walk of the times is a longer one.
* `MapIsSlaves`, `BitsHaveRoom` and `NothingInvented` of `FindMappings`: five ways to read the same
  sums, each with its own loops over data that may fail anywhere. `BitsHaveRoom` is the premise
  `RealNetworks` of the proofs about the image.
* `FoundIsOwn`, `ReachesPreOp`, `AnswersAreTrue` and `FlagIsControl` of `SlaveDiscovery`: the agenda is
  a sequence made of all that the discovery does, and an invariant has to know how far it got.
* `Delivered` and `FailsForAReason`: they say of every protocol how far it is when its call ends, and
  need an invariant for each of them like the one of the fragments (section 7).

## 5. Findings

What the instances show where a comment or document of the repository says otherwise, or
where the code would surprise its reader. One is a run of its own: a segment of an SDO upload
that is not received leaves a hole, and the call returns success
(ethercatcoe.c:213, `mailbox_hole`). The instances of section 3 show the others:

* Frame layer: an index is released under its owner when `send()` fails
  (nicdrv.c:288); a reply may be stored for a thread that has just given up (nicdrv.c:431),
  and then the index is lost; a late reply is taken for the answer to the next user of its
  index (nicdrv.c:416).
* Redundant port: a work counter of 0 is not retried although the comment says so
  (nicdrv.c:596); a cable that breaks in flight can make the dummy read the result
  (nicdrv.c:529).
* Mapping discovery: a read that fails makes the map smaller without an error
  (ethercatcoe.c:710), and the late answer to another subindex, or the list of IDNs of the other telegram,
  is taken for its own (ethercatcoe.c:175), so that inputs are mapped as outputs or a count as bits; so they are when the read is lost that shows the types of a slave
  to be one too low (ethercatcoe.c:839); an unused sync manager is switched off by ethercatcoe.c:861 and on again
  by ethercatconfig.c:782 if the EEPROM gives it a length; missing types are corrected
  without Complete Access only (ethercatcoe.c:851); the copy of "SII mapping"
  (ethercatconfig.c:606) also copies a CoE mapping.
* Image and exchange: a slave whose data of one direction need two FMMUs with more than one
  sync manager gets a wrong length for the second (ethercatconfig.c:1124); an
  overlapped map with more outputs than inputs is written behind its end
  (ethercatmain.c:1836), and with a slave that forbids LRW reads inputs at the wrong address
  (ethercatmain.c:1724); a slave whose bits cross a segment limit counts twice
  (ethercatconfig.c:1222).
* Start-up: none of the 22 writes of the hook is looked at (main.cpp:71); with one lost the drive
  may exchange other objects than RX_PDO and TX_PDO name, or none, and then `rxPDO` is NULL.
  `ecatthread` clears `dorun` when it begins (main.cpp:321); if it is late, simpletest waits
  for a cycle that never comes.
* Motor controller: a stop during the end of set zero is lost (main.cpp:436), the later of two
  commands read at once is dropped (tcpPacket.cpp:56), a read that ends inside a packet makes a
  command of the old and the new bytes in `rxBuffer` (tcpPacket.cpp:54-61), a position command can
  first send the motor to the position before (main.cpp:241), and a GUI that disconnects leaves the
  motor moving (tcpPacket.cpp:50).
* Supervision: of two slaves of one type the wrong one is given an address
  (ethercatconfig.c:1541); a lost write that is not checked leaves a slave without address or
  FMMU and "recovered" (ethercatconfig.c:1612), and a lost clear leaves the temporary address with a
  slave that then answers for another (1529); the broadcast stores states of slaves that have
  no address (ethercatmain.c:777). So the one EPOS4 of the motor program, switched off and on, is not
  brought back: the broadcast says INIT, the reconfiguration fails at an address nobody has, and
  `islost` is cleared as the state is not 0.
* Protocols: an emergency may be reported twice (ethercatmain.c:1047), BUSY ends a file
  download with success (ethercatfoe.c:306), a silent slave keeps a segmented transfer
  for ever (ethercatcoe.c:213). The mailbox counter is called a session handle
  (ethercatcoe.c:142) but no answer is compared with it. SDOread compares the index and not
  the subindex (ethercatcoe.c:173), SoEread the drive and the elements but not the IDN; TxPDO, the object
  descriptions and EOErecv compare nothing else either: they take a late answer to
  another request. SDOread compares the size that is announced with its buffer, but copies the
  segments that come without a look at it (ethercatcoe.c:252). The fragments of SoEread and of an object list carry a number nobody
  looks at, so a lost one leaves a hole. ecx_readOE returns what its last sub-index
  returned (ethercatcoe.c:1306). SoEwrite announces one fragment too many when the data fill
  the last one (ethercatsoe.c:239). `Delivered` excuses exactly these cases (`Excused`).
* EoE: EOEgetIp reports an error for a DNS name that is not padded. With the hook, a repeat
  request may bring a fragment twice, and then a frame of three fragments or more is dropped and
  one of a single fragment handed over twice; a frame whose last fragment does not
  fit the buffer is handed over cut off. What is put together is never mixed (`HandedWhole`).
* EEPROM: a slave that refuses a command and disappears keeps the master in a loop
  (ethercatmain.c:1490); a failed read is cached and copied (ethercatmain.c:361).
* Slave discovery: addresses are given one after the other, and a slave is asked by its
  address before the slaves behind it have theirs (ethercatconfig.c:347). When slaves were
  rearranged since the last session, one behind may still have that address and answer.
* Clocks: a lost read of a port time leaves the time before (ethercatdc.c:296), and the change of
  sign of the time confuses the entry port (ethercatdc.c:338). `ecx_dcsync01` divides by CyclTime0
  (ethercatdc.c:103) before it asks whether it is 0 (ethercatdc.c:124); the model only calls it
  with another value. `DCactive` says that SYNC0 was asked for, not that it fires.
  The loop of the motor program settles in a limit cycle of less than 100 ns, and as it is
  called without a shift the frames come to rest at the very instant of SYNC0
  (main.cpp:168). `Locks` is checked after calls that lost nothing.

## 6. Not modelled

* The broadcasts of `ecx_set_slaves_to_default` to registers no other part of the models looks at
  (counters, clocks, interrupts, FMMUs), and the details of the EEPROM that are only stored
  (names, currents, flags).
* `ecx_config_from_table`: a table of known devices that no program here is built with.
* Scheduling by deadline and measured times: they belong to the kernel. `ClockSync` uses that a
  thread wakes up the deadline it asked for after it woke up last. The offset of the
  system time (DCSYSOFFSET) is a store nobody reads again.
* Two threads in the mailbox of one slave: no program here does that.
* UDP logging to the GUI, texts and printing: output only.
* The other test programs: the same threads without commands, or printing. Of slaveinfo
  only the drain loop is modelled (`ErrorRing`).
* The operating system layer: timers are steps that may come at any moment after they were
  started. The `ec_` functions around the `ecx_` ones pass their arguments on.

## 7. Plan

Done, in this order: the error ring with its proofs and abstract FIFO; the frame layer with
its proof; the redundant port; image and exchange; the motor application; supervision; the
mailbox with CoE, FoE and EoE; clocks; EEPROM and slave discovery; mapping discovery; the rest of
the mailbox protocols (SoE, object dictionary, PDOs, EoE addresses and hook); servo drives
in the mapping; the start of SYNC0 and the loop that follows it; start-up of the motor program;
count, reset, addresses, first mailbox and PRE_OP in slave discovery, EEPROMs by place, the dump.

The proofs of redundant port, motor application, supervision, mailbox and SYNC0; of the process
image, its pointers and its exchange; of the parents.

To come:

1. `Delivered` and `FailsForAReason`, one protocol after the other, with the lemmas on pieces that
   the proof of the mailbox has.
2. `TypeOK` of the EEPROM interface and `FlagIsControl`, if the agenda can be kept out of them.
3. `BitsHaveRoom` of `FindMappings`, which would make `RealNetworks` a theorem, with the lemmas on folds
   that the proof of the image has.
4. `DelayIsReal`, from the parents on.
5. An abstract mailbox, a FIFO of messages between slave and master, with `Mailbox`
   shown to implement it in the runs.
