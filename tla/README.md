# GAPS TOF firmware: a TLA+ model

This directory holds TLA+ modules that model the firmware of the GAPS
time-of-flight readout, the TLC configurations that check them, and theorems
about them with proofs for the TLA+ proof system (tlapm 1.4.5).
The reference is the VHDL, Verilog and C under `src/`; every definition of a
module names its lines in `PROJECT.json` ("map").

1. [The system](#1-the-system)
2. [Modules](#2-modules)
3. [Runs: what each one shows](#3-runs)
4. [Bounds](#4-bounds)
5. [Fairness](#5-fairness)
6. [Disagreements between code and comments](#6-disagreements-between-code-and-comments)
7. [What is proved](#7-what-is-proved)
8. [What is only model-checked, and what is not modelled](#8-what-is-only-model-checked-and-what-is-not-modelled)
9. [Plan](#9-plan)

## 1. The system

Two kinds of boards do the work. The **readout board** (RB, up to 50 of them)
samples eight detector channels and one calibration channel with a DRS4 chip and
writes event packets into the RAM of its processor. The **master trigger board**
(MTB) decides from the local trigger boards' hits that there is an event and
tells the readout boards over a serial link, with the event's number and the
mask of the channels to read.

```
 MTB:  lt_rx -> trigger -> event_counter -> rb_tx ==serial==> mt_rx  :RB
                   |            \-> mtb_daq                     | mask, event count
                  tiu <-> tracker                               v
                                            drs.sv <-start-- daq_board_top
                                              | samples         | event queue
                                              v                 v
                                           drs FIFO ------>  daq.vhd --> DAQ FIFO --> dma_controller --> RAM
                                              ^_____ soft_reset.vhd ______^ (waits for all, clears the FIFOs)
```

| component | state it keeps | operations | interacts with | hard part | correct means |
|---|---|---|---|---|---|
| packet formatter `drs/src/daq.vhd` | FSM of 25 states, word and channel counters, latched event, packet size pipeline, payload timeout, two CRC registers | accept a trigger, fragment, dropped or debug packet; send it word by word; pad; one idle burst | event queue (acknowledge), DRS FIFO (read enable, valid), DAQ FIFO | the LEN word is computed before the payload exists; DRS data may never come; the CRC registers are reset by state | LEN is the number of words; channels are those of the mask, in order; CRCs cover what they should; back to idle always |
| DMA controller `dma/src/dma_controller.vhd` | data FSM, address and buffer registers, switch request/response, clear mode, occupancies | move a burst, switch buffers (full, or toggled), clear memory, reset | DAQ FIFO, vendor datamover, software (occupancy, toggle, clear) | several clocked processes each act on registers another one changes at the same edge; three reasons to switch buffers | bursts are whole, contiguous and inside a buffer; occupancy is what was written |
| DRS4 controller `drs/src/drs.sv` | readout FSM of 18 states, three shared counters, channel lookups, mode registers | start, trigger and read out, reinit, configure, standby, ROI mode | trigger, mask and mode registers, DRS FIFO | states share counters and leave on equality; lookups are registered and lag; registers change at any clock | a readout writes every sample of every enabled channel in order; no counter runs past its limit; rest is reached |
| event path `drs/src/daq_board_top.vhd` | start-of-readout and busy latches, event queue, one-at-a-time reader, FIFO resets | start the DRS, queue an event, hand it to the formatter | everything else on the RB | an event and its samples travel different ways and meet only by order; the event and its busy bit are decided at different clocks | a packet has its own samples; every queued event is sent |
| link receiver `drs/src/mt_rx.vhd` | bit counter, mask, event count, CRC | receive a packet | event path | the mask is used before the packet is complete | see event path |
| soft reset `drs/src/soft_reset.vhd` | FSM, flush counter, watchdog | wait for DRS, DAQ, DMA; clear the FIFOs | all of the RB | may wait for a part that is never idle | it always finishes |
| trigger multiplexer `drs/src/trigger_mux.vhd` | pulse stretchers | or of the trigger sources | DRS, formatter | - | - |
| trigger `trigger/src/trg`, event counter | pretrigger, fixed dead time, integration window, count | decide, number | dead time and tracker (vetoes), transmitter | what vetoes a trigger is known only some clocks after the trigger before | no trigger in the window or dead time of another; one number per event |
| transmitter `rb_tx`, dead time | a serialiser and a dead-time counter per RB, at a quarter of the clock | send a packet | RB | a trigger during a packet is ignored | every trigger has a packet |
| tracker interface `tiu/tiu.vhd` | handshake FSM, glitch filter, timeout, serialiser | hold the trigger, await the answer, send the number | tracker | the answer is early, late, a glitch or missing | held until answered or timed out; never stuck |
| MTB packet formatter `infra/mtb_daq.vhd` | packet FSM | record the trigger | Ethernet | as the RB's | not modelled |
| boot code `ps7_init.c` (generated C that the RB's processor runs first) | position in its tables; the registers it sets | ps7_init, ps7_post_config, ps7_debug | PLLs, DDR controller, pads, fabric | polls of bits that may be stale or never come; a call that fails half way and is repeated | nothing runs on an unlocked PLL; what is released waits for what it needs; success means up; it returns |

The list of all components with their status is in `PROJECT.json`
("components"), the list of what is hard to test in this code, with the line
where it bites and the property that covers it, under "hazards".

## 2. Modules

| module | models | state and steps |
|---|---|---|
| `Daq` | `drs/src/daq.vhd`, `common/src/crc32.vhd` | The registers of the entity. A step is one clock edge; the states that do the same thing (send a word and go on; send several words) are one action each, PAYLOAD has one action per branch. The size pipeline and the CRC registers take their step beside the FSM (`Beside`). A word has no value: the packet is the number of words sent, the list of channel headers and the LEN word; a CRC is the number of words it covers. `rst` is the register reset, possible at every edge. |
| `Dma` | `dma/src/dma_controller.vhd` | A step is one edge of `clk_axi` in one FSM state, with the other processes beside it, or a word written into the FIFO by the DAQ side (another clock domain: between any two edges). The AXI datamover is external: it is ready for a command or not (`cmd_tready` of `Idle`), takes one, posts its address some edges later and takes the words of the stream. The writer's packets have any length: those with payload are whole bursts, those without a word less (section 6), and what follows them begins inside a burst. Addresses are bytes counted from the first. `Reset` is the stretched reset from first to last edge. |
| `Drs` | `drs/src/drs.sv` | A step is one clock edge in one state with one register write pulse and one trigger value; or the change of a mode register or of the mask between edges. A word is (channel, sample). The chip's pins are left out but for domino enable and write. |
| `SoftReset` | `drs/src/soft_reset.vhd` | Registers and one action per state; `in` is the record of the input ports. It is composed, never checked alone. |
| `EventPath` | the MTB trigger mode of `drs/src/daq_board_top.vhd`, with `SoftReset` | A step (`Tick`) is one clock edge of all parts at once. The receiver, the DRS and the formatter are reduced to what the others see of them: busy or not, for how long (any of a set of durations), and the samples of one readout are one entry of the DRS FIFO that carries the number of its event. Software writes registers at any edge or, with `CAREFUL`, only when nothing is on its way. |
| `Formatter` | what `daq.vhd` promises its neighbours | Four variables: the phase (ready, header, payload, trailer, gap), the acknowledge, the event, the words of the gap. `Daq` implements it with the refinement mapping at its end (`ImplementsFormatter`). |
| `Ps7Ops`, `Ps7Silicon1`, `2`, `3` | `ps7_init.h`, the 21 tables of `ps7_init.c` | No state: the instructions as records and the tables as sequences of them, one module per silicon version. A masked write names the fields that say what it is for; a register that only tunes is listed with none. |
| `Ps7Init` | `ps7_config`, `ps7_init`, `ps7_post_config`, `ps7_debug` | A step is one instruction, one turn of a poll, or a step of the hardware (external): a PLL locks, the calibration ends, the DDR controller starts. `mem` holds the fields that somebody reads. |
| `Tiu` | `tiu/tiu.vhd`, `tiu/tiu_tx.vhd` | Registers and one action per state; the glitch filter's shift register is the number of latest ones in it, the serialiser its duration. |
| `MtbTrigger` | `trg/trigger.vhd` from `want_pretrigger` on, `trg/integrator.vhd`, `infra/event_counter.vhd` | Registers and the step of one clock edge. |
| `RbTx` | `rb_tx/rb_tx.vhd`, `rb_tx/rb_deadtime.vhd`, the pulse stretch of `master_trigger.vhd` | One link and one board (all see the same trigger at the same edge); every `CLK_RATIO` steps is an edge of the slow clock. |
| `Mtb` | the trigger path of `master_trigger.vhd` | `EXTENDS` the last three and wires their steps into one (`Clock`). Six history variables (`number`, `recounted`, `owed`, `missed`, `held`, `seen`) serve the properties only. |
| `NatSets` | - | lemmas about finite sets of numbers (least and greatest element, pigeonhole) for `DaqProofs` and `DrsProofs` |
| `DaqProofs`, `DaqContentProofs` | - | theorems about `Daq`: ranges and lengths; what is in a packet, and the refinement |
| `DmaProofs` | - | theorems about `Dma`: the burst handshake, the addresses, the occupancy registers |
| `DrsProofs` | - | theorems about `Drs`: ranges, counters, the mask walk |
| `EventPathProofs` | - | theorems about `EventPath`: ranges, one event at a time, whose samples a packet carries |
| `MtbProofs` | - | theorems about `Mtb`: ranges, vetoes, the handshake with the tracker, the link |
| `Ps7Proofs` | - | theorems about `Ps7Init`: what each table writes, where and in which order; what the registers and the hardware are once a given instruction has been passed |

The modules are parameterised by CONSTANTS and each `MC*.cfg` gives a small
instance of them; nothing is overridden. `EXTENDS SoftReset` puts the
sequencer's step into `EventPath`'s `Tick` with the ports the board drives it
with; `Mtb` does the same with its three parts. The reset of the MTB is raised only
while its clock is not locked and is left out.

Operators whose comment begins with "Mutant" are plausible mistakes in the line
next to them. They are used by nothing; replacing the neighbour by them shows
that a property can fail.

## 3. Runs

| run | config | checks | shows |
|---|---|---|---|
| `daq` | `MCDaq.cfg` | TypeOK, PacketLength, ChannelOrder, CrcCoverage, IdleBurstAligned, ComesBackToIdle, ImplementsFormatter | All packet kinds with empty and partial masks, DRS data at any clock or never, register reset at any clock (37,757 states). |
| `daq_fragment` | `MCDaqFragment.cfg` | PadsToBurst: violated | section 6 |
| `dma` | `MCDma.cfg` | TypeOK, WholeBursts, AddressInBuffers, ContiguousBursts, OccupancyExact, Drains, ToggleHonoured | Packets of one and two bursts and of a word less than one, their words no faster than the formatter makes them, fill both buffers again and again; software asks for a switch at any clock (414,021 states). |
| `dma_clear_reset` | `MCDmaClearReset.cfg` | AddressInBuffers | Clear and reset at any clock: no command outside the two buffers. |
| `dma_split`, `dma_clear_ends` | `MCDmaSplit.cfg`, `MCDmaClearEnds.cfg` | PacketNotSplit, ClearEnds: violated | section 6 |
| `drs` | `MCDrs.cfg` | TypeOK, ReadsMask, NoOvershoot, ComesToRest | Every register write, mode change and trigger at any clock, mask changing between readouts, the empty mask included (107,000 states). |
| `drs_mask` | `MCDrsMask.cfg` | ReadsMask: violated | section 6 |
| `events` | `MCEventPath.cfg` | TypeOK, OwnSamples, NoLeftover, OneOnItsWay, EveryEventSent, SoftResetFinishes | Triggers that meet a busy DRS, fragments, slow and fast readouts and packets; software enables, disables and soft-resets a quiet board (133,745 states). |
| `events_stop` | `MCEventPathStop.cfg` | QueueIsRead: violated | section 6 |
| `boot` | `MCPs7.cfg` | TypeOK, WritesTakeEffect, ClocksFromLockedPll, SuccessMeansUp, ReleaseOrder, Returns | All tables of all silicon versions, up to three calls, hardware that answers at any moment or never (49,794 states). |
| `mtb` | `MCMtb.cfg` | TypeOK, BoardsReady, WindowClosed, SameEventCount, NoneSwallowed, TriggerHeld, Recovers | Triggers, the tracker's busy line and the reset of the count free at every clock; every window the register holds, veto of the boards and busy-ignore on and off (504,016 states). |

The questions behind the properties:

* `PacketLength`: the receiver of a packet finds its end by the LEN word. The
  formula behind it and the FSM are far apart in the file; the payload may be
  cut by a timeout. The property excludes, by name, the two ways in which the
  count is known to go wrong: a reset in the middle of a multi-word field leaves
  `state_word_cnt` for the next packet (`dirty`), and a sample that arrives at
  the very edge of the timeout as the last one of its channel makes the channel a
  word longer (`overrun`). A packet without payload is one word shorter than its
  LEN says (section 6).
* `OwnSamples`: nothing but order ties samples to an event. The property says
  that the busy bit, latched when the mask arrives and queued many clocks later,
  says exactly whether the DRS took the trigger. `NoLeftover` says the same of a
  board that has come to rest, also after a soft reset.
* `OneOnItsWay`: the reader of the event queue has no flow control over its four
  clock pipeline; `event_queue_request` must be up exactly while something is in it.
* `ImplementsFormatter`: `EventPath` and the DMA controller rely on the formatter
  without knowing its 25 states: one acknowledge per event, nothing accepted
  before the packet and its gap are out, a gap of exactly one burst, no phase
  that lasts for ever. The abstract specification shows one weakness too: a
  reset on the very edge of the acceptance leaves an event acknowledged and without a packet.
* `ContiguousBursts` excludes by name the bursts after a software toggle that is
  not over (section 6).
* `SuccessMeansUp`, `ClocksFromLockedPll`: the polls look at level bits that may
  be set from the boot ROM or an earlier call. They are sound because each table
  resets what it polls first; the two mutants of `PLL_INIT` show what happens
  otherwise. `WritesTakeEffect` also covers the call after one that gave up in
  the middle of a table.
* `BoardsReady`, `WindowClosed`: a trigger starts the dead time of the boards only
  after the window and three registers, so the fixed dead time must bridge them.
  `WindowClosed` holds for every window; `BoardsReady` leaves out the longest, for
  which it is false: `BlockIfBusy` is the same without this restriction (section 6).
* `SameEventCount`: the count is a register that tracker and boards read at
  clocks of their own, the tracker one even before the window is over.
* `NoneSwallowed`: the serialiser has no queue. What keeps triggers apart is that
  the transmission to the tracker (3400 clocks) outlasts the packet (57 slow clocks).
  A trigger that the tracker missed starts no such transmission, and the next
  one may be lost (`missed`, section 6).
* `CrcCoverage` speaks of packets with payload. `CrcCoversPacket` says the same of
  every packet, as the packet format does; no run lists it, since it is false (section 6).
* `OccupancyExact`: software copies the buffer up to the occupancy, which another
  process than the address handler counts. It holds for packets that begin and end
  anywhere in a burst. A buffer is entered with the reset of its register still
  to come, for one edge at most when the first command is given; before its first burst is posted
  the register is right.
* `Drains`: the controller starts on a whole number of bursts only and looks only while it
  is idle. With packets of whole bursts the writer ends on such a number, whatever
  the speeds. With others the number comes and goes in the middle of a packet: then
  it is the speed that saves it, some 45 edges of the controller for a burst against
  190 of the writer, and nothing else (section 6). `dma` has such packets, the speed, and a
  datamover that takes every command at once. Packets of whole bursts alone (`PacketWords = {3, 6}`) drain at any
  speed (`WORD_EDGES = 0`) and with commands refused (`READIES = {TRUE, FALSE}`); the
  safety properties hold with all of these together.
* `NoOvershoot`: five states of `drs.sv` leave on equality with a limit and two
  counters serve them; started too high, a state would go on until the counter
  wraps, and shift wrong clocks into the chip.

## 4. Bounds

The counters whose length is only a delay are scaled down, one that guards a
case keeps room for the case.

* `Daq`: 3 channels with masks of none and of two non-adjacent channels; channels
  of `roi_size + 1` = 2 samples (3 for debug); timeout of 1 clock, so that it falls
  on the first, a middle and the last sample; `CNT_MOD` = 10 is above every word
  count. `PAD` = 7 is not a divisor of the sizes that occur, except where
  `Rois = {6}` makes it one (section 6).
* `Dma`: bursts of 3 words (the firmware has 16) with a FIFO latency of 1; buffers
  of 5 bursts with 3 in reserve in `dma` (4 and 2 with clears); packets of
  3 and 6 words are one and two bursts, so that a jump can come due before, at and after the start of a
  packet; one of 2 words is a packet without payload, a burst less a word. The words of a packet come
  up to `FIFO_DEPTH` ahead (two bursts; one in the run with clears and resets), at any time from `WORD_EDGES` = 5 edges on
  after the last: 15 for a burst, which takes the controller
  11 with `DELAY_MAX` = 2, a ratio far below the firmware's four (with `WORD_EDGES` = 3, slower than the
  writer, `Drains` fails). `dma_clear_reset` has no such bound, a datamover that refuses commands, and a
  `DELAY_MAX` of 1. `MAX_PACKET_SIZE` keeps the packet and its idle burst, as in the
  firmware. The two buffers are not adjacent, so that an address beyond the end
  of A is not taken for B.
* `Drs`: 4 samples, ADC latency 1, one to two clocks of waiting in the other
  states; masks {} and {1, 2, 8}: 8 is the calibration channel, 1 and 2 are
  adjacent, and channel 0 is not enabled, so that an address that falls back to 0
  is seen. `RD_MOD` and `SR_MOD` are the widths of the counters, larger than
  their limits.
* `Ps7Init`: polls of at most 2 turns (the firmware has 10^8), enough for a
  poll to succeed at once, later, or never; 3 calls: a failure, its repetition,
  and a post-configuration, or a second initialisation of a system that is up.
* `Mtb`: filter of 2 samples, timeout of 4 clocks (an answer at, before and after
  it), windows 0, 1 and 2 with a dead time of 3: 2 is to 3 what the register's longest
  window, 31, is to the firmware's 32; a slow clock of half the speed, packets of 3 bits,
  a transmission of 13 clocks: the smallest that keeps the firmware's inequality
  (`MtbAssumption`); a board dead time of 6, longer than the trigger's own; a
  count that saturates at 2.
* `EventPath`: 4 events, a queue of 3, readouts of 1 and 6 clocks and packets of 1
  and 8 clocks: with 3 clocks of packet body after the mask a readout ends
  before or after the event is queued, and the next packet meets a busy DRS, a busy
  formatter, both or none. 5 register writes allow enable, disable, soft reset,
  enable again. The watchdog (12) is above the flush count, as in the firmware,
  and the payload timeout (10) above the longest readout.

## 5. Fairness

The clock is free running, so a specification has weak fairness of a clock edge
(`WF_vars(Next)`, `SomeEdge` or `Edge`) and of nothing a person or
another board decides: no trigger, no register write and no DMA idleness is
assumed to happen. In `Daq` an edge without DRS data is always possible, so
`ComesBackToIdle` rests on the timeout alone. `SoftResetFinishes` rests on the
watchdog alone: the DMA may stay busy for ever. `Mtb` asks for weak fairness of a clock edge after which the tracker is not busy
(`NotBusyNext`), since nothing in the board can end a busy that lasts for ever: that is
what `Recovers` needs, while the answer and every trigger may stay away.
`Ps7Init` has fairness of the processor only: `Returns` holds even if the
hardware never does its part. `Dma` adds fairness of `WriteWord \/ LoseWord`: a
packet that has been started is finished, because of `Daq`'s timeout; no new
packet is promised. It also has fairness of `Taken`: a command that waits in IDLE
is taken in the end, as the datamover does not refuse commands for ever.

## 6. Disagreements between code and comments

Each of the runs that end in a violation finds a behaviour of the code that a comment of the code excludes.

* `daq_fragment`: a packet without payload skips the STOP_CELL word its size
  counts, so it is padded to one word less than a whole burst. `daq.vhd:202` says
  "dma expects multiple of g_PACKET_PAD words".
  Next to it: if the size is already a multiple of the burst the padding is 0, and
  PAD_state, which has no branch for it, waits for a count of -1. With 22 + n
  (`roi_size` + 4) words and bursts of 32, two channels and a `roi_size`
  of 1 mod 16 do it; the usual 1023 with one to nine channels does not. `MCDaq.cfg`
  with `Rois = {6}` shows it as a violation of `ComesBackToIdle`.
* `dma_split`: the switch of buffers looks at the busy bit of the last word read,
  which during the first burst of a packet still belongs to the idle burst before
  it. `dma_controller.vhd:41-43` explains the reserve at the end of a buffer
  with the aim that a packet is not split. A toggle by
  software that comes between ASSERT_CMD and the posting of the address moves `saddr` in the same
  way, against the comment at 525-526: the word `toggled` in `ContiguousBursts`
  is there for it.
* `dma_clear_ends`: a memory clear ends only if the two-clock request pulse falls
  on CONTINUE_CLEAR; it falls earlier, and clear mode goes on.
* `drs_mask`: the last channel is looked up from the live mask. A fragment packet
  (empty mask) during a readout makes it 0, and channel 0 is read as well.
* `events_stop`: an event that is in the reader's pipeline when triggers are
  disabled is dropped and `event_queue_request` stays set: the queue is not read
  again.

Three more contradict a document or a comment; they have no run of their own, and what
shows them is a run's configuration with one line changed:

* *CRC of a packet without payload* (`CrcCoversPacket` as an INVARIANT of `MCDaq.cfg`). The packet CRC takes a word in the
  clock after it is sent (`daq.vhd:247`). A packet with payload waits for it in CALC_CRC32; a fragment or
  dropped packet (475-476), or one with an empty mask, goes straight
  to CRC32 and sends a CRC without its last word (the last of TIMESTAMP, or the channel header).
  `src/README.md:188` says "Packet CRC (excluding Trailer)". `CrcCoverage` and its theorem therefore
  speak of packets with payload only.
* *Rest of a packet without payload* (`READIES = {TRUE, FALSE}` in `MCDma.cfg` violates `Drains`). Such a packet is a 16-bit word
  short of a burst, and what follows begins inside a burst (until 32 of them make up for one another). The
  number of words in the FIFO is then
  a whole number of bursts only in the middle of a packet, for the time of one word. If the
  datamover refuses a command just then, the number passes and more than a burst stays in
  the FIFO until another packet brings it to a multiple, for ever if none comes. `dma_controller.vhd:633`
  says "make sure we have enough words in the FIFO for a burst transfer"; there are enough. In any case the rest
  of less than a burst stays until the next packet comes; `Drains` does not speak of it.
* *Window of 31* (`BlockIfBusy` as an INVARIANT of `MCMtb.cfg`, where it is the window of 2). The assertion at
  `trigger.vhd:940`, "DEADCNT should be greater than
  integration window", admits a window of 31 with the dead time of 32. The trigger has three
  more registers to pass before the veto of the boards is up, and with that window the veto is one
  clock late. `mt_address_table.org:610` says of the register "if a readout board is BUSY then do not
  trigger". It takes a trigger that the tracker missed: when it took it, its own busy holds the next one
  back. The default window is 1. `BoardsReady` and its theorem leave this window out.

What else was met, without a comment in the code that promises otherwise:

* *MTB.* A busy of the tracker that rises in the two clocks of the pretrigger makes
  the tracker miss a trigger the boards get; the next trigger can then come
  within the packet on the link, which ignores it. With `MIN_DEADTIME_MODE`, whose
  register says "Minimize deadtime by ignoring the TIU module", the dead time of
  the boards is ignored as well (`master_trigger.vhd:848`), and
  `SameEventCount`, `NoneSwallowed` and `TriggerHeld` all fail.
* *Occupancy.* The registers RAM_A_OCC_RST and RAM_B_OCC_RST do nothing: the signals made of them
  are '0' in both branches of `dma_controller.vhd`.
* *Boot code.* After a poll that gives up the SLCR stays unlocked. A second
  `ps7_init` on a running system resets PLL and calibration below a DDR
  controller that only a later table stops. `getPS7MessageInfo` swaps the texts of
  codes 4 and 5 (`ps7_init.h:59-60`), neither of which any function returns.
  `ps7_init_gpl.c` is a copy of `ps7_init.c`.

## 7. What is proved

For every value of the constants that satisfies the named ASSUMEs:

| theorem | module | says |
|---|---|---|
| `TypeCorrect` | `DaqProofs` | every register of the formatter keeps its range |
| `PacketLengthCorrect` | `DaqProofs` | the LEN word is the number of words, for any masks, sample counts, timeout and burst |
| `ChannelOrderCorrect` | `DaqContentProofs` | the channels sent are those of the mask, in order, each once |
| `CrcCoverageCorrect` | `DaqContentProofs` | in a packet with payload the packet CRC covers all words before it; in every packet a channel CRC covers exactly its samples |
| `GapIsAligned` | `DaqContentProofs` | the gap of a burst begins on a burst boundary after a packet with payload, and one word before one after a packet without |
| `FormatterImplemented` | `DaqContentProofs` | every step of `Daq` is a step of `Formatter` or leaves it unchanged |
| `WholeBurstsCorrect` | `DmaProofs` | without clears (`NoClears`) and with resets of an idle controller only (`ResetsAtRest`), every burst has the words its command announced, tlast on the last, none dropped |
| `TypeCorrect` | `DmaProofs` | same hypotheses: every register keeps its range; `mem_bytes_written` is never taken from the base of the wrong buffer |
| `AddressesStayInBuffers` | `DmaProofs` | same hypotheses: no burst goes past the end of a buffer, toggles at any time, packets beginning anywhere in a burst |
| `BurstsAreContiguous` | `DmaProofs` | same hypotheses: a command goes where the last burst ended, to the base of the other buffer, or after a reset to that of A (unless a toggle is under way) |
| `OccupancyIsExact` | `DmaProofs` | without clears and resets (`Undisturbed`), for packets of any length: the occupancy registers are the ends of the data in both buffers |
| `TypeCorrect` | `DrsProofs` | every register of the DRS controller keeps its range |
| `ReadsMaskCorrect` | `DrsProofs` | with a fixed mask (`MaskHolds`), a readout writes the channels of its mask in order |
| `NoOvershootCorrect` | `DrsProofs` | no counting state of the DRS controller is entered beyond its limit |
| `TypeCorrect` | `MtbProofs` | every register of the MTB's trigger path keeps its range |
| `WindowStaysClosed` | `MtbProofs` | no trigger inside the integration window of another, for every window the register holds |
| `BoardsAreReady` | `MtbProofs` | no trigger while a board that vetoes is in its dead time, for any dead times and link parameters and every window up to `DEADCNT_MAX - 2`; for the one longer window it is false (section 6) |
| `TriggerIsHeld` | `MtbProofs` | with the vetoes on and a glitch filter of two samples or more, the tracker's trigger is up until it has answered or time is up |
| `SameEventCountSent` | `MtbProofs` | same hypotheses: tracker and boards are told the number the trigger was given |
| `NoTriggerSwallowed` | `MtbProofs` | and `DEADCNT_MAX + EXTEND <= CLK_RATIO * LENGTH`: every trigger the tracker takes gets its packet on the link |
| `TypeCorrect` | `EventPathProofs` | every register of the event path keeps its range, the queue its depth |
| `OneOnItsWayCorrect` | `EventPathProofs` | with `CAREFUL`, one event at most between queue and formatter, exactly while a request is open |
| `OwnSamplesCorrect` | `EventPathProofs` | with `CAREFUL` and no event lost at a full queue (`NeverFull`), a packet carries the samples of its own event |
| `NoLeftoverCorrect` | `EventPathProofs` | same hypotheses: no samples are left over when the board is drained |
| `RoomForAll` | `EventPathProofs` | `NeverFull` holds when no more events come than the queue holds |
| `TypeCorrect` | `Ps7Proofs` | the interpreter stays inside the tables of its silicon version and finds an instruction it knows |
| `EveryWriteTakesEffect` | `Ps7Proofs` | no write of a table is lost or harmful: SLCR unlocked, DDR controller in reset, bus clock of the peripheral on |
| `LockedClocks` | `Ps7Proofs` | no PLL drives a clock while it has no lock |
| `SuccessIsUp` | `Ps7Proofs` | when `ps7_init` reports success all it set up is up, with the tables' values and not the boot ROM's |
| `ReleasedInOrder` | `Ps7Proofs` | DDR controller, input buffers and fabric are let go only after what they need |

The arguments:

* *Packet length.* `PacketLength` speaks of the last word only. `LengthInv` adds how
  many words have been sent in each state: a table for the head (`HeadInv`), channels
  counted times the words of a channel (`ChannelInv`), the tail (`TailInv`), and
  that the two-stage size pipeline has settled by the time it is used
  (`SizeInv`). The FSM ends the payload when `channel_cnt` equals the number of
  channels, so no fact about the walk over the mask is needed.
  `NatSets` has the facts on sets of numbers that make the lowest
  channel of a non-empty mask well defined.
* *Channel order.* That the walk visits the right channels is a separate argument.
  `WalkInv`: the channels sent and those still to come split the mask, the sent ones below
  the others, and there are as many headers as `channel_cnt` says. Hence the count reaches
  the number of channels exactly when nothing is left to walk over.
* *CRC coverage.* Both CRCs run a word behind what is sent. `PacketCrcInv` and
  `ChannelCrcInv` say, state by state, whether a CRC is up to date, one word behind, or
  cleared; in a packet with payload the state that sends it waits for the first. In one without,
  it is one word behind when it is sent, against the packet format (section 6).
* *The gap.* From `LengthInv`: LEN is the number of words sent (`Padded`: and one more for a packet
  without payload, the STOP_CELL it does not send), the padding settles
  one clock after LEN, and what LEN says and the padding together are a multiple of the
  burst (`PaddedIsMultiple`). So the gap of a packet without payload is one word early, and
  never more. The theorems about `Dma` make no use of the alignment.
* *Refinement.* Every state belongs to one phase and every step stays in its phase or
  goes to the next; `GapInv`, the only strengthening needed, keeps the counter that the fields share within
  the burst while the gap is sent.
* *DMA bursts.* `BurstInv`: a command is given only with a burst in the FIFO, and
  then the count, the read enable, the three valid stages, the words streamed and the words on their way
  are in lockstep (`Starting`, `First`, `Running`, `Last`, `Closing`). The read enable falls
  exactly at the last word because the latency is one; with the comparison a word later the proof fails.
* *DMA addresses.* The reserve of `MAX_PACKET_SIZE` works although `mem_bytes_written`
  is two edges old and the jump takes two edges itself. `AddressInv` has four parts on top of
  `BurstInv`. `SwitchInv`: `ram_in_a_buff` is wrong only between the two edges of a
  jump, and the bytes written are the bytes used, or a burst fewer just after
  posting. `PacketInv`: behind every word with the busy bit set comes, within the packet's size, one with
  the bit low, in the FIFO or still to be written. `RoomInv`, the heart of it: once the buffer is used beyond the
  threshold, either there is room for every word up to that one (`Room`), or
  the jump is asked for, or it will be at the next edge. Only with all
  four together is each of them kept. Software's toggle only adds a jump, to an empty buffer.
* *DMA contiguity.* A reset starts again at the base of A with an empty buffer, so no jump
  comes before its first burst (`AfterReset`). `PathInv`: while no toggle is under way the jump is over when
  the next command is given, and a second one cannot come because the buffer just entered is
  empty (`Followed`).
* *DMA occupancy.* The monitor marks a jump one edge after it is over (`MonitorInv`). `OccInv`: until the
  first burst after a jump is posted, the register of the buffer that was left keeps its end, and that of
  the buffer entered is its base once the mark has been seen (`Counted`). While no toggle is under way the jump
  is over when a command is given (`PathInv`), so the mark is seen in ASSERT_CMD at the latest,
  and the burst is counted on top of the base. Nothing is said of where packets begin or end in a burst.
* *DRS readout.* `ReadInv`: the bit of the current channel is cleared at the
  first sample and the lookup of the next one has settled two samples later, so the
  next channel is the least of the mask that is left; it is the last when nothing is left. This
  is where readouts of three samples or more are needed (`MaskHolds`); with two the
  proof fails, as the lookup does.
* *Counters of the DRS.* `CountersInv` says which states may find a counter not at
  zero, and that in ADC_READOUT the sample count follows the clock count; then
  every state that counts starts at zero. Proved with a case per action.
* *Event path types.* Needs `LinkInv`: a packet on the link has counted up the event
  count, so no queued event looks like `NoEvent`.
* *One event on its way.* `PathInv`: the five places between the queue and the
  acknowledge are disjoint and the request covers them (`OneInPipe`), what is in
  them will be accepted by the formatter (`EventsWanted`: fragments only while
  enabled), and triggers stay enabled while anything is queued or requested
  (`Enabled`). The last part needs `CAREFUL`; `events_stop` shows what happens
  without it.
* *Own samples.* Samples carry no number in the code: the formatter takes what is next in the FIFO.
  `SampleInv` says why that is right. `Matched`: samples of an event are in the DRS or its FIFO exactly
  while the event waits for them on the link, in the queue or in one of the four places
  behind it; `EventOrder` and `SampleOrder`: both are in the order of the numbers, so the
  first samples are those of the first event; `InTime`: the DRS is read out before the payload
  times out; `Silence`: a soft reset finds the board at rest. Both hypotheses are needed: an event lost at
  the full queue leaves its samples behind (hazard at `daq_board_top.vhd:771`), and software that stops the board
  between the queue and the formatter loses the event and keeps the samples.
* *Handshake with the tracker.* `HandshakeInv`: a trigger is formed only while the tracker's
  state machine rests and no old busy sample is in the glitch filter (`Formed`); while it waits its line
  is up, time held and time left add up, and the filter counts what has been seen since
  (`Waiting`); the count latched is the trigger's as long as it may still be sent (`Counts`); the
  transmission goes through its stages in turn (`Sending`). TLC finds `TriggerHeld` violated with a filter of one
  sample: a busy line that was high before the trigger passes for the answer. With
  `MIN_DEADTIME_MODE` on, the vetoes are off and all three properties are violated.
* *No trigger swallowed.* `LinkInv` counts the clocks left: the stretched pulse is over when a packet on the
  link is (`PulsesOver`), a pulse leaves the window as it ends (`WindowOver`), and a trigger that is taken finds the link
  free, lasts until the slow clock sees it, and has its packet over before the tracker is ready for the
  next (`Punctual`). The hypothesis on the lengths is met by the code's values, 32 + 8 clocks against 4 * 57,
  and is needed: TLC finds `NoneSwallowed` violated when the stretch is longer than the packet. It is not sharp: the
  run's 3 + 4 against 2 * 3 are a clock beyond it, and the property holds.
* *Vetoes of the MTB.* `BoardsReady` is about two clocks far apart. The invariant
  follows the trigger through the pipeline: `CountersHold` (dead and the board's flag are up
  while their counters run, and no trigger is formed while dead), `Margins` (how many clocks of the fixed dead time are
  left while the window is open or its trigger is in one of the registers behind it: what the window
  leaves of it, `Spare`), and `Vetoed` (a board's dead time is seen by the veto, or the
  fixed dead time is still on). Each is preserved with the help of the one before. One spare clock is
  enough for `WindowStaysClosed`; `Vetoed` needs two, which is what `WindowCovered` says of the window.
* *Boot code.* Two halves. The first is about the tables alone (`Shapes`): what each of them
  writes, in which order, and what it leaves alone. A table of a hundred instructions is
  too much for a prover at once, so the shapes are established piece by piece: those of
  version 1 by name, those of versions 2 and 3 by comparison with it, and the
  pieces are joined by lemmas about concatenation (`Joined`, `UnlockedSeq`). The
  second half is about their interpretation. `Passed(n, k)` says that `ps7_init` is beyond instruction k
  of table n, and `IInv` what is true from there on: the key (`KeyInv`), the stages of a PLL
  (`PllInv`: a new divider, bypass on, reset, lock at the new divider, bypass off), the clocks (`ClockInv`), the DDR
  controller (`DdrInv`) and the rest (`PeripheralsInv`); and `AnswersHold`, that the hardware's answer
  is withdrawn when software makes it start over, so a poll that comes after cannot
  be content with an old one. `LockedClocks` is about every state between: a PLL is bypassed before its
  reset takes the lock away. A poll that gives up
  leaves a table half done, and `Passed` is false from then on: all the next
  call finds is `ClocksFromLockedPll`, `AnswersHold` and registers of the right shape. The only
  assumption is that the poll limit and the number of calls are natural numbers (`Ps7Assumption`), so the
  theorems hold for the firmware's 10^8 turns of a poll and for any number of calls.

Every leaf names the facts and definitions it uses, no step is left without a
proof, and no axiom is added.

## 8. What is only model-checked, and what is not modelled

Only model-checked:

* *all liveness properties* (`ComesBackToIdle`, `Drains`, `ToggleHonoured`, `ComesToRest`,
  `EveryEventSent`, `SoftResetFinishes`, `Recovers`, `Returns`), and of the refinement
  of `Formatter` its fairness: fairness and ENABLED are beyond the prover.
* *`Dma` under memory clears, and resets in the middle of a burst*:
  `AddressInBuffers` is checked by `dma_clear_reset`. What is proved needs `ResetsAtRest`, a reset only
  while the state machine is in IDLE. That is what `soft_reset.vhd` waits for (WAIT_DMA, unless
  its watchdog runs out); a reset in the middle leaves `words_sent_cnt` where it
  is, and the next burst is short. `OccupancyExact` needs `Undisturbed`: a reset leaves the occupancy register
  of buffer A at the end of data that is no longer there.

Induction over data is beyond the prover as well, but no module needs it: none declares a RECURSIVE operator.

Not modelled:

* *values of data words*: samples, temperatures, DNA, timestamps, CRC polynomials.
  No control depends on them.
* *metastability and the clock domain crossings themselves*: a crossing is a
  step of the other domain between any two edges (`Dma`) or a delay (`EventPath`).
* *the vendor's FIFOs and the AXI datamover*: modelled as the code uses them,
  marked external.
* *in `daq_board_top.vhd`*: software trigger mode, debug packets, auto purge, event
  and lost-event counters; *in `dma_controller.vhd`*: the packet counter, AXI
  status decoding and busy monitors; *in `soft_reset.vhd`*: the enables that skip a
  part and the reset pulses to the parts.
* *generated and vendored code*: register maps, block design, Ethernet, UART, Linux
  image and its demo applications. The exception is `ps7_init.c`, generated too,
  because it runs on every board and has control of its own; the *values* it
  writes into tuning registers, the instructions no table uses (CLEAR, MASKDELAY) and
  the identical `ps7_init_gpl.c` are left out.
* *in the MTB*: hits, thresholds and prescales (the free input `source`), hit masks, the
  bits of a packet, `mtb_daq.vhd`, GPS, monitors, and the resync command.
* *the local trigger board*: a prototype with a vendored I2C slave.

The assumption to keep in mind in `EventPath` is that a payload timeout is longer
than a readout (`READ_CLKS`), true of the defaults (65,535 clocks against some
10,000), and that a trigger arrives only while triggers are enabled, as the MTB
is stopped first.

## 9. Plan

Done: the readout board from trigger link to RAM, each part by itself, the event
path composed with the soft reset sequencer, the formatter's abstract
specification and its refinement; the trigger path of the MTB up to the link and the
tracker; the boot code of the processor.

Next, in this order:

1. `MtRx`, the link receiver bit by bit (mask, event count, CRC verdict, command),
   composed with `RbTx`: what the board queues is what the MTB sent.
2. The MTB's dead time against the clocks `Drs` takes: its constants leave out
   spike removal and the calibration channel and count WAIT_VDD as 110 clocks where
   the RB has 333.
3. `EventPath` with `Formatter` in place of its reduced formatter, so that the reset
   and the debug packet, which lose an event acknowledged at the same edge, come in.
4. `MtbDaq`, the MTB's packet: board mask walk, size, CRC coverage, as in `Daq`.
5. The rest of `dma_controller.vhd` (packet counter, tail detector), a run with a
   small FIFO that overflows, and the trigger multiplexer.
6. Runs without `CAREFUL` for the soft reset: a trigger that has left the link but
   not reached the DRS looks idle to the sequencer.

Proofs to come: the ranges and addresses of `Dma` under memory clears and resets in
the middle of a burst. Everything else that a passing run checks and that is not about
liveness is stated by a theorem, under the hypotheses given there.
