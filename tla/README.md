# Namco ND-1 on the Analogue Pocket: verification models

TLA+ models of the core in this repository (Namco Classic Collection Vol. 1 and
2 on the ND-1 board, SystemVerilog under `rtl/` and `target/pocket/`) and of the
scripts around it (the reference models under `tools/` that the RTL is compared
with, and the programs that build, check and pack what is shipped), the TLC
runs that check them on small instances, and theorems about them that TLAPS
proves for every size. Paths below are relative to `src/`.

The code is hardware: almost everything in it happens on one 96 MHz clock. A
model step is one edge of that clock (of `clk_74a` in `SaveCtl`), unprimed
variables are what the registers hold before the edge and primed ones what they
hold after it, and a component is a conjunction of what each `always_ff` block
does, with one action per state of its state machine. Partners that share the
clock move in the same step. What makes such code hard to test is seldom a state
machine by itself: it is two of them a clock apart, a registered copy that is one
clock old, a request that a reset takes away, an enable that comes after five
clocks or after six. Two data paths are modelled in full, because the repository
holds an executable specification of each: a voice of the C352 and the drawing of
a line. The scripts are sequential; what is hard in them is their input (a romset
in which every name occurs twice, a PNG of another encoder, a package with one
rule broken) and being stopped and run again.

## 1. Inventory

| component | source | state | operations | talks to |
|---|---|---|---|---|
| program ROM caches | `rtl/rom_cache.sv` | tag and data RAM, five-state machine | look up, fill, flush walk after reset | its CPU (level request and level ack), the SDRAM glue |
| C352 voice engine | `rtl/c352.sv` | 32 voices in RAMs, engine state, key mirrors, execute request | step a voice, run an execute pass, merge a CPU write | H8 (registered strobe), sample ROM |
| H8/300H core | `rtl/h8300h.sv` | sequencer, registers, bus and interrupt toggles, divider | fetch, execute, trap, interrupt, sleep | on-chip peripherals and bus |
| H8/3002 peripherals | `rtl/h83002.sv` | on-chip RAM, five timers, ADC, ports, interrupt controller | register access, count, match, request, acknowledge | core, vblank pin |
| sub CPU decode | `rtl/ncv1_sub.sv` | a busy and pulse register per slave | one access per request | shared RAM, C352, inputs, ROM cache |
| 68000 decode | `rtl/ncv1_main.sv` | `started`, `done`, cuskey registers | bus cycle to DTACK, interrupts | ROM cache, shared RAM, YGV608, EEPROM |
| shared RAM | `rtl/shared_ram.sv` | two byte RAMs, two busy flags | read or write on each port | both CPUs |
| EEPROM | `rtl/at28c16.sv` | 2 KB, dirty toggle | CPU access, load, read-out | 68000, save slot |
| YGV608 registers, raster | `rtl/ygv608.sv` | registers, pointers, dot and line, status flags | port access, auto-increment, interrupts, reset sweep | 68000, renderer |
| YGV608 renderer | `rtl/ygv608_render.sv` | line state machine, line buffers | draw a line | pattern ROM bursts |
| reverb | `rtl/nc_reverb.sv` | three delay lines | one sample | audio |
| clock enables | `rtl/clk_enables.sv` | two accumulators, two dividers, a phase | one step per clock | everything |
| machine top | `rtl/ncv1_core.sv` | `h8_reset`, the stretched vblank | wiring | |
| SDRAM controller | `target/pocket/sdram_ctrl.sv` | 15-state sequencer, round robin, capture pipeline, burst context | single access, burst in chunks, refresh | the chip, the glue |
| memory glue | `target/pocket/ncv1_mem.sv` | byte pairing, 64-entry FIFO, burst client | load the image, pass requests on | caches, C352, renderer, loader |
| save controller | `target/pocket/core_top.sv`, `platform/pocket/peripherals/core_bridge_cmd.sv`, `helpers/synch_3.sv` | mark, two timers, three-state machine, executer | notice a write, start a save, wait for it | EEPROM, the Pocket's firmware |
| board top | `target/pocket/core_top.sv` | reset chain, inputs, pixel edge | wiring, reset | platform |
| loading | `platform/pocket/support/data_io.sv`, `interface/data_*.sv` | clock-crossing FIFOs | bytes in and out | glue, EEPROM |
| overlay, Analogizer, platform, fx68k | | | display, vendored code | |
| reference models | `tools/c352_model.py`, `tools/render_model.py`, `tools/gen_c352_tables.py` | the chip's voices; a dump of the video registers | one sample; one picture, compared with MAME's | benches and regressions |
| image tools | `tools/mra_build.py`, `tools/make_region_manifest.py`, `tools/verify_rom.py` | one pass over their input | assemble the image, reduce a dump to digests, compare | the player's romset, MAME |
| package tools | `tools/check_json.py`, `package-pocket.py` | a list of faults; the release directory | check the JSON files, make the package | the Pocket's SD card |
| picture tools | `tools/pngio.py`, `tools/ppm2png.py`, `tools/diff_frames.py` | none that lasts | encode, decode, compare | benches, MAME's snapshots |
| trace comparison, benches, build | `tools/c352_compare.py`, `sim/`, `*.sh` | | | |

Behaviours that are hard, and where they are:

- *level handshakes under an enable*: the CPUs move every few clocks, their
  slaves on every clock, so a request stands for several clocks after its ack
  and must be neither served twice nor completed with the last answer;
- *resets in the middle*: the machine's reset and the 68000's hold on the H8
  come at any clock; the memory goes on with what was asked;
- *two writers*: CPU and voice engine on a flags word; both CPUs on a shared word;
  raster and CPU on the status flags; the game and a running save on the EEPROM;
- *registered decisions*: arbitration, burst start, interrupt vector, pixel
  restart are all taken from copies that are one or two clocks old;
- *a line buffer against a beam*: the renderer draws a line while the raster shows the one
  before; its memory answers when it can;
- *two programs for one thing*: the RTL and its reference, two PNG decoders, a builder and a
  verifier of the same image, which must agree at every border;
- *time*: refreshes that fall due inside a burst, a divider that must finish
  before it is read, rates that must stay in ratio for ever.

The list with lines is `hazards` in `PROJECT.json`; a hazard that no property
covers says why. Hazards of parts that are not modelled are named in section 6.

What makes each component correct, in one line: a cache returns the current
image's word and always answers; the sound chip never undoes a CPU write and
steps each voice once a sample; the H8 makes each access once with its own word
and takes no stale interrupt; the SDRAM controller obeys the chip, gives each word
to its asker and starves nobody; the enables keep their gaps and ratios; a save
never forgets a write; a finished line is the row of the reference picture, and a
line that comes too late is reported; the RTL's samples are the reference's; an image
is the one its description means, and a check that passes passes only what works.

## 2. Modules

| module | models | abstract specification or proofs |
|---|---|---|
| `RomCache` | one cache with its CPU and memory port | `RomCacheProofs` |
| `C352Voices` | the engine against the CPU, clock by clock | `C352VoicesProofs` |
| `C352Path` | what a voice step computes, with the mix and the noise | `C352Model` is run beside it, `ToolsProofs` |
| `C352Model` | `tools/c352_model.py` (operators only) | the reference of `C352Path` |
| `H8Core` | the core's sequencer and its wrapper (operators only) | |
| `H8Sub` | `H8Core` clocked with the interrupt controller, decode and five slaves | assumes a `PulseTrain`, `H8SubProofs` |
| `SdramCtrl` | the controller, the chip, the clients | `SdramCtrlProofs` |
| `SaveCtl` | EEPROM, synchroniser, controller, executer, firmware | `SaveCtlProofs` |
| `ClkEnables` | the dividers and the pixel clock | implements `PulseTrain` twice, `ClkEnablesProofs` |
| `PulseTrain` | what users of an enable rely on: gaps between two bounds | abstract |
| `YgvRender` | the line renderer with the pattern port and the raster | implements `LineBuffer`, `YgvRenderProofs` |
| `LineBuffer` | what the raster relies on: two banks of one row each | abstract |
| `RenderModel` | `tools/render_model.py` (operators only) | the rows of `LineBuffer` |
| `MraBuild` | `tools/mra_build.py` | |
| `RomVerify` | `tools/make_region_manifest.py`, `tools/verify_rom.py` | `ToolsProofs` |
| `CheckJson` | `tools/check_json.py` | `ToolsProofs` |
| `Packager` | `package-pocket.py` | `ToolsProofs` |
| `Png` | `tools/pngio.py`, `tools/ppm2png.py`, `tools/diff_frames.py` | `ToolsProofs` |
| `PngStandard` | what another program's PNG holds: filters, stream, colour types (operators only, external) | the pictures of `Png` |
| `MC...`, `...Cases` | the instances for TLC and their inputs | |

In every module a definition named as a fault variant (`FlushSkipped`,
`NoMerge`, `WriteWins` ...) stands just before the definition it distorts. No
specification uses it. It writes down a plausible mistake in the code, and
replacing the definition by it must break the property that guards against that
mistake; `PROJECT.json` lists the pairs.

### RomCache

Variables are the registers of `rom_cache.sv` under their own names; `tag_ram`
holds a tag or `NoTag` for an entry whose valid bit is clear. Actions: `Reset`,
and one per state (`Flush`, `Idle`, `Look`, `Miss`, `Done`), with the RAMs in
`Arrays`. The CPU holds its request to the ack or drops it at any clock (a reset);
the memory answers when it likes, answers dropped requests too, and drives any
word on the shared data bus at other times; the loader rewrites the image under
reset. Two environment assumptions are named. `HeldLongerThanAccess`: a CPU that
was reset does not ask again while the cache is still busy with the dropped
request (`ncv1_core.sv` 93-95: the H8's reset is held "for thousands of clocks").
`Drained`: the memory answers a request that a machine reset dropped before the
flush walk, 2048 clocks, is over; the controller needs at most some hundred
(`RefreshOnTime` and `BoundedOvertaking` of `SdramCtrl` bound it).

### C352Voices

The engine's walk (`V0` to `Done`), the execute pass (`E0` to `E2`), the CPU's
registered strobe `bus`, the flags RAM with its engine-side read register `qb`, and
the voice state RAM with its registered write port. Of a flags word three bits are
kept, of a voice's 88 state bits the position. The clocks that only compute the
output are one state. A reset comes at any clock and lasts as long as it likes (`Cleared`, `ResetWire`): it
clears the registers, key mirrors and snapshots among them, and keeps both RAMs, which in
that clock still take the CPU's word, the engine's combinational write of the flags and the state's registered
one; the H8's reset is a register behind the machine's (`ncv1_core.sv` 96-99), so the CPU may write until
the clock after. `stale` remembers the voices whose flags word is older than the last reset: the mirrors of
these show no key, whatever the word says, until somebody writes it. `QuietStates` is a restraint on the environment: with
`{"V0", "E0"}` the CPU does not write the flags of the engine's voice in the clock
that latches it; with `{}` it may, as in the machine. The CPU does not issue a
second execute during a pass (`Executing`): the sound program issues one per
frame, a pass takes about a hundred clocks.

### H8Core and H8Sub

An instruction is the list `todo` of what its states do: words fetched, bus
reads and writes, internal waits, a CCR write, a division. Register contents and
flags are left out and the address of an access is free, so a program is any
sequence of the classes in `Classes`. The wrapper's toggles, `bus_done`, the
divider's counter and the interrupt pulse are the code's. `H8Sub` clocks it with
the five kinds of slave and with `h83002`'s IRQ5 and one timer source. A word read
is named by the address it came from, so `OwnWord` can compare. Environment:
`HeldLongerThanAccess` as above; `LongPulse`, the vblank pulse is longer than the
pin's synchroniser (`ncv1_core.sv` 102-110 stretches it); `Writable`, what the
program stores to. The enable is a pulse train of gaps 5 and 6, which is what
`ClkEnables` is shown to produce; with a `MinGap` of
4 TLC finds `TakenIsPending` violated, so the constants are not decoration; the proof asks for 5.
`TakenIsPending` says of the clock that takes an interrupt that its source is pending
and enabled *then* (for IRQ5 the flag and its enable, for the timer its line) and that the mask is
open, although the vector was registered up to an enable earlier.

### SdramCtrl

One action per state of the sequencer; `Settle` is what the code does beside every
state, accepting a burst and telling its end. The chip of `sim/sdram_model.sv` is
in the model: its open row and the words on their way, so that the data a client
gets is what the chip would have sent. The clients are those of `ncv1_mem.sv`: a
loader that writes, readers that may give up under a reset, a burst client that holds
its request to `b_done`. The start-up sequence is one state; the four banks are one,
as the controller always closes a row before it opens another. `last`, `any_req_q`
and `b_start` are the registered decisions that the fairness results depend on.

### SaveCtl

The dirty toggle, its synchroniser and edge detector, the settle and boot timers, the
three-state controller, the executer's queue and its four stages, and the firmware:
it takes the command, says busy, reads every cell, says ok. The game writes a cell in
any clock. `CutShort` says whether a reset may follow a write within one clock of
`clk_74a`; it is FALSE in the run and an assumption of the theorem (see section 5).

### ClkEnables

Real ratios: 32/125, 64/375, /15, /1125. The pixel clock runs through resets, so
a reset meets it at each of its 15 places. `H8Train` and `PhaseTrain` are instances of
`PulseTrain` whose `since` is the accumulator counted in steps.

### C352Path and C352Model

`C352Model` is the reference as operators on a chip record: `write`, `execute`, `step`
for a sample, `fetch` for a voice. `C352Path` is the engine's arithmetic in the widths
of its registers, one step per group of states of the walk, with the position, the
loop and its direction, the ramps, the noise register and the product taken in two
halves. Both get the same log of register writes, applied between samples as the bench
applies them; writes in the middle of a walk are the subject of `C352Voices`. `SameSample`
compares, when the engine rests, every voice's registers and state, the noise, and
the output. The key mirrors are included.

### YgvRender, LineBuffer, RenderModel

`RenderModel` gives the colour index of one pixel of the reference picture:
everything `render_model.py` does with a dump of the registers, plane by plane,
with its row and column scrolls, pages, banks, rotation, sprites and priorities. The
arithmetic is the program's; the screen is small (`W`, `H`), and so are the number of
sprites and the fraction of a rotated coordinate (`FracBits`).

`YgvRender` is the renderer's state machine. One step is a clock, or a run of clocks
in which nobody else can tell one from the next: the lookup of a tile, the writing of
its pixels, a fill. The pattern port is the burst client of `ncv1_mem.sv`; its units come
when the memory likes. The raster enters the next line when it likes, which is
how a line comes to be late. Two RAMs are not reset; what they hold is
`Unknown`, one odd value. `mode` is the register setting, which the CPU chooses in the
vertical blank with the memory at rest.

`LineBuffer` promises one thing: from the end of a line to the beginning of the
next of its parity, its bank holds that row of the reference picture (unless the
flag for rotations that are not rendered as MAME does is up). `LinesAsReference` is
the refinement. `SnapshotMatches` goes through the other half of `render_model.py`: the
frame that was shown is compared, by the program's own `compare`, with the picture turned
as MAME stores it, and must have no different pixel.

### MraBuild

A description is a sequence of nodes (parts with offset and length, literals, interleaves
with their maps), a romset a sequence of files with directory depths. CRCs may
collide (`SumMod` has seven values); an md5 may not. The steps are those of the script up to
`open`, which empties the file, and `write`; the process may be killed at any of them.
`Meant` and `Holds` say independently what the image should be, from the contents the
description was written for: byte `b` of a part goes to the place of digit `b % k + 1` of word
`b \div k`. The loop of `do_interleave` that writes the parts' bytes over one another is `Laid`: each byte is the last part's that
has a digit for it. A digit above the number of digits ends the script, because the two sides of line 153 differ in length
(`Fits`), except in two malformed maps that `MapAssumption` leaves out, see section 6.

### RomVerify

The dump of MAME's regions, the manifest of digests, and the comparison. The region that
has five bytes a group in MAME and four in the image is spread again by `Where`;
`VerdictExact` states the same from the other end, building each region as a whole from
the image.

### CheckJson

A file is a record of what the rules look at. Names stand for their lengths, hexadecimal numbers
for the sets of their bits. One action is a file visited with all its rules; the last
is the check of each core's Analogizer menu. `PassedWorks` does not repeat the rules: it says
what the Pocket does with a package that passed (finds an entry by its id, selects an option by
its default, keeps the bits under an entry's mask, asks for a required slot's file).

### Packager

The release directory through the steps of `package-pocket.py`, over what an earlier run left
there. The process may be stopped at any step, in the middle of the removal or the copy with any part
of the files. `Runs` is the number of times it is started, each time with another tree, bitstream
and set of extras. That no file of an earlier run survives has two reasons in the script, and the model
has both: the old directory is removed first, and `copytree` raises if there is one (`Copytree`). One of them is enough, so
what breaks `PackageExact` is a fault in what is copied, not a removal that fails: that one ends the run.

### Png

One file is read by both decoders line by line; the frame of the bench comes from its PPM or
through `ppm2png`; `diff_frames` compares and writes its picture. `zlib` and the chunks' CRCs are
left out. What a snapshot holds is written down from the PNG standard, not from the decoders
(`PngStandard`): the lines of a picture, the filter its encoder chose for each, the stream they make
and the colours they show. `SceneAssumption` says that a snapshot which is not odd is such an encoding, cut into `IDAT`
chunks anyhow, and that an odd one has a header or a filter that cannot be read, or another size.

## 3. Runs

Each finishes in about three minutes or less with two workers.

| run | instance | what it shows |
|---|---|---|
| `romcache` | 2 tags, 2 lines, 2 words | the acknowledged word is the current image's (`AckedWord`), no line survives a new image (`LinesCoherent`), the ack is held (`AckHeld`), every request is answered (`RequestServed`) |
| `c352` | 2 voices, 3 CPU writes, latch clocks spared, a reset at any clock | mirrors equal the RAM where it was written since the reset, and show no key elsewhere (`MirrorsExact`), the walk is exact under interruption (`EachVoiceOnce`), CPU writes survive (`KeyBitsKept`), key-on position for all voices but the last (`KeyOnFromStartBelowLast`), executes get through (`ExecuteReaches`) |
| `c352_merge` | the same without a reset, latch clocks open | finding 1 |
| `c352_keyon` | as `c352_merge` | finding 2 |
| `h8_bus` | all slaves, 11 instruction classes, resets at any clock | `OwnWord`, `OncePerRequest`, `DivideReady`, and every request is answered once resets stop (`RequestAnswered`) |
| `h8_irq` | IRQ5, timer, IER and ISR stores, RTE, sleep | `TakenIsPending`, `EdgeKept` |
| `h8_ccr` | the CCR instructions | finding 3 |
| `sdram` | a loader and a reader, 2 rows of 3 columns, bursts of 4 in chunks of 2 | the device's rules (`DeviceRules`), `AckedOwn`, `BurstInOrder`, `RefreshOnTime`, `BoundedOvertaking`, and nobody starves (`EveryoneServed`) |
| `save` | 2 cells of 2 values, timers of 2 and 3 clocks | `NothingForgotten`, `DoneIsOwn`, `EventuallySaved` |
| `clocks` | the real ratios, every place of a reset | `H8Pulses` (refinement), `PhasesInTurn` (refinement and turn-taking), `SampleExact`, `PixelInPhase` |
| `video` | 24 register settings, a screen of a few tiles and lines | finished lines are the reference's (`LinesAsReference`, a refinement), unspoilt frames pass its comparison (`SnapshotMatches`), a line shown while it is drawn is reported (`OverrunTells`), lines end (`LineFinishes`) |
| `tools` | the six cases modules | `SameSample`, `ImageIntended`, `VerdictExact`, `NoRomShipped`, `PackageExact`, `PictureRead`, `ReportTrue`, `PassedWorks` |

`tools` runs six specifications that share nothing, one of them in each behaviour: `script` says
which, and the variables of the others are `Off`.

### Bounds, and why they are enough

- *Two lines, two tags*: hit, conflict miss, and a second line that must not be
  disturbed. The proofs remove the bound.
- *Two voices, three writes, one reset* (`c352`): a voice below the last and the last one (they take
  different branches), and enough writes for key-on, execute and a write into the pass, or a key-on that a
  reset leaves in the RAM and a write after it. The proofs remove the bounds.
  With three voices the safety properties hold as well; that run is left out
  because the interruption of the walk adds nothing new after the second voice.
- *Bursts of 4 from the last of 3 columns, chunks of 2*: the first chunk ends at the row's end after
  one word, the second at the chunk limit, the third at the burst's end. `Refresh` is 41: small enough
  that refreshes fall due in every state of the sequencer, and not smaller than
  `RefreshLeavesRoom` allows. The real 750 is far from it; with much less (below about 28 in
  this instance) refreshes come so close that a client can be overtaken again behind each. The proofs
  remove the other bounds.
- *Timers of 2 and 3 clocks in `save`*: every order of settle, boot, menu and a running save.
  The proof removes the bound.
- *Eight samples, two voices, 30 logs* (`tools`): ten kinds of sound, each turning at its end
  within the eight samples at a pitch of almost one byte a sample, positions on both sides of
  65535, and a second sound over the first; then a key-off, a change, or a key-on.
- *24 settings* (`video`): all four modes with both tile sizes where the code tells them apart, each priority, each kind
  of scroll and fetch, rotation with and without wrapping, along a row and across. The sprites overlap and
  stand on the left and top edges and off the screen.
- *The raster stops after an overrun* (`Advance`): what is shown then is not promised
  to be anything. A reset comes in the middle of a burst (after its first unit) or after an
  overrun; elsewhere it finds the port at rest, as at the start.
- *Files of a few bytes, three files of a name, checksums that collide* (`tools`): enough for each
  branch of the selection to meet one that it must not take.
- *Two runs of the packager*: the second meets everything the first can leave.
  The proof removes the bound.
- *One thing wrong per package* in `JsonCases`, with the instances and slots varied with it and every
  package in both orders of the walk.
- *Unbounded counters*: histories saturate at named bounds (`Patience`, `Old`, 2 in
  `hits`, 2 in `syncs`); `CpuWrites` bounds the strobes of a behaviour, `Samples` the samples.
- Deadlock is checked in every run: the clock can always tick, a script that has ended stands still.

### Fairness

The clock ticks: weak fairness of a clock step in which the environment does nothing
of its own accord. Beyond that each liveness run assumes of its partners only what they
owe: the memory takes and answers a standing request (`romcache`), the sample ROM
answers (`c352`), the cache finds its word (`h8_bus`, what `romcache` shows), the chip's
start-up ends (`sdram`), the pattern port's units come (`video`, what `sdram` shows), the firmware
takes, reads and finishes (`save`). Requests,
writes, menu openings and resets are never forced. `RequestServed` and `RequestAnswered`
hold once resets stop, `ExecuteReaches` unless a reset comes; `EventuallySaved` once the game stops writing, because the code
starts the settle timer again with every write (`core_top.sv` 267).

In `sdram` and `video` the fairness of the clock is written as `[]<><<...>>_vars`, where the step
is always possible (`sdram`), or with the states in which it is not named beside it
(`ClockRuns`): the weak fairness without its ENABLED, which TLC takes long to evaluate.

## 4. Findings

1. `c352_merge` - A CPU write to the flags of the voice the engine is just latching
   (`S_V0`, and `S_E0` in the execute pass) is lost: `late_v` is set by the bookkeeping at
   `c352.sv` 225 and cleared by line 247 (354) in the same clock, while `qb` still returns
   the old word; the write-back of `S_DONE` restores the old key bits. The comment at
   line 20 promises a merge. The window is one clock per voice.
2. `c352_keyon` - An execute that is served before the last voice leaves that voice on its
   old position: `S_E2` of the last voice goes to `S_V0` of the last voice, which reads the
   state RAM in the clock the registered write port writes it, and `S_DONE` writes the old
   position back. `tools/c352_model.py` loads the position before stepping.
3. `h8_ccr` - `finish()` tests the old `noirq` and overrides the new one, so an interrupt is
   taken right after LDC, ANDC, ORC or XORC, which the header (`h8300h.sv` 18-19) rules out.

Comments that disagree with the code without a run of their own, found on the way:

- `sdram_ctrl.sv` 9-10 says fixed priority; lines 138-139 and 172-179 are a round robin.
- `sdram_ctrl.sv` 14-15 says a client never waits for more than one chunk; it may wait for two
  (the request is noticed a clock late, line 161), or three around a refresh; the tight
  bound is `BoundedOvertaking`.
- `sdram_ctrl.sv` 285 speaks of a 7-clock cycle; the next ACTIVE after a write's comes after 6 when
  it is a burst's (`CommandSpacing` states 6). At 96 MHz 6 clocks are 62.5 ns.
- The refresh interval may be stretched by a chunk: with the real numbers to 750 + 1 + 166 clocks
  (`LongestStay` with a slow burst); the controller's rate leaves room for that.
- `docs/core-design.md` 15 gives the 68000 enable as a 16/125 accumulator; it is 32/125 with
  alternating phases, the same 12.288 MHz.

Of the renderer and the scripts, found on the way:

- `ygv608_render.sv` 583-584 says that for an identity rotation only AY's integer part
  matters, and flags that. A rotation of one with column scrolling by table (SLV), with row
  scrolling (SLH) or, on a map of 1024 lines, with SLV, is drawn by `render_model.py` through the
  scrolled path and by the RTL through the rotating one, without the flag. TLC finds `LinesAsReference`
  violated when such a setting is added to those of `MCYgv`. The games do not use them.
- `check_json.py` 45-51 speaks of faults that are reported. A file whose object lacks its key
  (`interact`, `video`, `data`, `instance`) raises `KeyError` and ends the program before any
  fault, of this file or another, is printed (`Raise`).
- `package-pocket.py` leaves a package that it refuses in `release/pocket`, complete except for
  the message; `NoRomShipped` is about what it reports as packaged.
- `mra_build.py` empties the old image before it writes the new one: a process that ends there leaves
  the beginning of the image (`ImageIntended` allows exactly that).
- `diff_frames.py` ignores bit depth and interlacing, takes an unknown filter for none, and reads
  `IDAT` chunks after `IEND`; `pngio.py` refuses or stops. `PictureRead` asks `pngio` alone to refuse.
- `verify_rom.py` carries the layout of another core (its regions are not the ND-1's) and its
  default manifest `docs/rom-regions.sha256` is not in the repository.
- `c352_compare.py` prints PASS when MAME's channel has no block with signal, however loud the RTL's
  is (`if not ratios: continue`).

## 5. Proofs

The eight proof modules are checked by TLAPS to the last leaf, from the named ASSUMEs of the
constants and, where a theorem has one, the hypothesis in its statement.

**RomCacheProofs** - `TypeCorrect`, `AckedWordCorrect`, `LinesCoherentCorrect`,
`AckHeldCorrect`, for any sets of tags and words and any number of lines. `AckedWord` is not
inductive: nothing in it says what the arrays, the memory or a request under way hold. `IInv`
follows the address of the access (`Target`, the pair of `fill_tag` and `fill_idx`) through
the registers: `Walked` (the walk has cleared the lines below its counter), `Coherent`
(off the walk every valid line is the image's), `Looking` (the read registers are the
target's line), `Addressed` (a standing request is for the target), `Filling`, `Answered`
(the answer is the target's word), `MemRight` (the memory works for this miss, or
in the walk for a dropped one). `Drained` and `HeldLongerThanAccess` are part of `Next`:
the proof shows that they suffice. `IInv` was first checked by TLC.

**SaveCtlProofs** - `TypeCorrect`, `DoneIsOwnCorrect`, and `NothingForgottenCorrect` under the
assumption `~CutShort`, for any cells, values and timers. Controller, executer and
firmware are three state machines that only see each other's flags; `Phase` names the four
phases of their conversation (`Resting`, `Asking`, `Reading`, `Ending`), each fixing every flag, and is
inductive by itself. `DoneIsOwn` is its consequence. `Kept` adds what the mark, the timers
and the toggle know of each cell that differs from the file. Without `~CutShort` the property is
false: a write and a reset between two edges of `clk_74a` leave the toggle where it was.

**ClkEnablesProofs** - `TypeCorrect`, `H8PulsesCorrect` and `PhasePulsesCorrect` (the refinement:
initial states map to initial states, each step to a pulse, a clock without one or a restart),
`PhasesAlternateCorrect`, and `PhasesInTurnCorrect` from the last two. The accumulator itself is the
refinement mapping: what it holds after a pulse is less than one step, so its quotient counts the
clocks since. `SampleExactCorrect` rests on `Balanced`: pulses times the wrap plus what is left in
the accumulator is the step times the clocks of the sample, so nothing is lost to the fraction.
`PixelInPhaseCorrect` rests on `Lagging`, the two registers the edge takes to arrive and the ten
clocks by which the divider then runs ahead.

**C352VoicesProofs** - `TypeCorrect`, `MirrorsExactCorrect`, `EachVoiceOnceCorrect`,
`KeyOnFromStartBelowLastCorrect`, and `KeyBitsKeptCorrect` for `{"V0", "E0"} \subseteq QuietStates`
(without it the property is false: finding 1), for any number of voices, sounds of any length, any
flags words and any number of writes and resets. `Mirrored` is `MirrorsExact` without the types: an engine write
and a CPU write of one clock reach RAM and mirrors with the same winner, and take their voice out of `stale`
(`MirrorsStep`); a reset makes every voice stale. `InTurn` adds to `EachVoiceOnce` the place at which an
interrupted walk resumes. `FromStart` looks through the registered write port (`Position`) and
says where the position is in each state of the walk; it is what the last voice does not have
(finding 2). `Copied` says that the engine's copy of a flags word together with the word
written since is what the RAM holds, which is why the merge loses nothing.

**SdramCtrlProofs** - `DeviceRulesCorrect`, `RefreshOnTimeCorrect`, `AckedOwnCorrect`,
`BurstInOrderCorrect`, `BoundedOvertakingCorrect`, for any number of clients, any addresses, rows,
chunk, gap and burst length. `Controlled` fixes for each state of the sequencer what
the chip's row, the command and the wait counter can be. `Timely` bounds the clocks since the last
refresh by how long the present stay has lasted, which is what `RefreshOnTime` forgets. `Reading` and
`Singles` follow one tagged word through the capture pipeline, with the requests that a reset took
away. `Phase` names the five phases of a burst; `OnCourse` counts the words in each stage of the
pipeline and gives their addresses, so that an index or an address cannot be lost between two
chunks. `Overtaking` needs all of these and the place of the round robin: a client that has been
passed once by each other is next. Its hypothesis `RefreshLeavesRoom` compares the refresh interval with
one turn of all clients; the run's module assumes it, so TLC evaluates it, and the code's 750 clocks leave that room.

**H8SubProofs** - for any decode (`DecodeAssumption`: every address has one slave), any program of
the instruction classes, resets at any clock: `TypeCorrect`; `OwnWordCorrect`, `OncePerRequestCorrect` and
`EdgeKeptCorrect` with `MinGap >= 3`; `TakenIsPendingCorrect` with `MinGap >= 5`;
`DivideReadyCorrect` with `DivStates * MinGap >= DivClocks + 2`. The enable's gaps are 5 and 6
(`H8PulsesCorrect`), a division waits 12 states for 32 clocks: the hypotheses hold in the code, and
`MCH8Sub` assumes them. `Words` says where a request is between the core's toggle, the wrapper
and its slave (`Handshake`, and one conjunct for each kind of slave); `Counted` that the access was made on the clock
before the ack, on chip with it. `Left` says what is left of an instruction can only be a tail of
one: a division is followed by its quotient, sleep is last. `Vectored` bounds how old the registered vector can be when the core
may take it, `Acknowledging` follows the acknowledge pulse; `Kept` follows an entry to the clock that clears the flag,
so an edge in between survives. `Dividing` adds the states still to be waited to the divider's counter.

**YgvRenderProofs** - `TypeCorrect`, `OverrunTellsCorrect` and `FetchedOwnCorrect`, for a picture of any
size, any pattern ROM and any registers of the widths of `ygv608.sv` (`Widths`). That the
registers keep to their ranges needs to know that what is read was filled: a tile's row of pens is complete when it
is written (`Tiling`), a sprite's block lies in the sprite (`Spriting`), a texel in the tile that was
fetched (`Rotating`, `Answering`). `OnLine` says that without the flag the line being drawn is the
raster's own, or the frame is over; so a line cannot be shown while it is drawn unless the start that came too early
has met `busy`. `FetchedOwn` is not a property of the run (TLC agrees with it on the run's instance): it says that
each unit taken is the one asked for. `Owned` ties a burst to the
waiting request and says that the burst which a reset leaves behind has ended before a line
begins; `JustRead` is the unit on the wires (`ygv608_render.sv` 70-71: pat_q "still holds it"); `Stored` counts the
units that are in `tbuf`, one clock after they were read.

Two theorems reduce what the run checks of the picture to the drawing of one line. `LinesFollow`: if every line whose last
phase is over holds the reference's row (`Finished`, a state predicate), the renderer implements `LineBuffer`
(`LinesAsReference`): a step rests, begins, draws or ends a line (`Strokes`) and touches one bank only.
`SnapshotFollows`: if it implements `LineBuffer`, every complete unspoilt frame passes the comparison
(`SnapshotMatches`). `Followed` says that the line before the one being drawn is ready, and
so is that one once it is drawn, so every line shown is the reference's or torn; a picture turned to MAME's
snapshot and back is the picture (`TurnedBack`). Both have a premise that only TLC checks: `LinesAsReference` is
in the run, and with `Followed` TLC agrees with `Finished` on the run's instance. `LineBuffer` lets a reset forget
a line only together with the setting, or a line that is never finished would pass for one.

**ToolsProofs** - `NoRomShippedCorrect` and `PackageExactCorrect`, for any trees, names, bitstreams and
number of runs, with the process stopped anywhere. `NoRomShipped` speaks of a package that is
reported; the invariant `Checks` says what the backstops have seen before each step, and that nothing
changes the directory after them. `Contents` gives the directory after each step as an
expression of the inputs alone; at the end that is `PackageExact`. That REV reverses the bits of
a byte is a lemma of its own (`RevReverses`, from `BitsOfSum`). It assumes that a bitstream
is a sequence of bytes (`RbfAssumption`).

Of the other tools it proves

- `PassedWorksCorrect`, for any packages that are what `PackageAssumption` says a parser returns. `Inspected` is what
  is known of the files visited so far when nothing was flagged; each rule of the script then has its
  counterpart in what the Pocket does.
- `SameSampleCorrect`, for any number of voices and any log of register writes. RTL and reference walk the
  voices in their own ways: the engine copies a voice into working registers, the model updates it in place and
  has finished its walk when the engine begins. `PathInv` says that at each voice the working copies
  are what the model's walk has there (the value of its recursive function at that voice), and that
  the voices still to come are those it began with. Below it are one lemma per piece of arithmetic: the position
  and its loop, the ramps, the noise register, the product in two halves and the mix (`Iterates`, `Walks`, `TakenAgrees`,
  `TablesAgree`). The theorem has the hypothesis `RomOfBytes`, that the sample ROM holds bytes; its domain is too
  large for TLC to evaluate it as an ASSUME, and the run's ROM is bytes by its definition.
- `VerdictExactCorrect`, for any dumps, images and layouts that are what `DumpAssumption`, `ImageAssumption`
  and `LayoutAssumption` say. `RomInv` gives the manifest as a numbering of the dump's headings and the
  counts as the verdict on its first entries; the region spread over five bytes a group is read group by group (`GroupsInRow`).
- `PictureReadCorrect`, for any pictures, palettes and filters that are what `SceneAssumption` says. `PngInv`: after `y` lines both
  decoders hold the first `y` lines of the picture and the line above, or `pngio` has refused the file or
  not yet met the filter it must refuse. A line is got back (`Unfilters`) because the line that was coded
  satisfies the recursion of the decoder, which only one function does; that the nearest of three neighbours is
  what the nested comparisons of both scripts pick is `NearIsPaeth`. `StreamLine` finds a line in
  the joined stream, `PixelRead` its colours by colour type.
- `ReportTrueCorrect`, for any frames and pictures. `ReportInv` adds to `PngInv` that the frame which is compared is the
  bench's: straight from the PPM, whose header ends at the third newline though bytes of the frame may be newlines too
  (`PpmTaken`), or through the PNG that `ppm2png` writes (`WrittenRead`). The cells add up to the count because the
  parts of a finite set do (`PartsAddUp`), and a mark is told from a dimmed tone because a third of a byte is
  never 255 (`RedOrDark`).
- `ImageIntendedCorrect`, for any descriptions and romsets that are what `DocAssumption` and `RomsetAssumption` say: each digit of
  an interleave has one place, each place of a word at most one digit, a checksum is of the contents that are meant.
  `Made` in `MraInv` says of the image so far that each node taken lies where the sizes before it put it; a part that is got
  by its checksum is the one that was meant (`PartIs`). `WovenHolds` is about one interleave: as many digits as
  a map has, none twice and none too large, are all the digits from one (`DigitsFill`), so no byte of a part
  is left out, and no place is written twice (`OneGiver`).

The library's induction theorems cannot be used (their parameter is an operator). Where a theorem
needs induction over the data the proofs take the least counterexample instead
(`NatLessThanWellFounded` with `WFMin`), which is a statement about a set.

Only model-checked:

- *Liveness*: `RequestServed`, `ExecuteReaches`, `RequestAnswered`, `EveryoneServed`, `LineFinishes`,
  `EventuallySaved`. Fairness and ENABLED are beyond the prover.
- *That a line is drawn as the reference draws it* (`LinesAsReference`, and with it `SnapshotMatches`): the renderer
  draws a line step by step and the reference gives each pixel by itself, so the proof is an equality of two
  programs over all registers: the order of the planes, the tile of each pixel, the block order in a tile. What is
  proved is that each unit read is the one asked for (`FetchedOwnCorrect`) and everything around the drawing
  (`LinesFollow`, `SnapshotFollows`).
- *What the three violated runs show* is a counterexample and needs no proof.

## 6. Not modelled

- *68000 bus* (`ncv1_main.sv`), the 68000's port of the shared RAM, and the YGV608's register port and
  status flags. Hazards there: both CPUs at one shared word in one clock (`shared_ram.sv` 46), an
  acknowledge that meets the raster's flag (`ygv608.sv` 395), a write to the ROM or to the EEPROM's lower lane,
  which is never acknowledged (`ncv1_main.sv` 121 and 142; the H8's counterpart is `ncv1_sub.sv` 77).
  `H8Sub` and `YgvRender` have that side as environment.
- *The image loader's half of `ncv1_mem.sv`*: byte pairing and ageing (line 61) and the 64-entry FIFO
  without a full test (line 75), which relies on the loader's rate.
- *The H8/3002's timers beyond one source*: a 16-bit store to TCNT is two staged bytes that land
  some states later (`h83002.sv` 221).
- *Two malformed maps of `mra_build.py`*: line 153 assigns to a slice. In an interleave with `output="8"` the step is 1,
  and a digit above 1 shortens the image instead of raising; a digit past the part's last byte has an empty right side, which deletes
  from the image. `MapAssumption` excludes both (a description of MAME's has neither).
- *What the program must do about a voice after a warm reset*: `C352Voices` has the reset and what is left in the RAMs, but no property
  says a voice is silent after it, because it need not be: a word with BUSY goes on playing, and when it is written back
  its key bits are in the mirrors again; an execute cut off by a reset in `S_E2` has set BUSY and not the position
  (`eng_flags_we` is combinational, `st_we` a register that the reset clears). What the sound
  program writes when it starts again is in its ROM, not in the repository. Nor has the module the sticky overrun flag, which nothing in the core reads.
- *What `SaveCtl` assumes away*: a reset within one clock of `clk_74a` after a write (`CutShort`; with
  it TLC finds the lost write), and a firmware that reports an error, which the code ignores
  (`core_top.sv` 277).
- *Data paths without a reference in the repository*: the CPU's ALU, the reverb, the pixel
  pipelines of the Analogizer and the overlay.
- *The formats around the reference models*: the dump's and the register log's text, WAV files, command
  lines. `c352_compare.py` is floating-point statistics.
- *Vendored code* (fx68k, platform framework, Analogizer encoders), of which only what this core uses appears as
  environment; test benches and build scripts.
