# Verification of bare-metal-diffusion

TLA+ modules, TLC configurations and TLAPS proofs for the programs of this
repository:

* `uefi/Heat2D.c`, a UEFI application that simulates heat in a heatsink, paints
  it to the frame buffer and lets the user add heat, and its older fixed-point
  version `uefi/archive/Heat2D.c`;
* `metal/Heat2D_ramfb.cpp`, a similar demo on QEMU's `virt` machine without
  firmware;
* the three small programs that only have a serial line: `hello.world/c`,
  `hello.world/rust` and `matrix-mul`.

Line numbers without a file name are lines of `uefi/Heat2D.c` (and, where the
ramfb program is spoken of, of `metal/Heat2D_ramfb.cpp`).

## 1. Inventory

| Component | State it keeps | Operations | Talks to | Status |
| --- | --- | --- | --- | --- |
| UEFI main loop (`UefiMain`, Heat2D.c:675-936) | six pools, the pointers `A` and `B`, `bc`, `Paused`, the brush, `paletteIdx`, `dirty` | start-up checks, allocation, one handler per key, paint, step and swap, render, exits | the firmware's key queue, `PollPointer`, the solver, the drawing routines | modelled: `Heat2D` |
| Heat solver (175-261, 651-672, 843-880) | two temperature fields, face conductivities | `ApplyBoundary`, `StampDisk`, `StampRectMax`, `KFaceHarmonic`, `PrecomputeFaceConductivities`, the hot loop | called by the main loop | modelled: `HeatGrid`, `HeatField` |
| Pointer input (446-560, 827-841) | cursor, last touch position | `InitPointer`, `PollPointer`, pixel to cell | the absolute and the simple pointer protocol | modelled: `PointerMap`, `Pointer` |
| Heatsink geometry and heat sources (562-649, 745-764) | material map `Mat`, conductivities `K`, three rectangles | plate, fins, die; source layout | feeds the solver | modelled: `HeatsinkGeometry`, `Heatsink` |
| Frame buffer drawing (263-444, 773-791, 882-922) | the frame buffer | scaling, `DrawRect`, `DrawCursor`, strings, footer, legend | GOP frame buffer | partly: `Screen` |
| Colours and pixel formats (22-172; Heat2D_ramfb.cpp:235-300) | the colour tables | palettes, interpolation, `BuildPaletteLut`, `PackPixel` | drawing | partly: `Ramfb` has the ramfb program's |
| fw_cfg DMA and ramfb bring-up (Heat2D_ramfb.cpp:104-215, 380-417) | descriptor `g_dma`, the file found | `fw_cfg_dma_transfer`, `fw_cfg_find_file`, `main` up to the first paint | memory system, QEMU's fw_cfg device | modelled: `FwCfgDma` |
| ramfb simulation and main loop (Heat2D_ramfb.cpp:97-102, 224-377, 419-445) | fields, colour tables, frame counter, palette | red fill, `delay_ms`, `build_luts`, `reset_field`, `step_sim`, `render`, rotation of palettes | frame buffer, generic timer | modelled: `Ramfb` |
| UART output, decimal printing (hello.world, matrix-mul) | the PL011's registers and FIFO | `uart_init`, `uart_putc`, `uart_puts`, `print_num`, `uart_print_int` | PL011, the terminal behind it | partly: `Serial` |
| Start-up code (four assembly files) | `.bss`, the cores, floating-point traps | park the other cores, enable floating point, clear `.bss`, call main | everything after it | modelled: `Start` |
| Matrix multiplication (`matrix-mul/kernel.c`) | three matrices | `my_rand`, the product loop, progress reports | UART | modelled: `Serial` |
| Archived fixed-point version (`uefi/archive/Heat2D.c`) | two Q16.16 fields, 16-bit face conductivities | the same loop in integers | keys, pointer, frame buffer | partly: `HeatQ16` |
| Compiler support, build files, older copies | | | | left out: no behaviour of their own |

**How they interact.** Everything in the UEFI program runs on the firmware's one
thread; the loop body is keyboard, pointer, step, render, stall. The
environment is concurrent: keys arrive in the firmware's queue and pointer
devices change state between any two of those parts. The parts share the two
temperature buffers (painted through `A`, computed into `B`, then swapped) and
the flag `dirty`, by which every handler tells the render section that the
screen is out of date. In the ramfb program three parties act during the
bring-up: the program, the memory system that makes its stores visible, and the
device; afterwards the program and the timer that runs on. In the serial
programs the start-up code hands memory and one core to main, main hands
characters to the UART one at a time, and the UART sends them when it likes.

**What is hard.** Two buffers that are swapped and only partly rewritten by a
step; a flag that must be set by all who change what is shown; keys handled one
by one in a loop that runs as long as there are any; two pointing devices that
may or may not answer a poll; allocation that may fail in part; integer geometry
that stores without bounds checks; a screen that is never erased; a DMA
descriptor whose control word means "done" both before and after a transfer;
counters that wrap (frames, ticks, a 32-bit product); several cores in one
start-up code; a FIFO of a few characters; line ends done in three ways.

**What makes each part correct.** Solver: no overshoot, heat neither made nor
lost at a face, no stale edge cell. Main loop: the two-buffer loop is the
one-field simulation, the screen is current when nothing is to be redrawn, every
exit frees what was allocated, Esc ends the program. Pointer: the cursor stays
on the screen, every move gets it redrawn, the press paints what is drawn under it.
Geometry: stores stay on the grid and the parts are where they should be.
Drawing: nothing outside the screen, nothing left of earlier frames. Bring-up:
the device sees whole requests, completions are real, painting starts only on a
configured display. Ramfb demo: whole frames in right colours, the rotation's
period, delays that are long enough. Fixed point: the floating-point solver's law
in spite of rounding. Serial programs: clean memory on one core, the expected
lines, each once, at the right rate. `PROJECT.json` lists the hazards line by line with the
properties aimed at them.

## 2. Modules

| Module | Models | Uses |
| --- | --- | --- |
| `HeatGrid` | grids, stamps, boundary modes, face conductivities, the conduction step, as operators | |
| `HeatField` | abstract specification: one field, painted, cleared, advanced | `HeatGrid` |
| `Heat2D` | `UefiMain`: start-up, every key, pointer, step and swap, render, exits; implements `HeatField` | `HeatGrid`, `HeatField` |
| `PointerMap` | the pointer's coordinate arithmetic | |
| `Pointer` | `InitPointer`, `PollPointer` and the two devices | `PointerMap` |
| `HeatsinkGeometry`, `Heatsink` | the boxes of the heatsink and the sources; filling the map box by box | |
| `Screen` | the frame buffer, pixel by pixel, over many frames | |
| `FwCfgDma` | bring-up of the ramfb display by DMA | |
| `Ramfb` | the rest of the ramfb program, composed with the bring-up | `FwCfgDma` |
| `HeatQ16` | the archived fixed-point program; keeps `HeatField`'s law | `HeatGrid`, `HeatField` |
| `Start` | reset to main in the four bare-metal programs | |
| `Serial` | the three serial programs, PL011 and terminal | `Start` |
| `SumTheorems` | what sums over finite sets are, and quotients | |
| `HeatGridProofs`, `HeatFieldProofs`, `Heat2DProofs`, `HeatQ16Proofs`, `ScreenProofs` | theorems and proofs | the module of that name |
| `GeometryProofs` | theorems and proofs | `Pointer`, `Heatsink` |
| `BareMetalProofs` | theorems and proofs | `Ramfb` with `FwCfgDma`, `Serial` with `Start` |
| `MC*` | constants for TLC | the module of that name |

### How state and actions correspond to the code

* **`HeatGrid`.** A cell is `<<i, j>>`, `T[j*NX + i]` in the code. Floats in
  [0, 1] become integer levels 0 .. `Hot`; the step rounds down to a level, the
  face conductivities to units of 1/`KOne`, and `baseR` = `RNum`/`RDen`. Rounding
  is the abstraction here: what the code's floats round to is not modelled.
  `Diffuse(T, U)` takes the target buffer `U` as well, because the hot loop
  writes its interior only.
* **`HeatField`** has two next-state relations. `Next` is the floating-point
  solver on one field. `LawNext` is the law any version has to keep: the field
  is painted and cleared in the same way, and a step (`LawfulAdvance`) leaves every
  interior cell between the coldest and the hottest of itself and its neighbours
  and every edge as the boundary mode demands. `Heat2D` implements the first,
  `HeatQ16`, which rounds differently, the second.
* **`Heat2D`.** `pc` is the section of the loop body that comes next; each key
  handler is an action, as are one pass of pointer, step and render. `mem` holds
  the contents of both buffers, `A` and `B` which of them the pointers name.
  `dirty` and `screen` (the view last drawn: field, colour table, label, cursor)
  stand for rendering. `Type` is the user, at any moment. The pointer is a choice
  of cell and button here; how that choice comes about is `Pointer`.
* **`Pointer`.** `PollPointer` is one poll with both `GetState` calls. A device
  has its own state and a flag whether it has news; a touch screen may repeat an
  old state, the mouse adds up counts until it is asked. Its four branches (`Drag`,
  `Roll`, `Hover`, `Rest`) each have their own computation of "moved", as in the
  code. Of the main loop the module has what heeds the answer: `dirty`, and `Render`,
  after which `crosshair` is the cursor on the screen; `Stir` is whatever else sets
  `dirty`. `PointerMap` has both mappings of a pixel to a cell: `GridCell`, by
  which a press paints, and `DrawnCell`, the cell whose colour is drawn there. Above
  `SkipAbove` pixels (1920 x 1080) only every other row and column is drawn, in
  blocks twice as large (`drawSkip`), while `GridCell` does not skip: there a press
  may be centred on a cell that is not itself drawn. `travel` is a history variable for
  one property.
* **`FwCfgDma`.** A transfer is four steps (`Store`, `Barrier`, `Ring`,
  `PollDone` or `PollError`). `desc` is the descriptor as memory holds it,
  `pending` the fields whose store is still on its way; `Drain` lets them arrive
  in any order, `Barrier` waits for all. The program reads its own pending store
  of the control word, as a CPU does. The device fetches the descriptor some time
  after the doorbell and answers or fails later. `owed` counts transfers not yet
  answered (history). Byte order is left out: both sides swap.
* **`Heatsink`.** A box is written as a whole, as the code's loops do; the action
  order is the code's. The grid size is chosen in `Init`, because the guide
  invites the reader to change it.
* **`Screen`.** A frame is computed as the code draws it: blocks of cells, then
  crosshair, legend, footer, later strokes over earlier ones, over what was there.
  Inks stand for colours. Unlit bits of a character are left out: they show what
  is below, which the same frame has drawn. The display (resolution, grid, skip
  threshold) is chosen in `Init`.
* **`Ramfb`.** `phase` is what main does once `FwCfgDma` has reached "paint"; the
  bring-up's steps leave it alone, and the demo leaves the bring-up alone.
  Pixels are linear addresses, as in the code. `delay_ms` is a loop that reads a
  counter which advances by any number of ticks up to `MaxGap` between two reads;
  it wraps, as does `frame`. Palettes, `lerp_u8`, `sample_palette` and
  `build_luts` are computed exactly, in hundredths, where the code has floats.
  `g_next` is not a variable: `step_sim` writes all of it before copying it back.
* **`HeatQ16`.** The same sections of the loop as in `Heat2D`, but in the code's own
  integers: five shifts that round down, below zero too, a 32-bit product under the
  harmonic mean, the final clamp. `Hot` is `Q16_ONE`, so a run can scale the width
  down. The grid operators are `HeatGrid`'s, whose `ApplyBoundary`, `StampDisk` and
  `StampRectMax` do what this file's `...Q16` versions do.
* **`Start`.** `Enter` is everything before the loop, `CountedStore` is
  matrix-mul's loop (a count down to exactly 0), `ComparedStore` and `CallMain` are
  the loop of the other three (two addresses compared). Addresses count from the
  start of `.bss`.
* **`Serial`.** `out` holds what the running print has still to send; main goes on
  when it is empty. A word of fixed text is one token, a decimal number a token
  per digit, a line end its own characters, because the properties are about
  digits, lines and line ends. `Putc` is the poll and the store, `Transmit` the
  device. A character written to a full FIFO is lost (`Taken`), and while the
  divisors do not make 115200 baud any character may arrive as something else
  (`Arrivals`). The terminal keeps its line, whether the cursor is at the left edge,
  and the line completed last; `row` (history) changes with every line feed, so that
  a line printed twice in a row counts as two. `NoLine` stands above the first.
  Which of the matrices in `Matrices` `my_rand` gives is a free choice.

Operators whose comment begins with "Mutant:" are wrong on purpose. Nothing uses
them; put in the place of the definition next to them, they show that the
property named in `PROJECT.json` ("mutants") notices such a bug. Three stand beside
the one that is listed for their property: `StepLosesBuffer` breaks `PoolsOK`, and
`PutcAtOnce` (characters lost to a full FIFO) and `PrintNumAsBuilt` break
`LinesRight`, as does `LineControlFirst`, which is listed for `BaudSafe` (characters
garbled at the old rate).

## 3. Runs

| Run | Instance | Shows |
| --- | --- | --- |
| `field` | `MCHeatField`: 4 x 4 cells, copper beside air, 7 levels | temperatures stay in range; the solver keeps the law (`LawSpec`); heat balance; no swing in time (`NoSwing`) |
| `solver` | `MCHeat2D_solver`: 4 x 3 cells, keys esc, space, r, c, b, 1; queue of 1 | `Heat2D` implements `HeatField`; the pools, on the exits of a failed start and of Esc too |
| `ui` | `MCHeat2D_ui`: 3 x 3, keys esc, space, p, +, -, other; queue of 2 | types; the screen is current; Esc quits; frames keep coming |
| `clear_keeps_sources` | `MCHeat2D_clear` | a violation, see section 5 |
| `pointer` | `MCPointer`: 7 x 3 pixels, 3 x 2 cells, every other row and column skipped, both devices | types; the crosshair shown is the cursor unless a frame is due; idle touch yields; paints what is drawn under the cursor |
| `slow_mouse` | `MCPointer_slow` | a violation, see section 5 |
| `dma` | `MCRamfb`: six directories, a device that may fail any transfer; then 10 x 8 pixels, 5 x 4 cells, the program's palettes | whole requests, real completions, configured display; the bring-up ends, on the screen or halted for a reason. Then: whole frames in the right colours, the field's law, the palette's period, delays, frames for ever |
| `heatsink` | 150 grid sizes, 260 x 220 among them | in bounds, a comb, sources on the plate |
| `screen` | `MCScreen`: 11 x 14 pixels for 3 x 5 cells with every other row and column skipped, 4 x 11 for 6 x 5, 6 x 9 for 3 x 3 | stays on the screen, no residue, the crosshair shows |
| `q16` | `MCHeatQ16`: 4 x 4 cells, 3 bits after the point | keeps the law, rounding never makes heat, the screen is current |
| `harmonic_faces` | `MCHeatQ16_faces`: the same | a violation, see section 5 |
| `serial` | `MCSerial`: two cores, `.bss` of 0 to 20 bytes, a FIFO of 2, 5 x 5 matrices, three reports | main is entered on clean memory by one core; the lines, their ends, the rate; the product is right and reported rows are final; each program says what it is for |

**Bounds and why they are enough.**

* Grids (`NX`, `NY`): 3 x 3 is the smallest grid with an interior cell; 4 x 3
  has an interior face, 4 x 4 a face in both directions and corners that differ
  from each other. Copper is placed so that copper-copper, copper-air and air-air
  faces occur. The theorems do not depend on the size.
* `Hot`, `KOne`, `KAir`, `RNum`/`RDen`: `field` uses the code's own 1 : 100
  contrast and baseR 1/5, `Heat2D`'s runs a contrast of 1 : 2 and the limit case
  1/4, with few levels, so that fields are few but heat does spread.
* `MaxQueue` bounds the keys waiting (1 or 2). One is enough for every order of
  keys, since they are handled one at a time; `ui` has two, so that Esc waits
  behind a key.
* `CursorCells` in `Heat2D` is one corner cell: painting on the edge is the
  case the boundary conditions make interesting. `BrushRads`: 0 or 1 there.
* `Pointer`: with 7 x 3 pixels and 3 x 2 cells a cell is 2 x 1 pixels and there is a
  margin on both axes; `SkipAbove` 20 makes the screen one on which rows and columns
  are skipped, the harder case, with an odd number of columns. The theorem has
  both. `MaxCount` (mouse counts between polls) is `RelScale`, so that polls with
  less than a pixel and with a pixel occur; `travel` is capped at `RelScale`, where
  its property is decided.
* `Dim` in `Screen` shrinks the measures of legend and footer so that they
  overlap field, margin and edges of a small screen; `hot` and `cursors` of a
  display name two cells and three or four pixels, among them a corner, a pixel
  under the legend, and one in the margin.
* `MCHeatsink`'s widths start at 105, below which fins merge at the plate's end, and
  its heights at 20, where the sources just fit.
* `Ramfb`: the scale is 2 x 2 pixels a cell where the code has 4 x 4, so that a
  block has both a next row and a next column; with 5 x 4 cells the middle disk of
  radius 1 (code: 7) leaves interior cells that are not the source. 20 levels and
  6 shades: a shade lies in each of a palette's three segments. `Period` 3 and
  `FrameWrap` 8 (600 and 2^32): the wrap falls inside a period, as in the code.
  `TickWrap` 16 (2^64), `MaxGap` 2: a delay begins at any counter value and wraps
  under it, and the loop may step over its deadline; one frequency is not a
  multiple of `PerSecond`.
* `HeatQ16`: with 3 bits after the point (code: 16) the copper-copper product wraps
  as it does at the code's width, and every step rounds; copper is 7/8, air 1/8,
  baseR 2/8. The theorems hold for every width.
* `Serial`: `.bss` of 0, 4, 16 and 20 bytes has the empty case, several words, and
  two sizes that are no multiple of 8 (not for matrix-mul, section 6). A FIFO of
  2, or 1 when disabled, is full most of the time. `Every` 2 and `N` 5 (50 and
  1000): reports of the rows 0, 2 and 4, with a row without one between them, and
  the last row has one. `Matrices` has one with 0.7 everywhere and one whose
  neighbouring elements differ: sums with a fraction and of up to three digits.
  `CounterMod` 12 (2^64): one and
  two digits and the wrap.
* `CHECK_DEADLOCK FALSE` appears in `MCHeatsink.cfg`, because building ends, and in
  `MCSerial.cfg`, because hello waits for events and matrix-mul spins once all is
  said.

**Fairness.** `Heat2D!FairSpec`: weak fairness of `Program`, the one thread that
never waits for anything (the loop polls, `Stall` returns). The user has none.
`FwCfgDma!FairSpec`: weak fairness of the program, of each store (memory takes
it in the end) and of the device. The last is an assumption on QEMU: the polling
loop (line 158) has no time limit, so a device that never answers hangs the
program. `Ramfb!DemoSpec` adds weak fairness of the demo, which waits only for a
counter that advances. `Serial!SerialSpec`: weak fairness of the program (a
core that is not parked runs) and of an enabled UART that has something to send.

## 4. Proofs

TLAPS checks, for every value of the constants that the named assumptions allow:

* **`SumTheorems`.** The models add up heat over cells and products over k with
  `SumFunctionOnSet`, a fold that takes its set apart in an order of `CHOOSE`'s
  making. `SumAdd` shows that the order does not matter, and from it follow sums of
  sums, multiples, disjoint unions, renamed sets (`SumPlus`, `SumTimes`, `SumUnion`,
  `SumRename`), and that opposite terms cancel (`SumOpposite`, `SumFaces`). The
  induction theorems of the library cannot be instantiated by the provers, so the
  module takes the induction from `WFMin`: a property is a set of numbers
  (`NatSetInduction`) or a set of subsets, and of the ones left over there would be
  a least.
* **`HeatGridProofs`.** `ConductedBetween`: an explicit step leaves a cell
  between the coldest and the hottest of itself and its neighbours. It rests on
  `HarmonicBound` (a face conducts at most like copper), `StepBetween` and
  `DivBetween` (rounding down stays between integer bounds), and on
  `4 * RNum =< RDen`, the stability comment of Heat2D.c:742.
  `BoundaryForgetsEdges`: the result of `ApplyBoundary` is a function of the
  interior. `InnerFacesCancel`: whatever flows through the four faces of a cell, if
  the right face of a cell is the left face of the next one with the opposite flux,
  and likewise down and up, the sum over the interior is that over the outer faces.
  The pairing is `Right`, from the cells that have a right neighbour inside to those
  that have a left one.
* **`HeatFieldProofs`.** `TypeCorrect`, and `KeepsLaw`: the solver implements
  `LawSpec`. It needs that `ApplyBoundary` leaves its own result as it is
  (`BoundaryIdempotent`). `Balanced` (`HeatBalance`): the harmonic mean is
  symmetric, so inner fluxes are opposite and cancel; an outer face carries nothing
  when insulated, because `ApplyBoundary` copied its cell, and heat only outwards
  when the edge is cold.
  `StepsInOrder`, the comparison principle: of two fields one of which is nowhere
  hotter than the other, the same holds after a step in the same mode. For a cell it
  is the stability condition once more: what a cell gains, its four faces take away
  at most four times copper's share of (`FluxFalls`), and a quarter of four shares
  is no more than the gain, rounding included (`StepShift`); stamps and boundary
  modes keep the order. From it `OneWay` (`NoSwing`), by comparing a field with its
  own successor.
* **`HeatQ16Proofs`.** `OutBetween`: four products rounded down one by one, and the
  fifth rounded again, still leave a cell between any bounds of its neighbourhood.
  A shifted flux lies between the shifted bounds (`FluxShifted`) because faces
  conduct at most like copper (`FaceU16Bound`, whether or not the product wraps) and
  the bounds are whole temperatures; hence the code's clamp never acts. From it
  `TypeCorrect`, and `Lawful`: the program implements the law (`KeepsLaw`), its
  swap as in `Heat2DProofs`. `ScreenSafe` is its own. `CopperFaceHalved` states the
  wrap at the code's width: 32766 where copper meets copper, right elsewhere.
  `NeverHeats` (`RoundingNeverHeats`): each of the four shifts and the fifth rounds
  down, below zero too, so a cell gains at most its exact fluxes; these cancel inside
  the grid whatever the face conductivities are, wrapped ones included, since both
  cells of a face read the same entry of `KxU16` or `KyU16`.
* **`Heat2DProofs`.** `TypeCorrect`, `PoolsSafe` (`PoolsOK`), `ScreenSafe`
  (`ScreenCurrent`) and `Implements` (`Refinement`). `TypeOK` is inductive because
  `HeatGridProofs` shows that no grid operator leaves the range. `PoolsOK` needs
  the pools of every pc, `OutOfMemory`'s among them. `ScreenCurrent` does by
  itself once stated for all loop sections. `Implements` maps each step to a paint,
  a clear, a mode change, an advance or a stutter; the step that swaps is the
  hard one, and `BoundaryForgetsEdges` removes the other buffer's old edges from
  it. `Fresh` is needed because `Setup` assigns the modes a second time.
  `SameGrid` identifies the instance's grid operators with the program's.
* **`GeometryProofs`, the pointer.** `TypeCorrect`, `IdleTouch`, `CrosshairKept`
  (`CrosshairCurrent`), and `PaintsRightCell` for every screen at least as large as the
  grid, with or without skipped rows and columns. On a smaller screen the two
  mappings do disagree, so the theorem has that assumption. `GridCellIsUnder` says
  which cell a pixel of the grid lies in (by `DivCancel`), `DivTwice` that the enlarged
  block drawn there is the one of that cell's even neighbour, at most one cell away
  on either axis: within the smallest brush. `CrosshairKept` goes through the
  branches of the poll (`PollGoes`): each either reports or leaves the cursor alone.
* **`BareMetalProofs`, the bring-up.** `TypeCorrect`, `DescriptorSafe`,
  `CompletionSafe`, `PaintSafe`, as theorems of `FwCfgDma`'s `Spec`; `BringUpKept`
  carries them over to the whole program (`DemoSpec => Spec`). The inductive
  invariant has three parts: `Shape` (types, and that at most one transfer is under
  way), `Handshake` (what memory and device may
  hold at each pc: before the doorbell the device is idle, between doorbell and
  answer the descriptor is the request, after the answer it is `Done` or
  `Error`), `Search` (position of the device against index of the program, and
  that no earlier entry has the name). None of the properties is inductive: a
  poll that reads `Done` is safe only because of the handshake, and the file is
  the first of its name only because program and device count alike.
* **`BareMetalProofs`, the ramfb main loop.** `DelaysKept` by the invariant `Timed`: while
  `delay_ms` waits, the unsigned difference of counter and start is the time
  waited. It is preserved because a delay and the longest turn of its loop are
  together less than the counter holds (`RamfbAssumption`; lemma `Elapsed` does the
  arithmetic). `RotationKept` by `Framed`: the frames shown with the palette are
  the remainder of the frame counter. `DrawsSafe` joins the invariant that nothing
  is drawn before "paint" with `PaintSafe`. It follows from `PaintConfigured` for
  the drawing code too, so no run checks it again. `FramesWhole` (`FrameWhole`) and
  `FieldLawful` (`FieldLaw`) rest on `Pictured`: from the reset of the field on, the
  tables are built and the field holds levels, and a drawn frame has every pixel in
  its cell's table entry. That each pixel has exactly one writer is division with
  the scale (`PixelWriter`); that an entry is the right colour is `TableRight`, by
  the segment of the palette (`SampleClose`), rounding on a line (`LerpClose`) and
  packing and unpacking three channels (`Unpacked`). `StepBounds` is the explicit
  step with cooling in whole numbers.
* **`BareMetalProofs`, start-up.** `StartSafe` (`MainReady`) for every number of cores
  and every size of `.bss`. The invariant `Booted` says that what is cleared is
  everything below the master's pointer (`Core`), that in matrix-mul the pointer and
  the count left add up to the size, and that the count is a multiple of 8 and never
  0 inside the loop: without the last part the loop would miss 0.
* **`BareMetalProofs`, the UART.** `BaudKept` (`BaudSafe`). `Tuned` follows `uart_init`
  write by write: until the last one hello has sent nothing, and the divisors take
  effect with the line control register while the UART is off. Two consequences are
  used below: what is sent arrives as it is (`ArrivesAsSent`), and what `uart_putc`
  writes is taken (`TakenWhole`).
* **`BareMetalProofs`, the product.** `ProductCorrect` (`ProductRight`) for every size
  and all contents. `Multiplied` says which products a cell of C holds in the middle
  of the loops: of row i, the k of the passed rounds, and the current k left of the
  column j (`Summed`). One pass adds one product (`SumAdd`), and the counters go on
  to a cell with the same sum.
* **`BareMetalProofs`, the text.** `LinesStraight` (`NoStaircase`) by the invariant
  `Lined` on what is on its way, the FIFO followed by the rest of the text: in hello
  and rust a line feed comes after a carriage return or finds the terminal at the
  left edge, in matrix-mul a carriage return comes after it, or is the next thing to
  arrive (`Straight`). It needs `Tuned` and `Multiplied` for the registers and
  numbers, that `CrBeforeLf` does what its name says to every text (`FlattenWithin`),
  and that numbers are printed as digits: `DigitsTurn` shows that the recursion that
  defines `Digits` has a solution, by induction as in `SumTheorems`.
* **`BareMetalProofs`, the lines.** `LinesFollow` (`LinesRight`) and `ReportsTrue`
  (`RowsFinal`). Neither is inductive: that the next line is right depends on
  everything between the terminal and main, characters in the FIFO, the rest of the
  running text, and what main says next. `Printing` covers all three. What is on its
  way takes the terminal through completed lines that follow each other (`RunsTo`;
  what it compares is the `Mark` of a terminal, its last line with `row`, so that the
  same line again is a step that `Allowed` does not have),
  all of them known by now (`Known`: of the reports, those of rows the loops have
  passed), up to the line after which main stands (`Ahead`: for example, the latest
  report `r` with `r < i =< r + Every`). A character shown takes the first step of
  that run (`RunHead`), a text said puts a run after it (`RunJoin`, `RunLine`), and
  what was known stays known and keeps its successors (`AllowedStep`), which for the
  last line needs that the matrices do not change while they are multiplied.
  `ReportsTrue` joins `Known` with `Multiplied`. Lines are told apart by their first
  word (`LineStarts`), reports of two rows by their numbers: `PrintedInDecimal` and
  `NumeralInjective`, both by strong induction over the decimal digits.
* **`GeometryProofs`, the heatsink.** `MasksInBounds` for all grids, `SourcesFit` from
  25 x 20, `Comb` from 112 x 12. The invariant `Built` says that whatever has been
  written is a box of the geometry; the rest is integer arithmetic.
* **`ScreenProofs`.** For every display, grid, set of measures and cursor:
  `ScreenKept`, `CursorVisible`, `NothingLeft`. Every stroke is a set of pixels of
  the screen (`RectOnScreen`, `StringOnScreen`, with the legend's clipped
  coordinates in `LegendMeasures`); a frame over an old screen and one over black
  agree wherever something is drawn (`Overdrawn`), and the blocks of the drawn
  cells leave no hole (`NoHoles`, by division with the enlarged block). The
  assumptions are that the legend's bar is at least about a character high and the
  bar with its gap at least 2 wide, as it is with the code's measures.

The assumptions on constants are named in the modules (`...Assumption`) and TLC
evaluates them for the instances. `RamfbAssumption` asks of the palette table that
it has an entry, and of an entry that its four stops lie between 0 and 100 hundredths
in rising order, from the first shade to the last, and that its colours are three
bytes; `SerialAssumption` that sizes and intervals are positive and that a
matrix has a natural number of tenths in every element.

Only model-checked:

* liveness (`EscQuits`, `FramesUnlessFlooded`, `BringUpEnds`, `FramesForEver`,
  `ProgramsPrint`), which the prover does not reach;
* `IsComb` and `SourcesOnPlate` on grids smaller than 112 x 12 and 25 x 20. These
  bounds are sufficient, and nothing is claimed about the least ones; the run tries
  widths down to 105.

## 5. Where code and documents disagree

1. `clear_keeps_sources`: hotkeys.md says key 'c' clears painted heat "while
   keeping the fixed heat sources". The code sets all of the current buffer to 0
   (807); the sources come back with the next step, and a paused simulation
   takes none.
2. `slow_mouse`: the remainder of the division by `RelScale` is dropped at each
   poll (533), so a slowly moved mouse does not move the cursor.
3. `harmonic_faces`: in archive/Heat2D.c the product `2u * k0 * k1` (572) is a
   `UINT32`. Between two copper cells it wraps, and the face conducts 32766
   instead of 65535; the comment promises the harmonic mean (567-568). The field
   still keeps the law of `HeatField`, which is why it looks right on the screen:
   copper is only half as good as meant.

Seen, and not made a run of its own:

* What the crosshair and longer palette names leave in the margin right of and
  below the grid stays (`NoResidue` is stated for the part the grid covers);
  800 x 600 has such a margin of 160 rows below and 20 columns right of the field.
* The comment at line 16 calls the edges "fixed cold edges (0)". Painting and a mode
  change leave warm edge cells, and the next step conducts from them before they
  are reset.
* The guide says a touch counts "when it is pressed or when it moves and the mouse
  is idle". The very first report counts as a movement (521). A touch that moves
  in a poll in which the mouse moves too is recorded (522) and never applied.
* The frame counter of the ramfb program wraps at 2^32, which is no multiple of
  600: the palette then shown is shown for 496 frames (`PaletteHeld` says so).
* `delay_ms` divides the timer's frequency by 1000 first; at a frequency that is no
  whole number of kHz the delay is a little shorter than asked.
* metal/README.md describes a version built on Circle, with keys and palettes that
  change every 20 seconds; the program here has no input and changes them after 600
  frames.
* matrix-mul/kernel.c:76 announces a report "every 10 rows"; the code reports
  every 50.
* matrix-mul computes with doubles, and its start-up code, unlike metal/start.S,
  does not enable floating point.

## 6. What is not modelled

* Floating point: levels in place of the solvers' floats, exact hundredths in
  place of the palettes' floats and of matrix-mul's doubles. What the code's
  floats round to is not modelled.
* Colours of `uefi/Heat2D.c`: `BuildPaletteLut`, `TempToRGB_LUT`, `Scale8ToMask`,
  `PackPixel` and the copper tint are functions of a colour without state; nothing
  the properties say depends on them. Glyph shapes, for the same reason.
* Byte order of fw_cfg and of the display's configuration: both sides swap.
  UINT64 coordinates of absolute pointers are integers in the range their casts
  leave. Names in the fw_cfg directory are values; that one of 56 bytes would have
  no terminating 0 is accepted by the comment at Heat2D_ramfb.cpp:192.
* The order in which the ramfb program reads a buffer after the polling loop is
  program order, which is what QEMU shows; no barrier in the code guarantees it.
* The ramfb program's log on the UART (its `uart_putc` and `uart_puts` are those of
  hello.world; its hexadecimal printers are not modelled), the Rust program's delay
  of 5,000,000 `nop` between two lines, and its panic handler, which nothing calls.
* `Start` leaves out the stack pointer. For matrix-mul it takes only `.bss` sizes
  that are multiples of 8, which three arrays of doubles are: with another size its
  loop would count past 0 and clear all of memory. The up to 7
  bytes that the other programs clear beyond `.bss` belong to no section: `.bss`
  comes last in their linker scripts.
* `HeatQ16` begins when the buffers are allocated. The archived file's heatsink,
  pointer and drawing code resembles that of `Heat2D.c` (it has another number of
  fins and no palettes) and is not modelled a second time. The `*_works` files are
  older copies of the same program.
* `MemCWrappers.c` forwards to EDK2, and linker scripts and build files have no
  behaviour; the modules name what they take from them.

## 7. Plan

Done, in this order: `HeatGrid` and `HeatField`, `Heat2D` with its refinement,
`Pointer`, `FwCfgDma`, `Heatsink`, `Screen`, `Ramfb`, `HeatQ16`, `Start`, `Serial`,
the proofs of each, and the sums that the heat balance and the product rest on.

What would come next, most important first:

1. A refinement of the three serial programs to the sequence of lines they send;
   `RunsTo` is its refinement mapping.
2. Composition of `Pointer` with `Heat2D`'s paint, so that a press on a screen is
   followed to the cell it heats.
3. `Scale8ToMask` and `PackPixel` against their definition, with masks of any width.
