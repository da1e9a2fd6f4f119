------------------------------- MODULE Ramfb -------------------------------
(***************************************************************************)
(* The whole of metal/Heat2D_ramfb.cpp: main brings the display up as      *)
(* module FwCfgDma says, and from "paint" on it fills the screen, waits,   *)
(* and simulates, draws and waits for ever.                                *)
(*                                                                         *)
(* Pixels are linear addresses of the frame buffer, as in the code.        *)
(* Temperatures are levels 0 .. Hot for floats in [0, 1], rounded down;    *)
(* alpha and cooling are in units of 1 / Unit, the palettes' stops in      *)
(* hundredths.                                                             *)
(***************************************************************************)
EXTENDS FwCfgDma, Integers, Functions

CONSTANTS
  FB_W, FB_H, SIM_W, SIM_H,  \* 800 x 600 pixels, 200 x 150 cells
  SourceRad,                 \* 7
  Hot, Warm,                 \* 1.0, and the 0.02 the field starts from
  Alpha, Cooling, Unit,      \* 0.20 and 0.0008, in units of 1 / Unit
  Shades,                    \* 255, the last index of a look-up table
  g_pal, Period,             \* the palettes, each shown for 600 frames: four
                             \* stops [t, c], t in hundredths, c = <<r, g, b>>
  FrameWrap,                 \* 2^32: frame is a uint32_t
  TickWrap,                  \* 2^64: the timer's counter is a uint64_t
  Freqs, PerSecond,          \* cntfrq_el0 may be any of Freqs; 1000 ms in a second
  FillMs, FrameMs,           \* the delays, 250 and 16 ms
  MaxGap                     \* most ticks between two reads of the counter

ASSUME RamfbAssumption ==
  /\ {FB_W, FB_H, SIM_W, SIM_H, Hot, Unit, Shades, Period, PerSecond, MaxGap,
      TickWrap, FillMs, FrameMs} \subseteq Nat \ {0}
  /\ SIM_W >= 3 /\ SIM_H >= 3
  /\ FB_W % SIM_W = 0 /\ FB_H % SIM_H = 0
  /\ g_pal \in Seq([1 .. 4 -> [t : 0 .. 100, c : [1 .. 3 -> 0 .. 255]]]) /\ g_pal # <<>>
  /\ \A p \in DOMAIN g_pal :
       /\ g_pal[p][1].t = 0 /\ g_pal[p][4].t = 100
       /\ \A k \in 1 .. 3 : g_pal[p][k].t < g_pal[p][k + 1].t
  /\ SourceRad \in Nat /\ Warm \in 0 .. Hot
  /\ Alpha \in Nat /\ Cooling \in Nat /\ 4*Alpha + Cooling =< Unit
  /\ FrameWrap \in Nat /\ FrameWrap > Period
  /\ Freqs \subseteq Nat \ {0}
  /\ \A f \in Freqs : (f \div PerSecond) * FillMs + MaxGap < TickWrap
                   /\ (f \div PerSecond) * FrameMs + MaxGap < TickWrap

VARIABLES
  phase, back,   \* what main does; where delay_ms returns to
  fb,            \* the frame buffer
  g_field,
  g_lut,         \* the colour of every shade of every palette
  pal, frame,
  freq, tick,    \* the generic timer: its frequency and its counter
  start, ticks,  \* delay_ms
  waited,        \* history: ticks since the delay began, without wrap
  shown          \* history: frames drawn with the current palette

sim   == <<phase, back, fb, g_field, g_lut, pal, frame, shown>>
timer == <<freq, tick, start, ticks, waited>>
demo  == <<sim, timer>>

Pixels   == 0 .. FB_W*FB_H - 1
Cells    == (0 .. SIM_W-1) \X (0 .. SIM_H-1)
Interior == (1 .. SIM_W-2) \X (1 .. SIM_H-2)
Palettes == 0 .. Len(g_pal) - 1

\* XRGB8888: 0x00RRGGBB.  A pixel never drawn holds no colour.
Packed(c) == (c[1] * 256 + c[2]) * 256 + c[3]
Red == Packed(<<255, 0, 0>>)
Undrawn == -1

DemoInit ==
  /\ Init
  /\ phase = "fill" /\ back = "none"
  /\ fb = [p \in Pixels |-> Undrawn]
  /\ g_field = [c \in Cells |-> 0]    \* .bss
  /\ g_lut = [p \in Palettes |-> [sh \in 0 .. Shades |-> 0]]
  /\ pal = 0 /\ frame = 0
  /\ freq \in Freqs /\ tick \in 0 .. TickWrap-1
  /\ start = 0 /\ ticks = 0 /\ waited = 0
  /\ shown = 0

-----------------------------------------------------------------------------
(***************************************************************************)
(* delay_ms.                                                               *)
(***************************************************************************)
DelayFrom(t, ms, label) ==
  /\ start' = t /\ ticks' = (freq \div PerSecond) * ms
  /\ waited' = 0
  /\ phase' = "delay" /\ back' = label
  /\ UNCHANGED <<freq, tick>>

Delay(ms, label) == DelayFrom(tick, ms, label)

\* Mutant: the counter is compared with the time at which the delay is over.
TimeIsUpAtDeadline == tick >= (start + ticks) % TickWrap

TimeIsUp == (tick - start) % TickWrap >= ticks

\* Mutant: start is read again at every turn.
WaitAnew ==
  /\ phase = "delay" /\ ~TimeIsUp
  /\ \E d \in 1 .. MaxGap : tick' = (tick + d) % TickWrap /\ waited' = d
  /\ start' = tick'
  /\ UNCHANGED <<sim, freq, ticks>>

\* The loop turns, and time goes on.
Wait ==
  /\ phase = "delay" /\ ~TimeIsUp
  /\ \E d \in 1 .. MaxGap : tick' = (tick + d) % TickWrap /\ waited' = waited + d
  /\ UNCHANGED <<sim, freq, start, ticks>>

Return ==
  /\ phase = "delay" /\ TimeIsUp
  /\ phase' = back
  /\ UNCHANGED <<back, fb, g_field, g_lut, pal, frame, shown, timer>>

-----------------------------------------------------------------------------
(***************************************************************************)
(* The screen is filled with red; then the tables are built and the field  *)
(* is reset.                                                               *)
(***************************************************************************)
Fill ==
  /\ phase = "fill"
  /\ fb' = [p \in Pixels |-> Red]
  /\ Delay(FillMs, "reset")
  /\ UNCHANGED <<g_field, g_lut, pal, frame, shown>>

\* lerp_u8, its result rounded to the nearest; u is num / den.
lerp_u8(a, b, num, den) == (2 * (a * den + (b - a) * num) + den) \div (2 * den)

\* sample_palette at sh / Shades: the first stop that is not below it ends the
\* segment.
sample_palette(p, sh) ==
  LET k == CHOOSE k \in 2 .. 4 : /\ sh * 100 =< g_pal[p][k].t * Shades
                                 /\ \A l \in 2 .. k - 1 : sh * 100 > g_pal[p][l].t * Shades
      s == g_pal[p][k - 1]
      e == g_pal[p][k]
  IN  [ch \in 1 .. 3 |->
         lerp_u8(s.c[ch], e.c[ch], sh * 100 - s.t * Shades, (e.t - s.t) * Shades)]

build_luts == [p \in Palettes |-> [sh \in 0 .. Shades |-> Packed(sample_palette(p + 1, sh))]]

ResetField ==
  /\ phase = "reset"
  /\ g_lut' = build_luts
  /\ g_field' = [c \in Cells |-> Warm]
  /\ phase' = "step"
  /\ UNCHANGED <<back, fb, pal, frame, shown, timer>>

-----------------------------------------------------------------------------
(***************************************************************************)
(* step_sim.                                                               *)
(***************************************************************************)
Neighbours(c) ==
  {<<c[1]-1, c[2]>>, <<c[1]+1, c[2]>>, <<c[1], c[2]-1>>, <<c[1], c[2]+1>>}

clamp01(x) == IF x < 0 THEN 0 ELSE IF x > Hot THEN Hot ELSE x

Next01(T, c) ==
  LET lap == SumFunctionOnSet(T, Neighbours(c)) - 4 * T[c]
  IN  clamp01(T[c] + (Alpha * lap - Cooling * T[c]) \div Unit)

\* stamp_disk around the middle leaves the edges alone.
SourceDisk ==
  {c \in Interior :
     (c[1] - SIM_W \div 2) * (c[1] - SIM_W \div 2)
       + (c[2] - SIM_H \div 2) * (c[2] - SIM_H \div 2) =< SourceRad * SourceRad}

\* Mutant: the boundary loops stop one cell early.
NextFieldShortEdge(T) ==
  [c \in Cells |->
     IF c \in SourceDisk THEN Hot
     ELSE IF c \in Interior THEN Next01(T, c)
     ELSE IF c = <<SIM_W-1, SIM_H-1>> THEN T[c] ELSE 0]

\* Every cell of g_next is written (the interior, the boundaries, the source)
\* before g_next is copied back.
NextField(T) ==
  [c \in Cells |->
     IF c \in SourceDisk THEN Hot ELSE IF c \in Interior THEN Next01(T, c) ELSE 0]

StepSim ==
  /\ phase = "step"
  /\ g_field' = NextField(g_field)
  /\ phase' = "render"
  /\ UNCHANGED <<back, fb, g_lut, pal, frame, shown, timer>>

-----------------------------------------------------------------------------
(***************************************************************************)
(* render: every cell becomes a block of SCALE_X by SCALE_Y pixels.        *)
(***************************************************************************)
SCALE_X == FB_W \div SIM_W
SCALE_Y == FB_H \div SIM_H

\* Mutant: a row of cells advances by one row of pixels.
AddressOneRow(c, dx, dy) == (c[2] + dy) * FB_W + c[1] * SCALE_X + dx

Address(c, dx, dy) == (c[2] * SCALE_Y + dy) * FB_W + c[1] * SCALE_X + dx

Block(c) == {Address(c, dx, dy) : dx \in 0 .. SCALE_X-1, dy \in 0 .. SCALE_Y-1}

\* The cell whose block is stored to a pixel last.
Writers == [p \in Pixels |-> {c \in Cells : p \in Block(c)}]
LastWriter ==
  [p \in Pixels |->
     CHOOSE c \in Writers[p] :
       \A d \in Writers[p] : d[2]*SIM_W + d[1] =< c[2]*SIM_W + c[1]]

Color(p, t) == g_lut[p][(t * Shades) \div Hot]

Render ==
  /\ phase = "render"
  /\ fb' = [p \in Pixels |->
              IF Writers[p] = {} THEN fb[p] ELSE Color(pal, g_field[LastWriter[p]])]
  /\ shown' = shown + 1
  /\ phase' = "count"
  /\ UNCHANGED <<back, g_field, g_lut, pal, frame, timer>>

\* Mutant: the palette is chosen before the frame is counted.
CountAfter ==
  /\ phase = "count"
  /\ frame' = (frame + 1) % FrameWrap
  /\ pal' = IF frame % Period = 0 THEN (pal + 1) % Len(g_pal) ELSE pal
  /\ shown' = IF frame % Period = 0 THEN 0 ELSE shown
  /\ Delay(FrameMs, "step")
  /\ UNCHANGED <<fb, g_field, g_lut>>

\* The frame is counted, the palette changes after every Period frames.
Count ==
  /\ phase = "count"
  /\ frame' = (frame + 1) % FrameWrap
  /\ pal' = IF frame' % Period = 0 THEN (pal + 1) % Len(g_pal) ELSE pal
  /\ shown' = IF frame' % Period = 0 THEN 0 ELSE shown
  /\ Delay(FrameMs, "step")
  /\ UNCHANGED <<fb, g_field, g_lut>>

Demo == Wait \/ Return \/ Fill \/ ResetField \/ StepSim \/ Render \/ Count

-----------------------------------------------------------------------------
DemoNext ==
  \/ Next /\ UNCHANGED demo
  \/ pc = "paint" /\ Demo /\ UNCHANGED vars

DemoVars == <<vars, demo>>

\* Besides what FwCfgDma assumes: nothing in the demo waits for anybody.
DemoSpec ==
  /\ DemoInit /\ [][DemoNext]_DemoVars
  /\ WF_DemoVars(Transfer /\ UNCHANGED demo) /\ WF_DemoVars(Main /\ UNCHANGED demo)
  /\ \A f \in Fields : WF_DemoVars(Drain(f) /\ UNCHANGED demo)
  /\ WF_DemoVars(Device /\ UNCHANGED demo)
  /\ WF_DemoVars(pc = "paint" /\ Demo /\ UNCHANGED vars)

-----------------------------------------------------------------------------
(***************************************************************************)
(* Properties.                                                             *)
(***************************************************************************)
\* A shade lies in a segment of the palette, and each channel is the straight line
\* between the segment's stops, to the nearest.
OnLine(p, k, sh, channel) ==
  LET s == g_pal[p][k]
      e == g_pal[p][k + 1]
      num == sh * 100 - s.t * Shades
      den == (e.t - s.t) * Shades
  IN  /\ num \in 0 .. den
      /\ \A ch \in 1 .. 3 :
           2 * (den * (channel[ch] - s.c[ch]) - num * (e.c[ch] - s.c[ch])) \in -den .. den

\* The colour of a temperature.
Right24(p, t, colour) ==
  \E k \in 1 .. 3 :
    OnLine(p + 1, k, (t * Shades) \div Hot,
           <<colour \div 65536, (colour \div 256) % 256, colour % 256>>)

\* Whenever a frame is drawn, every pixel of the screen shows the cell it lies in,
\* in one palette, of one moment and in the colour of its temperature: no store of
\* the block loops misses a pixel, hits another cell's or leaves the buffer, no
\* frame is drawn before the tables are built, and no table entry is taken from
\* the wrong pair of stops or runs from one channel into the next.
FrameWhole ==
  phase = "count" =>
    /\ \A c \in Cells : Block(c) \subseteq Pixels
    /\ \A x \in 0 .. FB_W-1, y \in 0 .. FB_H-1 :
         Right24(pal, g_field[<<(x * SIM_W) \div FB_W, (y * SIM_H) \div FB_H>>], fb[y*FB_W + x])

\* Nothing is drawn before the device has taken the frame buffer's address.
DrawsOnDisplay == fb[0] # Undrawn => ramfb = <<"cfg", "28">>

\* Explicit conduction with cooling: after every step the edges are cold, the
\* source is hot, and no other cell is hotter than the hottest of itself and its
\* neighbours before, or colder than the coldest less what cooling takes.
FieldLaw ==
  [][StepSim =>
       \A c \in Cells :
         CASE c \notin Interior  -> g_field'[c] = 0
           [] c \in SourceDisk   -> g_field'[c] = Hot
           [] OTHER -> \E lo, hi \in Neighbours(c) \cup {c} :
                         /\ g_field'[c] =< g_field[hi]
                         /\ (g_field'[c] + 1) * Unit >= g_field[lo] * (Unit - Cooling)]_DemoVars

\* A palette is shown for exactly Period frames; only the one on the screen when
\* the frame counter wraps is shown for fewer (496 instead of 600).
PaletteHeld ==
  [][pal' # pal =>
       \/ shown = Period
       \/ frame' = 0 /\ shown = FrameWrap % Period]_DemoVars

\* A delay is never shorter than the milliseconds asked for at a frequency of
\* whole kHz, wherever the counter stands when it begins, also when it wraps.
DelayLongEnough ==
  [][Return => waited >= (freq \div PerSecond) * (IF back = "reset" THEN FillMs ELSE FrameMs)]_DemoVars

\* On a display that came up, frames are drawn for ever.
FramesForEver == [](pc = "paint" => <>(phase = "render"))

=============================================================================
