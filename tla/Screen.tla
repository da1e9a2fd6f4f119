------------------------------- MODULE Screen -------------------------------
(***************************************************************************)
(* The frame buffer of uefi/Heat2D.c: what the render section of UefiMain  *)
(* draws into it (field, crosshair, legend, footer), pixel by pixel, and   *)
(* what stays there from earlier frames.  Nothing is ever erased: the      *)
(* screen is cleared once, before the loop, and a frame draws over the     *)
(* last one.                                                               *)
(*                                                                         *)
(* An ink says what was drawn, not its colour.  A character is one block   *)
(* of ink; its unlit bits are left out.                                    *)
(***************************************************************************)
EXTENDS Integers, Sequences

CONSTANTS
  Displays,  \* the displays to try: [Width, Height, NX, NY, big, hot, cursors]:
             \* the resolution, the grid, the pixels above which every other row
             \* and column is skipped, and two bounds: the cells whose
             \* temperature changes and the pixels the cursor visits
  Dim,       \* the drawing's measures, [barW, gap, labelW, edge, inset, char,
             \* pad, low, barMin] (the code's 24 or 16, 12, 72, 6, 4, 8, 6, 240, 40)
  NameLen    \* the length of the legend's last line, by palette

VARIABLES
  display,   \* the display the program runs on
  heat,      \* the cells that are hot
  palette,
  X, Y,      \* the cursor
  fb,        \* the ink of every pixel
  spill,     \* the pixels off the screen that were written
  dirty

vars == <<display, heat, palette, X, Y, fb, spill, dirty>>

Width == display.Width
Height == display.Height
NX == display.NX
NY == display.NY

PixelsOf(d) == (0 .. d.Width-1) \X (0 .. d.Height-1)
CellsOf(d)  == (0 .. d.NX-1) \X (0 .. d.NY-1)
Pixels == PixelsOf(display)
Cells  == CellsOf(display)
Palettes == DOMAIN NameLen

ASSUME ScreenAssumption ==
  /\ \A d \in Displays :
       /\ \A m \in {"Width", "Height", "NX", "NY"} : d[m] \in Nat \ {0}
       /\ d.big \in Nat
       /\ d.hot \subseteq CellsOf(d) /\ d.cursors \subseteq PixelsOf(d)
  /\ \A m \in {"barW", "gap", "labelW", "edge", "inset", "char", "pad", "low", "barMin"} :
       Dim[m] \in Nat \ {0}
  /\ Dim.char =< Dim.barMin + Dim.gap /\ 2 =< Dim.barW + Dim.gap
  /\ 0 \in Palettes /\ \A p \in Palettes : p \in Nat /\ NameLen[p] \in Nat

-----------------------------------------------------------------------------
(***************************************************************************)
(* The rendering scale.                                                    *)
(***************************************************************************)
AtLeast(v, lo) == IF v < lo THEN lo ELSE v
AtMost(v, hi)  == IF v > hi THEN hi ELSE v

cellW == AtLeast(Width \div NX, 1)
cellH == AtLeast(Height \div NY, 1)
drawW == AtMost(NX * cellW, Width)
drawH == AtMost(NY * cellH, Height)
drawSkip == IF Width * Height > display.big THEN 2 ELSE 1

(***************************************************************************)
(* A layer is a sequence of strokes [at, ink]: sets of pixels in the order *)
(* they are drawn.                                                         *)
(***************************************************************************)
Stroke(S, ink) == <<[at |-> S, ink |-> ink]>>

\* Mutant: only the origin is tested.
DrawRectUnclipped(x0, y0, w, h) ==
  IF x0 >= Width \/ y0 >= Height THEN {}
  ELSE (x0 .. x0 + w - 1) \X (y0 .. y0 + h - 1)

\* The pixels DrawRect fills.
DrawRect(x0, y0, w, h) ==
  IF x0 >= Width \/ y0 >= Height THEN {}
  ELSE (x0 .. AtMost(x0 + w, Width) - 1) \X (y0 .. AtMost(y0 + h, Height) - 1)

\* The pixels of a string of n characters: DrawChar8 breaks off at the right
\* and lower ends of the screen.
DrawString(x, y, n) ==
  (x .. AtMost(x + n * Dim.char, Width) - 1) \X (y .. AtMost(y + Dim.char, Height) - 1)

-----------------------------------------------------------------------------
\* Mutant: the blocks are not enlarged when rows and columns are skipped.
BlockNotEnlarged(c) == DrawRect(c[1] * cellW, c[2] * cellH, cellW, cellH)

\* The block of pixels drawn for cell c.
Block(c) ==
  IF c[1] * cellW >= drawW \/ c[2] * cellH >= drawH THEN {}
  ELSE DrawRect(c[1] * cellW, c[2] * cellH, cellW * drawSkip, cellH * drawSkip)

DrawnCells == {c \in Cells : c[1] % drawSkip = 0 /\ c[2] % drawSkip = 0}

\* Mutant: x - 2 and y - 2 wrap below 0, and a wrapped origin is off the screen.
DrawCursorWraps ==
  Stroke((IF X < 2 THEN {} ELSE DrawRect(X - 2, Y, 5, 1))
           \cup (IF Y < 2 THEN {} ELSE DrawRect(X, Y - 2, 1, 5)),
         <<"cursor">>)

\* The crosshair.
DrawCursor ==
  Stroke(DrawRect(AtLeast(X - 2, 0), Y, 5, 1) \cup DrawRect(X, AtLeast(Y - 2, 0), 1, 5),
         <<"cursor">>)

footerH == Dim.char + 2 * Dim.pad

DrawFooter ==
  IF Height < footerH + 2 THEN <<>>
  ELSE Stroke(DrawRect(0, Height - footerH, Width, footerH), <<"footer">>)

barH ==
  LET h == IF Height > Dim.low THEN Height \div 2 ELSE (Height * 2) \div 3
      room == Height - footerH - 2 * Dim.gap
  IN  AtLeast(IF room > 0 /\ h > room THEN room ELSE h, Dim.barMin)
panelW == Dim.barW + Dim.gap + Dim.labelW + Dim.gap
legendX == IF Width > panelW THEN Width - panelW ELSE 0
legendY == Dim.gap
panelX == AtLeast(legendX - Dim.edge, 0)
panelY == AtLeast(legendY - Dim.edge, 0)

\* Panel, colour bar, the four lines around it, three labels right of it, and
\* the name of the palette, which may be wider than the panel.
DrawLegend ==
  LET x1 == legendX + Dim.barW
      y1 == legendY + barH
      bx == AtLeast(legendX - 1, 0)
      by == AtLeast(legendY - 1, 0)
      lx == x1 + Dim.gap - 2
  IN  Stroke(DrawRect(panelX, panelY, panelW, barH + Dim.gap + Dim.char + 2), <<"panel">>)
      \o Stroke(DrawRect(legendX, legendY, Dim.barW, barH), <<"bar", palette>>)
      \o Stroke(DrawRect(bx, by, Dim.barW + 2, 1) \cup DrawRect(bx, y1, Dim.barW + 2, 1)
                \cup DrawRect(bx, by, 1, barH + 2) \cup DrawRect(x1, by, 1, barH + 2),
                <<"border">>)
      \o Stroke(DrawString(lx, legendY, 8)
                \cup DrawString(lx, legendY + barH \div 2 - Dim.char \div 2, 8)
                \cup DrawString(lx, y1 - Dim.char, 8),
                <<"label">>)
      \o Stroke(DrawString(panelX + Dim.inset, y1 + Dim.edge, NameLen[palette]),
                <<"name", palette>>)

-----------------------------------------------------------------------------
Strokes == DrawCursor \o DrawLegend \o DrawFooter

\* The last stroke over a pixel is what it shows; without one, the block of the
\* cell over it (blocks of different cells do not overlap); without that, what
\* was there before.
Over(old, p) ==
  LET on == {k \in DOMAIN Strokes : p \in Strokes[k].at}
      cs == {c \in DrawnCells : p \in Block(c)}
  IN  IF on # {} THEN Strokes[CHOOSE k \in on : \A l \in on : l =< k].ink
      ELSE IF cs # {} THEN LET c == CHOOSE c \in cs : TRUE
                           IN  <<"cell", c, c \in heat, palette>>
      ELSE old[p]

Black == [p \in Pixels |-> <<"black">>]
Frame(old) == [p \in Pixels |-> Over(old, p)]

Written == UNION ({Strokes[k].at : k \in DOMAIN Strokes} \cup {Block(c) : c \in DrawnCells})

Init ==
  /\ display \in Displays
  /\ heat = {} /\ palette = 0
  /\ \E p \in display.cursors : X = p[1] /\ Y = p[2]
  /\ fb = Black /\ spill = {}
  /\ dirty = TRUE

\* Between two frames the solver, the user's keys and the pointer change what is
\* to be shown.
Warm(c) ==
  /\ heat' = IF c \in heat THEN heat \ {c} ELSE heat \cup {c}
  /\ dirty' = TRUE
  /\ UNCHANGED <<display, palette, X, Y, fb, spill>>

NextPalette ==
  /\ palette' = IF palette + 1 \in Palettes THEN palette + 1 ELSE 0
  /\ dirty' = TRUE
  /\ UNCHANGED <<display, heat, X, Y, fb, spill>>

MoveCursor(p) ==
  /\ <<X, Y>> # p
  /\ X' = p[1] /\ Y' = p[2]
  /\ dirty' = TRUE
  /\ UNCHANGED <<display, heat, palette, fb, spill>>

Render ==
  /\ dirty
  /\ fb' = Frame(fb)
  /\ spill' = spill \cup (Written \ Pixels)
  /\ dirty' = FALSE
  /\ UNCHANGED <<display, heat, palette, X, Y>>

Next ==
  \/ \E c \in display.hot : Warm(c)
  \/ NextPalette
  \/ \E p \in display.cursors : MoveCursor(p)
  \/ Render

Spec == Init /\ [][Next]_vars

-----------------------------------------------------------------------------
\* No frame writes outside the frame buffer, however small the screen and
\* wherever the cursor: DrawRect clips the far corner, the legend's unsigned
\* coordinates do not wrap below 0, and characters stop at the edges.
StaysOnScreen == spill = {}

\* On the part of the screen the grid covers nothing is left of earlier frames:
\* a pixel shows what drawing on a black screen would show, and the field has no
\* holes, also when every other row and column is skipped.  (In the margin right
\* of and below the grid, old crosshairs do stay.)
NoResidue ==
  ~dirty => \A p \in Pixels :
    p[1] < drawW /\ p[2] < drawH => fb[p] = Frame(Black)[p] /\ fb[p] # <<"black">>

\* The crosshair is on the screen where the cursor is, unless the legend or the
\* footer lies over it.
CursorShown ==
  ~dirty => fb[<<X, Y>>][1] \in {"cursor", "panel", "border", "bar", "label", "name", "footer"}

=============================================================================
