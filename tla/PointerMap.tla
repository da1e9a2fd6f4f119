----------------------------- MODULE PointerMap -----------------------------
(***************************************************************************)
(* The coordinate arithmetic of the pointer in uefi/Heat2D.c: from an      *)
(* absolute device to the screen, from mouse counts to pixels, and from a  *)
(* pixel to the grid cell a press paints.                                  *)
(***************************************************************************)
EXTENDS Integers

CONSTANTS
  Width, Height,   \* the screen, in pixels
  NX, NY,          \* the grid, in cells
  AbsMin, AbsMax,  \* the range of the absolute device, on both axes
  RelScale,        \* mouse counts per pixel
  SkipAbove        \* pixels of a screen above which only every other row and
                   \* column of cells is drawn (1920 * 1080)

ASSUME MapAssumption ==
  /\ Width \in Nat \ {0} /\ Height \in Nat \ {0}
  /\ NX \in Nat \ {0} /\ NY \in Nat \ {0}
  /\ AbsMin \in Int /\ AbsMax \in Int
  /\ RelScale \in Nat \ {0}
  /\ SkipAbove \in Nat

Clamp(v, lo, hi) == IF v < lo THEN lo ELSE IF v > hi THEN hi ELSE v

\* Division as C does it: towards zero.
TruncDiv(a, b) == IF a >= 0 THEN a \div b ELSE -((-a) \div b)

\* A device that reports an empty range is given one of width 1.
AbsRange == IF AbsMax - AbsMin =< 0 THEN 1 ELSE AbsMax - AbsMin

\* Mutant: scales to the size, not to the last pixel, and trusts the device.
ToScreenUnclamped(a, size) == TruncDiv((a - AbsMin) * size, AbsRange)

\* An absolute coordinate on an axis of size pixels.
ToScreen(a, size) ==
  Clamp(TruncDiv((a - AbsMin) * (size - 1), AbsRange), 0, size - 1)

\* What a mouse movement adds to a pixel coordinate of an axis of size pixels.
Pixels(count) == TruncDiv(count, RelScale)
Moved(x, d, size) == Clamp(x + d, 0, size - 1)

-----------------------------------------------------------------------------
\* The rendering scale: pixels per cell, and the pixels the grid covers.
CellSize(size, n) == IF size \div n < 1 THEN 1 ELSE size \div n
DrawSize(size, n) == IF n * CellSize(size, n) > size THEN size ELSE n * CellSize(size, n)

\* Mutant: the whole screen is taken for the grid.
GridCellWholeScreen(x, size, n) == Clamp(TruncDiv(x * n, size), 0, n - 1)

\* The cell a press at pixel x paints.
GridCell(x, size, n) == Clamp(TruncDiv(x * n, DrawSize(size, n)), 0, n - 1)

\* On a large screen every other row and column of cells is skipped, and the
\* block of a cell that is drawn covers its skipped neighbours.
drawSkip == IF Width * Height > SkipAbove THEN 2 ELSE 1

\* The cell that is drawn at pixel x, for a pixel the grid covers.
DrawnCell(x, size, n) == drawSkip * (x \div (CellSize(size, n) * drawSkip))

\* The radius below which key '-' does not take the brush.
BrushMin == 2

=============================================================================
