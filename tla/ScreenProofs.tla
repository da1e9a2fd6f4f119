---------------------------- MODULE ScreenProofs ----------------------------
(***************************************************************************)
(* Proofs about Screen: what holds of the pixels on every display.         *)
(***************************************************************************)
EXTENDS Screen, SequenceTheorems, TLAPS

\* The display, the palette and the cursor are among those the program can meet.
Legal ==
  /\ display \in Displays
  /\ palette \in Palettes
  /\ <<X, Y>> \in display.cursors

Inks == {<<"cursor">>, <<"panel">>, <<"border">>, <<"label">>, <<"footer">>}
          \cup {<<"bar", p>> : p \in Palettes} \cup {<<"name", p>> : p \in Palettes}

StrokeSet == [at : SUBSET Pixels, ink : Inks]

-----------------------------------------------------------------------------
\* The measures of the display and of the drawing are positive numbers, and the
\* cursor is one of the pixels.
LEMMA Measures ==
  ASSUME Legal
  PROVE  /\ Width \in Nat /\ Width >= 1 /\ Height \in Nat /\ Height >= 1
         /\ NX \in Nat /\ NX >= 1 /\ NY \in Nat /\ NY >= 1
         /\ X \in 0 .. Width - 1 /\ Y \in 0 .. Height - 1
<1>1. \A m \in {"Width", "Height", "NX", "NY"} : display[m] \in Nat \ {0}
  BY ScreenAssumption DEF Legal
<1>2. display.cursors \subseteq PixelsOf(display)
  BY ScreenAssumption DEF Legal
<1>3. <<X, Y>> \in (0 .. Width - 1) \X (0 .. Height - 1)
  BY <1>2 DEF Legal, PixelsOf, Width, Height
<1>4. X \in 0 .. Width - 1 /\ Y \in 0 .. Height - 1
  BY <1>3
<1>5. QED
  BY <1>1, <1>4 DEF Width, Height, NX, NY

LEMMA DimMeasures ==
  /\ Dim.barW \in Nat /\ Dim.barW >= 1 /\ Dim.gap \in Nat /\ Dim.gap >= 1
  /\ Dim.labelW \in Nat /\ Dim.edge \in Nat /\ Dim.inset \in Nat
  /\ Dim.char \in Nat /\ Dim.char >= 1 /\ Dim.pad \in Nat
  /\ Dim.low \in Nat /\ Dim.barMin \in Nat
  /\ Dim.char =< Dim.barMin + Dim.gap /\ 2 =< Dim.barW + Dim.gap
BY ScreenAssumption

\* A rectangle whose origin has not wrapped below 0 is clipped to the screen.
LEMMA RectOnScreen ==
  ASSUME Legal, NEW x0 \in Nat, NEW y0 \in Nat, NEW w \in Int, NEW h \in Int
  PROVE  DrawRect(x0, y0, w, h) \subseteq Pixels
<1>1. 0 .. Width - 1 \subseteq Int /\ Width \in Nat /\ Height \in Nat
  BY Measures
<1>2. x0 .. AtMost(x0 + w, Width) - 1 \subseteq 0 .. Width - 1
  BY <1>1 DEF AtMost
<1>3. y0 .. AtMost(y0 + h, Height) - 1 \subseteq 0 .. Height - 1
  BY <1>1 DEF AtMost
<1>4. QED
  BY <1>2, <1>3 DEF DrawRect, Pixels, PixelsOf, Width, Height

\* A string whose origin has not wrapped stays on the screen, however long.
LEMMA StringOnScreen ==
  ASSUME Legal, NEW x0 \in Nat, NEW y0 \in Nat, NEW n \in Nat
  PROVE  DrawString(x0, y0, n) \subseteq Pixels
<1>1. Width \in Nat /\ Height \in Nat
  BY Measures
<1>2. n * Dim.char \in Nat /\ Dim.char \in Nat
  BY DimMeasures
<1>3. x0 .. AtMost(x0 + n * Dim.char, Width) - 1 \subseteq 0 .. Width - 1
  BY <1>1, <1>2 DEF AtMost
<1>4. y0 .. AtMost(y0 + Dim.char, Height) - 1 \subseteq 0 .. Height - 1
  BY <1>1, <1>2 DEF AtMost
<1>5. QED
  BY <1>3, <1>4 DEF DrawString, Pixels, PixelsOf, Width, Height

LEMMA Joined ==
  ASSUME NEW S, NEW a \in Seq(S), NEW b \in Seq(S)
  PROVE  a \o b \in Seq(S) /\ Len(a \o b) = Len(a) + Len(b)
<1>1. a \o b \in Seq(S)
  OBVIOUS
<1>2. Len(a \o b) = Len(a) + Len(b)
  OBVIOUS
<1>3. QED
  BY <1>1, <1>2

LEMMA FirstKept ==
  ASSUME NEW S, NEW a \in Seq(S), NEW b \in Seq(S), Len(a) >= 1
  PROVE  (a \o b)[1] = a[1]
OBVIOUS

\* A layer with one stroke more.
LEMMA OneMore ==
  ASSUME NEW S, NEW a \in Seq(S), NEW b \in Seq(S), Len(b) = 1
  PROVE  a \o b \in Seq(S) /\ Len(a \o b) = Len(a) + 1
BY Joined

LEMMA FiveJoined ==
  ASSUME NEW S, NEW a \in Seq(S), NEW b \in Seq(S), NEW c \in Seq(S), NEW d \in Seq(S),
         NEW e \in Seq(S), Len(a) = 1, Len(b) = 1, Len(c) = 1, Len(d) = 1, Len(e) = 1
  PROVE  a \o b \o c \o d \o e \in Seq(S) /\ Len(a \o b \o c \o d \o e) = 5
<1> DEFINE ab == a \o b
           abc == ab \o c
           abcd == abc \o d
           abcde == abcd \o e
<1>1. ab \in Seq(S) /\ Len(ab) = Len(a) + 1
  BY OneMore, Zenon
<1> HIDE DEF ab
<1>2. abc \in Seq(S) /\ Len(abc) = Len(ab) + 1
  BY <1>1, OneMore, Zenon
<1> HIDE DEF abc
<1>3. abcd \in Seq(S) /\ Len(abcd) = Len(abc) + 1
  BY <1>2, OneMore, Zenon
<1> HIDE DEF abcd
<1>4. abcde \in Seq(S) /\ Len(abcde) = Len(abcd) + 1
  BY <1>3, OneMore, Zenon
<1> HIDE DEF abcde
<1>5. abcde \in Seq(S) /\ Len(abcde) = 5
  BY <1>1, <1>2, <1>3, <1>4
<1>6. QED
  BY <1>5 DEF abcde, abcd, abc, ab

LEMMA StrokeTyped ==
  ASSUME Legal, NEW S \in SUBSET Pixels, NEW ink \in Inks
  PROVE  Stroke(S, ink) \in Seq(StrokeSet) /\ Len(Stroke(S, ink)) = 1
         /\ Stroke(S, ink)[1] = [at |-> S, ink |-> ink]
BY DEF Stroke, StrokeSet

-----------------------------------------------------------------------------
\* The crosshair's strokes start on the screen, and cover the cursor.
LEMMA CursorStroke ==
  ASSUME Legal
  PROVE  /\ DrawCursor \in Seq(StrokeSet) /\ Len(DrawCursor) = 1
         /\ <<X, Y>> \in DrawCursor[1].at
<1> DEFINE S == DrawRect(AtLeast(X - 2, 0), Y, 5, 1) \cup DrawRect(X, AtLeast(Y - 2, 0), 1, 5)
<1>1. X \in Nat /\ Y \in Nat /\ X < Width /\ Y < Height /\ Width \in Nat /\ Height \in Nat
  BY Measures
<1>2. AtLeast(X - 2, 0) \in Nat /\ AtLeast(Y - 2, 0) \in Nat
  BY <1>1 DEF AtLeast
<1>3. S \in SUBSET Pixels
  BY <1>1, <1>2, RectOnScreen
<1>4. <<X, Y>> \in DrawRect(X, AtLeast(Y - 2, 0), 1, 5)
  <2>1. X \in X .. AtMost(X + 1, Width) - 1
    BY <1>1 DEF AtMost
  <2>2. Y \in AtLeast(Y - 2, 0) .. AtMost(AtLeast(Y - 2, 0) + 5, Height) - 1
    BY <1>1 DEF AtMost, AtLeast
  <2>3. ~(X >= Width \/ AtLeast(Y - 2, 0) >= Height)
    BY <1>1 DEF AtLeast
  <2>4. QED
    BY <2>1, <2>2, <2>3 DEF DrawRect
<1>5. <<"cursor">> \in Inks
  BY DEF Inks
<1>6. DrawCursor = Stroke(S, <<"cursor">>)
  BY DEF DrawCursor
<1>7. DrawCursor \in Seq(StrokeSet) /\ Len(DrawCursor) = 1
         /\ DrawCursor[1] = [at |-> S, ink |-> <<"cursor">>]
  <2> HIDE DEF S
  <2> QED
    BY <1>3, <1>5, <1>6, StrokeTyped
<1>8. QED
  BY <1>4, <1>7

LEMMA FooterStroke ==
  ASSUME Legal
  PROVE  DrawFooter \in Seq(StrokeSet) /\ Len(DrawFooter) \in 0 .. 1
<1>1. CASE Height < footerH + 2
  BY <1>1, EmptySeq DEF DrawFooter
<1>2. CASE ~(Height < footerH + 2)
  <2>1. Height - footerH \in Nat /\ Width \in Int /\ footerH \in Int
    BY <1>2, Measures, DimMeasures DEF footerH
  <2> DEFINE F == DrawRect(0, Height - footerH, Width, footerH)
  <2>2. F \in SUBSET Pixels
    BY <2>1, RectOnScreen
  <2>3. <<"footer">> \in Inks
    BY DEF Inks
  <2>4. DrawFooter = Stroke(F, <<"footer">>)
    BY <1>2 DEF DrawFooter
  <2> HIDE DEF F
  <2>5. DrawFooter \in Seq(StrokeSet) /\ Len(DrawFooter) = 1
    BY <2>2, <2>3, <2>4, StrokeTyped, Zenon
  <2>6. QED
    BY <2>5
<1>3. QED
  BY <1>1, <1>2

\* The legend's origin and the height of its bar: no unsigned difference wraps,
\* and the bar is high enough for its labels.
LEMMA LegendMeasures ==
  ASSUME Legal
  PROVE  /\ legendX \in Nat /\ legendY \in Nat /\ legendY = Dim.gap
         /\ panelX \in Nat /\ panelY \in Nat /\ panelW \in Nat
         /\ barH \in Nat /\ barH >= Dim.barMin
<1>1. panelW \in Nat /\ Width \in Nat /\ Height \in Nat
  BY DimMeasures, Measures DEF panelW
<1>2. legendX \in Nat /\ legendY \in Nat
  BY <1>1, DimMeasures DEF legendX, legendY
<1>3. panelX \in Nat /\ panelY \in Nat
  BY <1>2, DimMeasures DEF panelX, panelY, AtLeast
<1>4. barH \in Nat /\ barH >= Dim.barMin
  <2> DEFINE h == IF Height > Dim.low THEN Height \div 2 ELSE (Height * 2) \div 3
             room == Height - footerH - 2 * Dim.gap
             g == IF room > 0 /\ h > room THEN room ELSE h
  <2>1. h \in Int /\ room \in Int
    BY <1>1, DimMeasures DEF footerH
  <2>2. g \in Int
    BY <2>1
  <2>3. barH = AtLeast(g, Dim.barMin)
    BY DEF barH
  <2> HIDE DEF g
  <2>4. QED
    BY <2>2, <2>3, DimMeasures DEF AtLeast
<1>5. QED
  BY <1>1, <1>2, <1>3, <1>4 DEF legendY

LEMMA LegendStrokes ==
  ASSUME Legal
  PROVE  DrawLegend \in Seq(StrokeSet) /\ Len(DrawLegend) = 5
<1> DEFINE x1 == legendX + Dim.barW
           y1 == legendY + barH
           bx == AtLeast(legendX - 1, 0)
           by == AtLeast(legendY - 1, 0)
           lx == x1 + Dim.gap - 2
           P == DrawRect(panelX, panelY, panelW, barH + Dim.gap + Dim.char + 2)
           B == DrawRect(legendX, legendY, Dim.barW, barH)
           L == DrawRect(bx, by, Dim.barW + 2, 1) \cup DrawRect(bx, y1, Dim.barW + 2, 1)
                \cup DrawRect(bx, by, 1, barH + 2) \cup DrawRect(x1, by, 1, barH + 2)
           T == DrawString(lx, legendY, 8)
                \cup DrawString(lx, legendY + barH \div 2 - Dim.char \div 2, 8)
                \cup DrawString(lx, y1 - Dim.char, 8)
           M == DrawString(panelX + Dim.inset, y1 + Dim.edge, NameLen[palette])
<1> USE LegendMeasures, DimMeasures
<1>1. x1 \in Nat /\ y1 \in Nat /\ bx \in Nat /\ by \in Nat /\ lx \in Nat
  BY DEF AtLeast
<1>2. y1 - Dim.char \in Nat
  OBVIOUS
<1>3. legendY + barH \div 2 - Dim.char \div 2 \in Nat
  OBVIOUS
<1>4. y1 + Dim.edge \in Nat /\ panelX + Dim.inset \in Nat
  BY <1>1
<1>5. NameLen[palette] \in Nat
  BY ScreenAssumption DEF Legal
<1>6. P \in SUBSET Pixels /\ B \in SUBSET Pixels
  <2>1. barH + Dim.gap + Dim.char + 2 \in Int
    OBVIOUS
  <2>2. QED
    BY <2>1, RectOnScreen
<1>7. L \in SUBSET Pixels
  <2>1. Dim.barW + 2 \in Int /\ barH + 2 \in Int
    OBVIOUS
  <2> HIDE DEF x1, y1, bx, by
  <2>2. QED
    BY <1>1, <2>1, RectOnScreen
<1>8. T \in SUBSET Pixels
  <2> DEFINE u == legendY + barH \div 2 - Dim.char \div 2
             v == y1 - Dim.char
  <2>1. u \in Nat /\ v \in Nat
    BY <1>2, <1>3
  <2> HIDE DEF u, v, lx
  <2>2. DrawString(lx, u, 8) \subseteq Pixels /\ DrawString(lx, v, 8) \subseteq Pixels
          /\ DrawString(lx, legendY, 8) \subseteq Pixels
    BY <1>1, <2>1, StringOnScreen
  <2>3. QED
    BY <2>2 DEF u, v
<1>9. M \in SUBSET Pixels
  BY <1>4, <1>5, StringOnScreen
<1>10. /\ <<"panel">> \in Inks /\ <<"bar", palette>> \in Inks /\ <<"border">> \in Inks
       /\ <<"label">> \in Inks /\ <<"name", palette>> \in Inks
  BY DEF Inks, Legal
<1>11. DrawLegend = Stroke(P, <<"panel">>) \o Stroke(B, <<"bar", palette>>)
                    \o Stroke(L, <<"border">>) \o Stroke(T, <<"label">>)
                    \o Stroke(M, <<"name", palette>>)
  BY DEF DrawLegend
<1> HIDE DEF P, B, L, T, M
<1>12. /\ Stroke(P, <<"panel">>) \in Seq(StrokeSet) /\ Len(Stroke(P, <<"panel">>)) = 1
       /\ Stroke(B, <<"bar", palette>>) \in Seq(StrokeSet)
       /\ Len(Stroke(B, <<"bar", palette>>)) = 1
       /\ Stroke(L, <<"border">>) \in Seq(StrokeSet) /\ Len(Stroke(L, <<"border">>)) = 1
       /\ Stroke(T, <<"label">>) \in Seq(StrokeSet) /\ Len(Stroke(T, <<"label">>)) = 1
       /\ Stroke(M, <<"name", palette>>) \in Seq(StrokeSet)
       /\ Len(Stroke(M, <<"name", palette>>)) = 1
  BY <1>6, <1>7, <1>8, <1>9, <1>10, StrokeTyped
<1> DEFINE p1 == Stroke(P, <<"panel">>)
           p2 == Stroke(B, <<"bar", palette>>)
           p3 == Stroke(L, <<"border">>)
           p4 == Stroke(T, <<"label">>)
           p5 == Stroke(M, <<"name", palette>>)
<1>13. DrawLegend = p1 \o p2 \o p3 \o p4 \o p5
  BY <1>11
<1>14. /\ p1 \in Seq(StrokeSet) /\ p2 \in Seq(StrokeSet) /\ p3 \in Seq(StrokeSet)
       /\ p4 \in Seq(StrokeSet) /\ p5 \in Seq(StrokeSet)
       /\ Len(p1) = 1 /\ Len(p2) = 1 /\ Len(p3) = 1 /\ Len(p4) = 1 /\ Len(p5) = 1
  BY <1>12
<1> HIDE DEF p1, p2, p3, p4, p5
<1>15. QED
  BY ONLY <1>13, <1>14, FiveJoined

\* The layers over the field: at most 7 strokes, all on the screen, the first of
\* which covers the cursor.
LEMMA StrokesTyped ==
  ASSUME Legal
  PROVE  /\ Strokes \in Seq(StrokeSet) /\ Len(Strokes) \in 6 .. 7
         /\ <<X, Y>> \in Strokes[1].at
<1> DEFINE over == DrawCursor \o DrawLegend
<1>1. over \in Seq(StrokeSet) /\ Len(over) = 1 + 5
  BY CursorStroke, LegendStrokes, Joined
<1>2. over[1] = DrawCursor[1]
  <2>1. DrawCursor \in Seq(StrokeSet) /\ DrawLegend \in Seq(StrokeSet) /\ Len(DrawCursor) = 1
    BY CursorStroke, LegendStrokes
  <2>2. Len(DrawCursor) >= 1
    BY <2>1
  <2>3. QED
    BY <2>1, <2>2, FirstKept, Zenon
<1>3. Strokes = over \o DrawFooter
  BY DEF Strokes
<1> HIDE DEF over
<1>4. Strokes \in Seq(StrokeSet) /\ Len(Strokes) = Len(over) + Len(DrawFooter)
  BY <1>1, <1>3, FooterStroke, Joined
<1>5. Strokes[1] = over[1]
  BY <1>1, <1>3, FooterStroke, FirstKept
<1>6. Len(Strokes) \in 6 .. 7
  BY <1>1, <1>4, FooterStroke
<1>7. QED
  BY <1>2, <1>4, <1>5, <1>6, CursorStroke

\* A set of at most 7 indices has a greatest one.
LEMMA Topmost ==
  ASSUME NEW S \in SUBSET (1 .. 7), S # {}
  PROVE  \E k \in S : \A l \in S : l =< k
<1>1. CASE 7 \in S
  BY <1>1
<1>2. CASE 7 \notin S /\ 6 \in S
  BY <1>2
<1>3. CASE 7 \notin S /\ 6 \notin S /\ 5 \in S
  BY <1>3
<1>4. CASE 7 \notin S /\ 6 \notin S /\ 5 \notin S /\ 4 \in S
  BY <1>4
<1>5. CASE S \subseteq 1 .. 3 /\ 3 \in S
  BY <1>5
<1>6. CASE S \subseteq 1 .. 2 /\ 2 \in S
  BY <1>6
<1>7. CASE S \subseteq {1}
  <2>1. \A k \in S : k = 1
    BY <1>7
  <2>2. PICK k \in S : k = 1
    BY <2>1
  <2>3. \A l \in S : l =< k
    BY <2>1, <2>2
  <2>4. QED
    BY <2>3
<1>8. QED
  BY <1>1, <1>2, <1>3, <1>4, <1>5, <1>6, <1>7

\* Where a stroke covers a pixel, the pixel shows the ink of a stroke.
LEMMA StrokeShows ==
  ASSUME Legal, NEW old, NEW p, NEW k \in DOMAIN Strokes, p \in Strokes[k].at
  PROVE  Over(old, p) \in Inks
<1> DEFINE on == {j \in DOMAIN Strokes : p \in Strokes[j].at}
<1>1. Strokes \in Seq(StrokeSet) /\ DOMAIN Strokes \subseteq 1 .. 7
        /\ DOMAIN Strokes = 1 .. Len(Strokes)
  BY StrokesTyped, LenProperties
<1>2. on \in SUBSET (1 .. 7) /\ on # {}
  BY <1>1
<1>3. \E j \in on : \A l \in on : l =< j
  <2> HIDE DEF on
  <2> QED
    BY <1>2, Topmost
<1>4. (CHOOSE j \in on : \A l \in on : l =< j) \in on
  <2> HIDE DEF on
  <2> QED
    BY <1>3
<1>5. Over(old, p) = Strokes[CHOOSE j \in on : \A l \in on : l =< j].ink
  BY <1>2 DEF Over
<1>6. \A j \in DOMAIN Strokes : Strokes[j].ink \in Inks
  <2>1. \A j \in DOMAIN Strokes : Strokes[j] \in StrokeSet
    BY <1>1, ElementOfSeq
  <2>2. QED
    BY <2>1 DEF StrokeSet
<1>7. QED
  BY <1>4, <1>5, <1>6

-----------------------------------------------------------------------------
\* What the cell blocks are measured in.
LEMMA CellMeasures ==
  ASSUME Legal
  PROVE  /\ cellW \in Nat /\ cellW >= 1 /\ cellH \in Nat /\ cellH >= 1
         /\ drawSkip \in {1, 2}
<1>1. /\ Width \in Nat /\ Height \in Nat /\ NX \in Nat /\ NX >= 1 /\ NY \in Nat /\ NY >= 1
  BY Measures
<1>2. Width \div NX \in Int /\ Height \div NY \in Int
  BY <1>1
<1>3. QED
  BY <1>2 DEF cellW, cellH, drawSkip, AtLeast

LEMMA BlockOnScreen ==
  ASSUME Legal, NEW c \in Cells
  PROVE  Block(c) \subseteq Pixels
<1>1. c[1] \in Nat /\ c[2] \in Nat
  BY Measures DEF Cells, CellsOf, NX, NY
<1>2. /\ c[1] * cellW \in Nat /\ c[2] * cellH \in Nat
      /\ cellW * drawSkip \in Int /\ cellH * drawSkip \in Int
  BY <1>1, CellMeasures
<1>3. DrawRect(c[1] * cellW, c[2] * cellH, cellW * drawSkip, cellH * drawSkip) \subseteq Pixels
  BY <1>2, RectOnScreen
<1>4. QED
  BY <1>3 DEF Block

\* A frame writes on the screen only.
LEMMA FrameOnScreen ==
  ASSUME Legal
  PROVE  Written \subseteq Pixels
<1>1. \A k \in DOMAIN Strokes : Strokes[k].at \subseteq Pixels
  <2>1. Strokes \in Seq(StrokeSet) /\ DOMAIN Strokes = 1 .. Len(Strokes)
    BY StrokesTyped, LenProperties
  <2>2. \A k \in DOMAIN Strokes : Strokes[k] \in StrokeSet
    BY <2>1, ElementOfSeq
  <2>3. QED
    BY <2>2 DEF StrokeSet
<1>2. \A c \in DrawnCells : Block(c) \subseteq Pixels
  BY BlockOnScreen DEF DrawnCells
<1>3. QED
  BY <1>1, <1>2 DEF Written

-----------------------------------------------------------------------------
LEMMA LegalInvariant == Spec => []Legal
<1>1. Init => Legal
  <2> SUFFICES ASSUME Init PROVE Legal
    OBVIOUS
  <2>1. PICK p \in display.cursors : X = p[1] /\ Y = p[2]
    BY DEF Init
  <2>2. p \in PixelsOf(display)
    BY ScreenAssumption DEF Init
  <2>3. p = <<p[1], p[2]>>
    BY <2>2 DEF PixelsOf
  <2>4. QED
    BY <2>1, <2>3, ScreenAssumption DEF Init, Legal
<1>2. Legal /\ [Next]_vars => Legal'
  <2> SUFFICES ASSUME Legal, [Next]_vars PROVE Legal'
    OBVIOUS
  <2>1. CASE \E c \in display.hot : Warm(c)
    BY <2>1 DEF Warm, Legal
  <2>2. CASE NextPalette
    BY <2>2, ScreenAssumption DEF NextPalette, Legal
  <2>3. CASE \E p \in display.cursors : MoveCursor(p)
    <3>1. PICK p \in display.cursors : MoveCursor(p)
      BY <2>3
    <3>2. p \in PixelsOf(display)
      BY ScreenAssumption DEF Legal
    <3>3. p = <<p[1], p[2]>>
      BY <3>2 DEF PixelsOf
    <3>4. QED
      BY <3>1, <3>3 DEF MoveCursor, Legal
  <2>4. CASE Render
    BY <2>4 DEF Render, Legal
  <2>5. CASE UNCHANGED vars
    BY <2>5 DEF vars, Legal
  <2>6. QED
    BY <2>1, <2>2, <2>3, <2>4, <2>5 DEF Next
<1>3. QED
  BY <1>1, <1>2, PTL DEF Spec

\* On every display, with every legend that is at least as high as a character,
\* no frame of Heat2D.c writes outside the frame buffer.
THEOREM ScreenKept == Spec => []StaysOnScreen
<1>1. Init => StaysOnScreen
  BY DEF Init, StaysOnScreen
<1>2. Legal /\ StaysOnScreen /\ [Next]_vars => StaysOnScreen'
  <2> SUFFICES ASSUME Legal, StaysOnScreen, [Next]_vars PROVE StaysOnScreen'
    OBVIOUS
  <2>1. CASE Render
    BY <2>1, FrameOnScreen DEF Render, StaysOnScreen
  <2>2. CASE ~Render
    BY <2>2 DEF Next, Warm, NextPalette, MoveCursor, vars, StaysOnScreen
  <2>3. QED
    BY <2>1, <2>2
<1>3. QED
  BY <1>1, <1>2, LegalInvariant, PTL DEF Spec

\* On every display the frame shows the crosshair at the cursor, or the legend or
\* the footer over it.
THEOREM CursorVisible == Spec => []CursorShown
<1>1. Init => CursorShown
  BY DEF Init, CursorShown
<1>2. Legal /\ CursorShown /\ [Next]_vars => CursorShown'
  <2> SUFFICES ASSUME Legal, CursorShown, [Next]_vars PROVE CursorShown'
    OBVIOUS
  <2>1. CASE Render
    <3>1. 1 \in DOMAIN Strokes /\ <<X, Y>> \in Strokes[1].at
      BY StrokesTyped, LenProperties
    <3>2. Over(fb, <<X, Y>>) \in Inks
      BY <3>1, StrokeShows
    <3>3. <<X, Y>> \in Pixels
      BY Measures DEF Pixels, PixelsOf, Width, Height
    <3>4. fb'[<<X', Y'>>] \in Inks
      BY <2>1, <3>2, <3>3 DEF Render, Frame
    <3>5. QED
      BY <3>4 DEF Inks, CursorShown
  <2>2. CASE ~Render
    BY <2>2 DEF Next, Warm, NextPalette, MoveCursor, vars, CursorShown
  <2>3. QED
    BY <2>1, <2>2
<1>3. QED
  BY <1>1, <1>2, LegalInvariant, PTL DEF Spec

-----------------------------------------------------------------------------
\* Division leaves a rest smaller than the divisor.
LEMMA DivisionRest ==
  ASSUME NEW v \in Nat, NEW d \in Nat, d >= 1
  PROVE  v \div d \in Nat /\ d * (v \div d) =< v /\ v < d * (v \div d) + d
OBVIOUS

\* Along one axis: for a pixel of the drawing there is a row or column of cells that
\* is not skipped and whose enlarged block reaches the pixel.
LEMMA CellOver ==
  ASSUME NEW w \in Nat, w >= 1, NEW s \in {1, 2}, NEW n \in Nat, NEW v \in Nat, v < n * w
  PROVE  \E c \in 0 .. n - 1 : c % s = 0 /\ c * w \in Nat /\ c * w =< v /\ v < c * w + w * s
<1> DEFINE d == w * s
           q == v \div d
           c == q * s
<1>1. d \in Nat /\ d >= 1
  OBVIOUS
<1>2. q \in Nat /\ d * q =< v /\ v < d * q + d
  <2> HIDE DEF d
  <2> QED
    BY <1>1, DivisionRest
<1> HIDE DEF q
<1>3. c \in Nat /\ c * w = d * q /\ c * w \in Nat
  BY <1>2
<1>4. c % s = 0
  <2>1. CASE s = 1
    BY <1>2, <2>1
  <2>2. CASE s = 2
    BY <1>2, <2>2
  <2>3. QED
    BY <2>1, <2>2
<1>5. c * w < n * w
  BY <1>2, <1>3
<1> HIDE DEF c, d
<1>6. c < n
  BY <1>3, <1>5
<1>7. c * w =< v /\ v < c * w + w * s
  BY <1>2, <1>3 DEF d
<1>8. QED
  BY <1>3, <1>4, <1>6, <1>7

\* The blocks of the cells drawn leave no hole in the drawing.
LEMMA NoHoles ==
  ASSUME Legal, NEW p \in Pixels, p[1] < drawW, p[2] < drawH
  PROVE  \E c \in DrawnCells : p \in Block(c)
<1>1. /\ p \in (0 .. Width - 1) \X (0 .. Height - 1)
      /\ Width \in Nat /\ Height \in Nat /\ NX \in Nat /\ NY \in Nat
  BY Measures DEF Pixels, PixelsOf, Width, Height
<1>2. /\ cellW \in Nat /\ cellW >= 1 /\ cellH \in Nat /\ cellH >= 1 /\ drawSkip \in {1, 2}
  BY CellMeasures
<1>3. NX * cellW \in Nat /\ NY * cellH \in Nat
  BY <1>1, <1>2
<1>4. p[1] \in Nat /\ p[2] \in Nat /\ p[1] < NX * cellW /\ p[2] < NY * cellH
  BY <1>1, <1>3 DEF drawW, drawH, AtMost
<1>5. PICK a \in 0 .. NX - 1 : /\ a % drawSkip = 0 /\ a * cellW \in Nat
                               /\ a * cellW =< p[1] /\ p[1] < a * cellW + cellW * drawSkip
  BY <1>1, <1>2, <1>4, CellOver
<1>6. PICK b \in 0 .. NY - 1 : /\ b % drawSkip = 0 /\ b * cellH \in Nat
                               /\ b * cellH =< p[2] /\ p[2] < b * cellH + cellH * drawSkip
  BY <1>1, <1>2, <1>4, CellOver
<1>7. <<a, b>> \in DrawnCells
  BY <1>5, <1>6 DEF DrawnCells, Cells, CellsOf, NX, NY
<1> DEFINE x0 == a * cellW
           y0 == b * cellH
           w == cellW * drawSkip
           h == cellH * drawSkip
<1>8. x0 \in Nat /\ y0 \in Nat /\ w \in Nat /\ h \in Nat
      /\ x0 =< p[1] /\ p[1] < x0 + w /\ y0 =< p[2] /\ p[2] < y0 + h
  BY <1>2, <1>5, <1>6
<1>9. Block(<<a, b>>) = IF x0 >= drawW \/ y0 >= drawH THEN {} ELSE DrawRect(x0, y0, w, h)
  BY DEF Block
<1> HIDE DEF x0, y0, w, h
<1>10. drawW \in Nat /\ drawH \in Nat
  BY <1>1, <1>3 DEF drawW, drawH, AtMost
<1>11. ~(x0 >= drawW \/ y0 >= drawH)
  BY <1>4, <1>8, <1>10
<1>12. p[1] \in x0 .. AtMost(x0 + w, Width) - 1 /\ p[2] \in y0 .. AtMost(y0 + h, Height) - 1
  BY <1>1, <1>8 DEF AtMost
<1>13. ~(x0 >= Width \/ y0 >= Height)
  BY <1>1, <1>4, <1>8
<1>14. p \in DrawRect(x0, y0, w, h)
  BY <1>1, <1>12, <1>13 DEF DrawRect
<1>15. QED
  BY <1>7, <1>9, <1>11, <1>14

\* What a frame shows inside the drawing does not depend on what was there before,
\* and is not black.
LEMMA Overdrawn ==
  ASSUME Legal, NEW old, NEW p \in Pixels, p[1] < drawW, p[2] < drawH
  PROVE  Over(old, p) = Over(Black, p) /\ Over(old, p) # <<"black">>
<1> DEFINE on == {k \in DOMAIN Strokes : p \in Strokes[k].at}
           cs == {c \in DrawnCells : p \in Block(c)}
<1>1. cs # {}
  BY NoHoles
<1>2. CASE on # {}
  <2>1. Over(old, p) = Over(Black, p)
    BY <1>2 DEF Over
  <2>2. Over(old, p) \in Inks
    BY <1>2, StrokeShows
  <2>3. QED
    BY <2>1, <2>2 DEF Inks
<1>3. CASE on = {}
  <2> DEFINE c == CHOOSE c \in cs : TRUE
  <2>1. \A any : Over(any, p) = <<"cell", c, c \in heat, palette>>
    BY <1>1, <1>3 DEF Over
  <2>2. Over(old, p) = Over(Black, p)
    BY <2>1, Zenon
  <2> DEFINE b == c \in heat
  <2>3. Over(old, p) = <<"cell", c, b, palette>>
    BY <2>1
  <2> HIDE DEF b, c
  <2>4. Over(old, p)[1] = "cell"
    BY <2>3
  <2>5. Over(old, p) # <<"black">>
    BY <2>4
  <2>6. QED
    BY <2>2, <2>5
<1>4. QED
  BY <1>2, <1>3

\* What a frame draws depends on the display, the field, the palette and the cursor
\* only.
LEMMA FrameKept ==
  ASSUME UNCHANGED <<display, heat, palette, X, Y>>
  PROVE  /\ UNCHANGED Frame(Black) /\ UNCHANGED Pixels /\ UNCHANGED drawW /\ UNCHANGED drawH
<1>1. UNCHANGED Pixels /\ UNCHANGED drawW /\ UNCHANGED drawH
  BY DEF Pixels, PixelsOf, drawW, drawH, cellW, cellH, Width, Height, NX, NY
<1>2. UNCHANGED Strokes
  BY DEF Strokes, DrawCursor, DrawLegend, DrawFooter, Stroke, DrawRect, DrawString, legendX,
         legendY, panelX, panelY, panelW, barH, footerH, Width, Height
<1>3. UNCHANGED Frame(Black)
  BY <1>1, <1>2 DEF Frame, Over, Black, Block, DrawnCells, DrawRect, drawSkip, drawW, drawH,
         Pixels, PixelsOf, Cells, CellsOf, cellW, cellH, Width, Height, NX, NY
<1>4. QED
  BY <1>1, <1>3

\* On every display nothing is left of earlier frames where the grid is drawn, and
\* the field has no holes there.
THEOREM NothingLeft == Spec => []NoResidue
<1>1. Init => NoResidue
  BY DEF Init, NoResidue
<1>2. Legal /\ NoResidue /\ [Next]_vars => NoResidue'
  <2> SUFFICES ASSUME Legal, NoResidue, [Next]_vars PROVE NoResidue'
    OBVIOUS
  <2>1. CASE Render
    <3>1. UNCHANGED <<display, heat, palette, X, Y>> /\ fb' = Frame(fb)
      BY <2>1 DEF Render
    <3>2. /\ Frame(Black)' = Frame(Black) /\ Pixels' = Pixels
          /\ drawW' = drawW /\ drawH' = drawH
      BY <3>1, FrameKept
    <3>3. \A p \in Pixels : p[1] < drawW /\ p[2] < drawH =>
            fb'[p] = Frame(Black)[p] /\ fb'[p] # <<"black">>
      BY <3>1, Overdrawn DEF Frame
    <3>4. QED
      BY <3>2, <3>3 DEF NoResidue
  <2>2. CASE UNCHANGED vars
    <3>1. UNCHANGED <<display, heat, palette, X, Y>> /\ fb' = fb /\ dirty' = dirty
      BY <2>2 DEF vars
    <3>2. /\ Frame(Black)' = Frame(Black) /\ Pixels' = Pixels
          /\ drawW' = drawW /\ drawH' = drawH
      BY <3>1, FrameKept
    <3>3. QED
      BY <3>1, <3>2 DEF NoResidue
  <2>3. CASE ~Render /\ ~UNCHANGED vars
    <3>1. dirty' = TRUE
      BY <2>3 DEF Next, Warm, NextPalette, MoveCursor
    <3>2. QED
      BY <3>1 DEF NoResidue
  <2>4. QED
    BY <2>1, <2>2, <2>3
<1>3. QED
  BY <1>1, <1>2, LegalInvariant, PTL DEF Spec
=============================================================================
