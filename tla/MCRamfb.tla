------------------------------ MODULE MCRamfb ------------------------------
(***************************************************************************)
(* Instances of Ramfb for TLC: directories with the file first, last,      *)
(* twice, missing and read-only, and an empty one; a grid of 5 x 4 cells   *)
(* on a screen of 10 x 8 pixels; the program's own palettes.               *)
(***************************************************************************)
EXTENDS Ramfb

F(name, sel) == [name |-> name, sel |-> sel]

MCDirs == {
  <<>>,
  <<F("etc/ramfb", 33)>>,
  <<F("bootorder", 32), F("etc/ramfb", 33), F("etc/ramfb2", 34)>>,
  <<F("etc/ramfb", 33), F("etc/ramfb", 35)>>,
  <<F("bootorder", 32), F("etc/acpi/rsdp", 36)>>,
  <<F("bootorder", 32), F("etc/ramfb", 37)>>}
S(t, r, g, b) == [t |-> t, c |-> <<r, g, b>>]

MCPalettes == <<
  <<S(0, 20, 24, 82), S(35, 30, 120, 200), S(65, 255, 180, 60), S(100, 255, 255, 245)>>,
  <<S(0, 10, 40, 70), S(40, 40, 140, 170), S(75, 80, 210, 190), S(100, 230, 255, 255)>>,
  <<S(0, 55, 10, 60), S(35, 140, 30, 140), S(70, 240, 120, 200), S(100, 255, 240, 255)>> >>

MCWritable == {33, 35}

=============================================================================
