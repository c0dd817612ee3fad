------------------------------ MODULE Drawing ------------------------------
(***************************************************************************)
(* A program draws with the functions of svgalib (Raster), with those of   *)
(* vgagl (VGAGL), which bypass them and write to the video memory through  *)
(* vga_setpage alone, or lets the card draw (Accel).                       *)
(***************************************************************************)
EXTENDS Raster, VGAGL, Accel

VARIABLE library

DrawingInit ==
  /\ library \in {"svgalib", "vgagl", "accelerator"}
  /\ Init /\ GLInit /\ AccelInit
  /\ library # "svgalib" => mode = CHOOSE m \in Modes : TRUE
  /\ library # "vgagl" => setup = CHOOSE s \in Setups : TRUE
  /\ library # "accelerator" => driver = (CHOOSE d \in Drivers : TRUE) /\ own = 0

DrawingNext ==
  \/ library = "svgalib" /\ Next /\ UNCHANGED <<library, glvars, accelvars>>
  \/ library = "vgagl" /\ GLNext /\ UNCHANGED <<library, vars, accelvars>>
  \/ library = "accelerator" /\ AccelNext /\ UNCHANGED <<library, vars, glvars>>

DrawingSpec == DrawingInit /\ [][DrawingNext]_<<library, vars, glvars, accelvars>>

(* A program that draws with svgalib: after any calls the monitor shows    *)
(* the picture they describe, no pixel lost at a page's end or left to an  *)
(* earlier call's registers, and reading it gives it back.                 *)
Drawn == library = "svgalib" => CanvasKept

(* A program that draws with vgagl: the screen and the virtual screen hold *)
(* the pictures its calls describe, across pages, clipped or not.          *)
Pictured == library = "vgagl" => ContextsKept

=============================================================================
