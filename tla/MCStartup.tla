----------------------------- MODULE MCStartup -----------------------------
(* The loader's geometry and sizes; .bss is cut off a little after the      *)
(* sectors that are loaded.  Drive 0x80 is laid out like the floppy image,  *)
(* like a hard disk, like a floppy of half the density, or has one side.    *)
(* Messages of two bytes, two keys.                                         *)
EXTENDS Startup

MCDrives == {FLOPPY, HARD_DISK}
MCGeometries == {<<18, 2>>, <<63, 16>>, <<9, 2>>, <<36, 1>>}
=============================================================================
