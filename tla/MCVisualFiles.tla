---------------------------- MODULE MCVisualFiles -----------------------------
(* The instance of VisualFiles for TLC.  The manifest is checked between    *)
(* two pages and written after them.                                        *)
EXTENDS VisualFiles

MCPages == <<"architecture", "saturation", "sequence">>
MCSorted == <<"architecture", Manifest, "saturation", "sequence">>
=============================================================================
