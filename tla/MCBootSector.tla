---------------------------- MODULE MCBootSector ----------------------------
(* BootSector for every kernel size up to the 120 sectors that fit between *)
(* KERNEL_OFFSET and the end of the segment, and a few that do not.        *)
EXTENDS BootSector

MCSizes == 0..125
=============================================================================
