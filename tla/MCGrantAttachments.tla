------------------------ MODULE MCGrantAttachments ------------------------
(* Keys and providers of the instances of GrantAttachments.                *)
EXTENDS GrantAttachments

CONSTANTS k1, k2, p1, p2
===========================================================================
