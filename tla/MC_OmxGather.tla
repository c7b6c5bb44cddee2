---------------------------- MODULE MC_OmxGather ----------------------------
(* OmxGather with 32 rows, banks of 16 rows, and a block of 8 lookups that *)
(* reach both ends of parts.  Every bank layout is combined with one shape *)
(* of the kernel, and every shape of the kernel with both bank strides.    *)
EXTENDS OmxGather

OneBlock == {<<31, 0, 16, 15, 2, 29, 6, 9>>}

Layouts ==
  [sw_emu : BOOLEAN, p_ch : 0 .. 1, hbmNum : {0, 1, 2, 3, 4, 8, 16, 32, 64}, pu : {2},
   IN_ENTRIES : {4}]

Shapes ==
  [sw_emu : {FALSE}, p_ch : 0 .. 1, hbmNum : {2}, pu : {0, 1, 2, 3, 4, 8}, IN_ENTRIES : {2, 4}]

AllLines == Layouts \cup Shapes

===========================================================================
