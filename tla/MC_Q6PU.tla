------------------------------ MODULE MC_Q6PU ------------------------------
(* Q6PU with tuples of three fields, two of which are columns.             *)
EXTENDS Q6PU

TwoColumns == <<"skip", "qty", "shp">>
Needed == <<"qty", "shp">>

\* Empty, half full and full pages, each first and second.
EmptyHalfFull == {<<0, 2>>, <<1, 0>>, <<2, 1>>}

===========================================================================
