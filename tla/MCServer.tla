------------------------------ MODULE MCServer ------------------------------
(* The command lines that GfsServer is checked with.                       *)
EXTENDS GfsServer

MCArgLists ==
  {<<"la">>, <<"S", "la", "lb">>, <<"T">>, <<"1", "la", "lb">>, <<"S", "A">>, <<"T", "A">>,
   <<"i">>}
=============================================================================
