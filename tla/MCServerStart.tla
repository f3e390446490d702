---------------------------- MODULE MCServerStart -----------------------------
(* A small instance of ServerStart: two of the keys of each section.       *)
EXTENDS ServerStart

MCServerKeys == <<"Port", "ThreadCount">>
MCTextKeys == <<"Host">>
MCThreadCounts == {-1, 0, 1, 3}
==============================================================================
