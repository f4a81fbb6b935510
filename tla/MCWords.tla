------------------------------ MODULE MCWords ------------------------------
(* All classes; a tab, and a delimiter that can overlap itself; an address  *)
(* piece of each sort.                                                      *)
EXTENDS Words

MCDelimiters == {<<"blank">>, <<"dot", "dot">>}
MCPieces == {"http:", "www.", ".com", ".cn", ".html", "@", "/", "name"}
=============================================================================
