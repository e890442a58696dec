--------------------------------- MODULE MCLog ---------------------------------
(* Log for a few blocks.                                                      *)
EXTENDS Log
===============================================================================
