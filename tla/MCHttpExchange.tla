--------------------------- MODULE MCHttpExchange ---------------------------
(***************************************************************************)
(* Requests up to the size of a whole one with a parameter or a header and *)
(* a body, in any segments; HTTP responses fit in the send buffer, as they *)
(* do in the program, and the longer echoes do not.                        *)
(***************************************************************************)
EXTENDS HttpExchange

MCLengths == {-1, 0, 1, 2}
MCReplySizes == 1 .. 30
=============================================================================
