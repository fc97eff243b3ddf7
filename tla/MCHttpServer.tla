----------------------------- MODULE MCHttpServer -----------------------------
(***************************************************************************)
(* HttpServer with two clients.  One may ask for a file in two pieces, for *)
(* one more, and for a file without bytes; the other for a file and for    *)
(* something that is no request.                                           *)
(***************************************************************************)
EXTENDS HttpServer, TLC

CONSTANTS c1, c2

clients == {c1, c2}
says == (c1 :> {"part", "keep", "empty"}) @@ (c2 :> {"close", "bad", "junk"})

=============================================================================
