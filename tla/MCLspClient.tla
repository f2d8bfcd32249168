----------------------------- MODULE MCLspClient -----------------------------
(***************************************************************************)
(* A small instance of LspClient for TLC: two workers.                      *)
(***************************************************************************)
EXTENDS LspClient

CONSTANTS first, second, one, two

MCWorkers       == {first, second}
MCRegistrations == {one, two}
=============================================================================
