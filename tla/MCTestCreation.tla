---------------------------- MODULE MCTestCreation ----------------------------
(* One tab and two requests, for what the routes' test cases say of them. *)
EXTENDS TestCreation

=============================================================================
