------------------------- MODULE MCExampleControllers -------------------------
(* The instance of the example controllers for TLC: each of them, and one   *)
(* more client of the services.                                             *)
EXTENDS ExampleControllers

MCControllers == AllControllers
=============================================================================
