---------------------------- MODULE MCRunSignals ----------------------------
(* Model values for the signals of RunSignals. *)
EXTENDS RunSignals

CONSTANTS term, quit, usr1
=============================================================================
