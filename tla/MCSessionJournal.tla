--------------------------- MODULE MCSessionJournal ---------------------------
(* Instances of SessionJournal for TLC.                                     *)
EXTENDS SessionJournal
=============================================================================
