------------------------------- MODULE MCSSE --------------------------------
(* Instances of SSE for TLC.                                               *)
EXTENDS SSE, TLC

\* "whole" is an event on one line; "head" and "tail" are one together;
\* everything else does not decode.
Encoded == (<<"whole">> :> "e1") @@ (<<"head", "tail">> :> "e2")
=============================================================================
