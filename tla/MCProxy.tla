------------------------------ MODULE MCProxy -------------------------------
(* Instances of Proxy for TLC.                                             *)
EXTENDS Proxy, TLC

\* "whole" is an event on one line; "head" and "tail" are one together;
\* everything else does not decode.
Encoded == (<<"whole">> :> "e1") @@ (<<"head", "tail">> :> "e2")
=============================================================================
