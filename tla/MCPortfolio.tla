----------------------------- MODULE MCPortfolio -----------------------------
(***************************************************************************)
(* The open pairs alone, with every leg either exchange can hold.          *)
(***************************************************************************)
EXTENDS Portfolio

FourLegs == {"a", "b"} \X {"long", "short"}
=============================================================================
