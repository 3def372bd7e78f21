--------------------------- MODULE MCTransport --------------------------
(* Two commands over two generations of the client.  The commands are      *)
(* interchangeable.                                                        *)
EXTENDS CommandTransport, TLC

CONSTANTS j, k

MCCalls == {j, k}

MCSymmetry == Permutations(MCCalls)
=========================================================================
