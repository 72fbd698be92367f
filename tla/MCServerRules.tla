---------------------------- MODULE MCServerRules ----------------------------
(* ServerRules with three contents: long and other have three chunks, the   *)
(* same first one; short has one, and leaves the last chunks of either.     *)
(* The last chunk of each is not full.                                      *)
EXTENDS ServerRules, TLC

CONSTANTS long, other, short

MCContents == {long, other, short}

\* The first byte is the prefix.
MCImage ==
    (long :> <<6, 1, 1, 2, 3, 5, 4>>) @@ (other :> <<6, 1, 1, 7, 8, 0, 0>>) @@ (short :> <<2, 9>>)
=============================================================================
