-------------------------------- MODULE Lists --------------------------------
(***************************************************************************)
(* Lists that are stored as they are: what an update that removes elements *)
(* leaves of one.                                                          *)
(***************************************************************************)
EXTENDS Naturals, Sequences

\* $pull, and the positions of texts that move to the front: the others stay as
\* they are, in their order.
Dropping(s, out) ==
  LET rest[n \in 0 .. Len(s)] ==
        IF n = 0 THEN <<>>
        ELSE IF s[n] \in out THEN rest[n - 1] ELSE Append(rest[n - 1], s[n])
  IN rest[Len(s)]
=============================================================================
