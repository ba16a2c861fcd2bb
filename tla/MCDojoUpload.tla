---------------------------- MODULE MCDojoUpload ----------------------------
(* Three jobs for DojoUpload: two of one product and one of another, whose    *)
(* name has the first as a part, on an empty service and on services that     *)
(* others have used.                                                          *)
EXTENDS DojoUpload

CONSTANTS j1, j2, j3

MCProductOf == [j \in Jobs |-> IF j = j3 THEN "webapp" ELSE "app"]
MCMatches == [name \in Names |-> IF name = "app" THEN {"app", "webapp"} ELSE {name}]

Before(name) == [name |-> name, type |-> 1, by |-> "earlier"]
MCHoldings ==
    { [slas |-> 0, types |-> 0, products |-> << >>],
      [slas |-> 1, types |-> 1, products |-> <<Before("third")>>],
      [slas |-> 1, types |-> 1, products |-> <<Before("third"), Before("webapp")>>],
      [slas |-> 2, types |-> 1, products |-> <<Before("webapp"), Before("webapp"), Before("app")>>],
      [slas |-> 1, types |-> 1, products |-> <<Before("webapp"), Before("app")>>],
      [slas |-> 1, types |-> 1, products |-> <<Before("app")>>],
      [slas |-> 1, types |-> 2, products |-> << >>] }

=============================================================================
