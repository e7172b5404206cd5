--------------------------- MODULE MCClauseLibrary ---------------------------
(***************************************************************************)
(* A small instance of ClauseLibrary: the default profile, a tenant with   *)
(* a list under its name in capital letters, and one without a list; a     *)
(* clause only that tenant's list is shipped with, another one, and one    *)
(* with no valid level whose name differs from that one's in a blank.  The *)
(* default profile is shipped with none of them, so that all three may be  *)
(* approved.  A document of the last tenant and one of the second, each    *)
(* with a run.                                                             *)
(***************************************************************************)
EXTENDS ClauseLibrary

CONSTANTS default, bank, BANK, other, shipped, proposed, odd, r1, r2, d1, d2

MCTenants  == {default, bank, BANK, other}
MCUpper    == [t \in MCTenants |-> IF t = bank THEN BANK ELSE t]
MCClauses  == {shipped, proposed, odd}
MCStripped == [c \in MCClauses |-> IF c = odd THEN proposed ELSE c]
MCShipped  == [t \in {default, BANK} |->
                  IF t = BANK THEN {shipped, proposed} ELSE {}]
MCRuns     == {r1, r2}
MCDocs     == {d1, d2}
MCDocOf    == [r \in MCRuns |-> IF r = r2 THEN d2 ELSE d1]
MCTenantOf == [d \in MCDocs |-> IF d = d1 THEN other ELSE bank]

=============================================================================
