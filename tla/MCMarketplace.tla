--------------------------- MODULE MCMarketplace ---------------------------
(***************************************************************************)
(* A small instance of Marketplace for TLC.                                *)
(***************************************************************************)
EXTENDS Marketplace, TLC

CONSTANTS u1, u2, u3, u4, u5, x, y

MCUserType == u1 :> "auto dealer" @@ u2 :> "driver" @@ u3 :> "driver employer"
              @@ u4 :> "service provider" @@ u5 :> "auto dealer"

\* Services; a dealer with a store and its products; a job among three drivers.
MCTables == {
    << NewRow(u4, "service", x, 0), NewRow(u4, "service", x, 0) >>,
    << NewRow(u1, "store", x, 0), NewRow(u1, "product", x, 1) >>,
    << NewRow(u3, "job", x, 0), NewRow(u2, "profile", x, 0), NewRow(u2, "profile", y, 0) >> }

MCReaders == {[AllOf({"service"}) EXCEPT !.status = "pending"], [AllOf({"service"}) EXCEPT !.user = u4],
    AllOf({"product", "store"}), [AllOf({"profile"}) EXCEPT !.user = u3, !.by = 1]}

\* Request slots are interchangeable.
Symmetry == Permutations(Tasks)
=============================================================================
