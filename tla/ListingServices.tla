-------------------------- MODULE ListingServices --------------------------
(***************************************************************************)
(* The five services that write listings, and the controllers in front of  *)
(* them.  A guard on the role reads the token; owners are compared after   *)
(* the row is found.                                                       *)
(***************************************************************************)
EXTENDS ListingStore

(* ServiceService *)

CreateService(u, text) == Create(u, "service provider", "service", text)
UpdateService(t, u, id, text) == Edit(t, u, "service", id, text)
DeleteService(t, u, id) == Discard(t, u, "service", id)
TrackService(t, id) == Visit(t, "service", id)

\* approveService and rejectService, by whichever administrator.
Decide(t, id, status) ==
    /\ id \in Live /\ listing[id].kind = "service"
    /\ Finds(t, id, "deciding", [Loaded(id) EXCEPT !.status = status])
    /\ disowned' = IF listing[id].owner \in suspended THEN disowned \cup {id} ELSE disowned
    /\ UNCHANGED <<tables, born, told, untold, gone, unlogged>>

ApproveService(t, id) == Decide(t, id, "approved")
RejectService(t, id) == Decide(t, id, "rejected")

ServiceController(t, u) ==
    \/ \E text \in Texts : CreateService(u, text)
    \/ \E id \in Ids : \/ \E text \in Texts : UpdateService(t, u, id, text)
                       \/ DeleteService(t, u, id)
                       \/ TrackService(t, id)

ServiceApproval(t) == \E id \in Ids : ApproveService(t, id) \/ RejectService(t, id)

-----------------------------------------------------------------------------
(* StoreService and ProductService *)

CreateStore(u, text) == Create(u, "auto dealer", "store", text)
UpdateStore(t, u, id, text) == Edit(t, u, "store", id, text)
DeleteStore(t, u, id) == Discard(t, u, "store", id)
TrackStore(t, id) == Visit(t, "store", id)

StoreController(t, u) ==
    \/ \E text \in Texts : CreateStore(u, text)
    \/ \E id \in Ids : \/ \E text \in Texts : UpdateStore(t, u, id, text)
                       \/ DeleteStore(t, u, id)
                       \/ TrackStore(t, id)

StoresOf(u) == {id \in Ids : Owns(u, "store", id)}

\* The store is looked for first, and named in the row that is inserted afterwards.
CreateProduct(t, u, text) ==
    /\ UserType[u] = "auto dealer"
    /\ \E store \in StoresOf(u) :
          Begins(t, [pc |-> "inserting", id |-> 0, row |-> NewRow(u, "product", text, store)])
    /\ UNCHANGED <<tables, history>>

UpdateProduct(t, u, id, text) == Edit(t, u, "product", id, text)
DeleteProduct(t, u, id) == Discard(t, u, "product", id)
TrackProduct(t, id) == Visit(t, "product", id)

ProductController(t, u) ==
    \/ \E text \in Texts : CreateProduct(t, u, text)
    \/ \E id \in Ids : \/ \E text \in Texts : UpdateProduct(t, u, id, text)
                       \/ DeleteProduct(t, u, id)
                       \/ TrackProduct(t, id)

-----------------------------------------------------------------------------
(* DriverJobService and DriverProfileService *)

CreateDriverJob(u, text) == Create(u, "driver employer", "job", text)
UpdateDriverJob(t, u, id, text) == Edit(t, u, "job", id, text)
DeleteDriverJob(t, u, id) == Discard(t, u, "job", id)
TrackDriverJob(t, id) == Visit(t, "job", id)

DriverJobController(t, u) ==
    \/ \E text \in Texts : CreateDriverJob(u, text)
    \/ \E id \in Ids : \/ \E text \in Texts : UpdateDriverJob(t, u, id, text)
                       \/ DeleteDriverJob(t, u, id)
                       \/ TrackDriverJob(t, id)

CreateDriverProfile(u, text) == Create(u, "driver", "profile", text)
UpdateDriverProfile(t, u, id, text) == Edit(t, u, "profile", id, text)
DeleteDriverProfile(t, u, id) == Discard(t, u, "profile", id)
TrackDriverProfile(t, id) == Visit(t, "profile", id)

DriverProfileController(t, u) ==
    \/ \E text \in Texts : CreateDriverProfile(u, text)
    \/ \E id \in Ids : \/ \E text \in Texts : UpdateDriverProfile(t, u, id, text)
                       \/ DeleteDriverProfile(t, u, id)
                       \/ TrackDriverProfile(t, id)
=============================================================================
