--------------------------- MODULE MCWorkspaceAccess ---------------------------
(***************************************************************************)
(* An instance of WorkspaceAccess for TLC: the owner of the buyer and a    *)
(* second person who is one of its members already, or not yet registered. *)
(***************************************************************************)
EXTENDS WorkspaceAccess

CONSTANTS boss, guest

TheUsers == {boss, guest}
TheFirstSeats ==
    {[u \in TheUsers |-> IF u = boss THEN [role |-> "owner", status |-> "active"] ELSE seat] :
        seat \in {NoSeat, [role |-> "admin", status |-> "active"]}}
=============================================================================
