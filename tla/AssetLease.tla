----------------------------- MODULE AssetLease -----------------------------
(***************************************************************************)
(* Leases and fencing tokens of the asset service (src/mtos/roster.py).    *)
(*                                                                         *)
(* Every operation is one exclusive SQLite transaction under a file lock   *)
(* and therefore one action.  Of an asset the model keeps what its users   *)
(* rely on: whether it is in service or in maintenance (standing for the   *)
(* whole operating view but the address) and its decoder address.  A       *)
(* session of Core is its epoch; a lease_id, fresh for each new lease, is  *)
(* identified with the lease's token.  The expiry of a lease is left out:  *)
(* acquire_leases writes it and never reads it.                            *)
(***************************************************************************)
EXTENDS Naturals

CONSTANTS
    Asset,       \* asset identities
    Address,     \* decoder addresses
    MaxSession,  \* bound: sessions of Core
    MaxRevision, \* bound: revisions of an asset
    None         \* absent value

ASSUME LeaseBoundsAssumption ==
    /\ MaxSession \in Nat \ {0} /\ MaxRevision \in Nat \ {0}
ASSUME AddressAssumption == Address # {}

Session == 1..MaxSession
Mode == {"active", "maintenance"}
AssetRecord == [revision : Nat \ {0}, mode : Mode, address : Address]
Lease == [token : Nat \ {0}, session : Session]

ASSUME NoneAssumption == None \notin Lease

VARIABLES
    asset, \* tables asset, lifecycle, control
    fence, \* table asset_fence: the last token of an asset
    lease  \* table asset_lease: at most one per asset

registry == <<asset, fence, lease>>

RegistryTypeOK ==
    /\ asset \in [Asset -> AssetRecord]
    /\ fence \in [Asset -> Nat]
    /\ lease \in [Asset -> Lease \cup {None}]

RegistryInit ==
    /\ \E d \in Address :
          asset = [a \in Asset |-> [revision |-> 1, mode |-> "active",
                                    address |-> d]]
    /\ fence = [a \in Asset |-> 0]
    /\ lease = [a \in Asset |-> None]

----------------------------------------------------------------------------
(* acquire_leases: refused when the asset changed since it was read, or     *)
(* when a session at least as young holds it; renewed for its own holder.   *)

MayAcquire(a, revision, s) ==
    /\ asset[a].revision = revision
    /\ lease[a] # None => lease[a].session <= s

Renews(a, s) == lease[a] # None /\ lease[a].session = s

GrantedToken(a, s) == IF Renews(a, s) THEN lease[a].token ELSE fence[a] + 1

AcquireLease(a, revision, s) ==
    /\ MayAcquire(a, revision, s)
    /\ lease' = [lease EXCEPT ![a] = [token |-> GrantedToken(a, s),
                                      session |-> s]]
    /\ fence' = IF Renews(a, s) THEN fence
                ELSE [fence EXCEPT ![a] = @ + 1]
    /\ UNCHANGED asset

(* Mutant: the counter goes with the lease it numbered. *)
RetireLeaseAndFence(a) ==
    /\ lease' = [lease EXCEPT ![a] = None]
    /\ fence' = [fence EXCEPT ![a] = 0]

(* Mutant: an edit leaves the lease to its holder. *)
RetireNothing(a) == UNCHANGED <<lease, fence>>

(* save: the lease of an asset whose operating view changed is retired; its *)
(* counter stays.                                                           *)
RetireLease(a) == lease' = [lease EXCEPT ![a] = None] /\ UNCHANGED fence

(* An edit of notes, label, pictures... *)
EditDescription(a) ==
    /\ asset[a].revision < MaxRevision
    /\ asset' = [asset EXCEPT ![a].revision = @ + 1]
    /\ UNCHANGED <<fence, lease>>

(* An edit of the operating view other than the address. *)
EditOperatingView(a) ==
    /\ asset[a].revision < MaxRevision
    /\ \E m \in Mode \ {asset[a].mode} :
          asset' = [asset EXCEPT ![a].revision = @ + 1, ![a].mode = m]
    /\ RetireLease(a)

(* The conditional commit of an address that was programmed and verified. *)
UpdateProgrammedAddress(a, revision, d) ==
    /\ asset[a].revision = revision
    /\ asset[a].address # d
    /\ asset' = [asset EXCEPT ![a].revision = @ + 1, ![a].address = d]
    /\ RetireLease(a)

RegistryNext ==
    \E a \in Asset :
        \/ EditDescription(a) \/ EditOperatingView(a)
        \/ \E s \in Session : AcquireLease(a, asset[a].revision, s)
        \/ \E d \in Address :
               UpdateProgrammedAddress(a, asset[a].revision, d)

RegistrySpec == RegistryInit /\ [][RegistryNext]_registry

----------------------------------------------------------------------------
(* Properties *)

(* A lease that is held carries the newest token of its asset: whoever      *)
(* holds one is not fenced out by a token issued to somebody else.          *)
LeaseNewest == \A a \in Asset : lease[a] # None => lease[a].token = fence[a]

(* A token speaks for one holder and one operating view: tokens are never   *)
(* issued twice, whatever edits and sessions come in between, and no lease  *)
(* outlives the view of the asset it was granted for.                       *)
TokenUnique ==
    [][\A a \in Asset :
          /\ fence'[a] >= fence[a]
          /\ (lease'[a] # None /\ lease'[a] # lease[a])
                 => lease'[a].token > fence[a]
          /\ (lease'[a] # None /\ lease'[a] = lease[a])
                 => /\ asset'[a].mode = asset[a].mode
                    /\ asset'[a].address = asset[a].address]_registry
=============================================================================
