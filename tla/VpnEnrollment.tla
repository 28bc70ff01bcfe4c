--------------------------- MODULE VpnEnrollment ---------------------------
(***************************************************************************)
(* Invites and devices of the VPN enrollment service                       *)
(* (deploy/edge1-vpn-enroll/overlay/edge1_vpn_enroll/core.py and db.py).   *)
(*                                                                         *)
(* Every change of the database runs under SQLite's write lock, so there   *)
(* is at most one transaction at a time (enrTx).  Two things it changes    *)
(* are outside the database and are not rolled back with it: the peer      *)
(* blocks of the WireGuard configuration file and the peers in the kernel. *)
(* The transaction takes a step for each of them and may end between any   *)
(* two, by an exception or by the death of the process.                    *)
(***************************************************************************)
EXTENDS Integers, Sequences, FiniteSets

CONSTANTS
  Invites,
  MaxUses,        \* max_uses of every invite
  LastAddress,    \* the client network has the addresses 1..LastAddress
  MaxKeys,        \* bound on the key pairs generated
  NoEnrTx         \* no transaction is open

ASSUME EnrBounds == {MaxUses, LastAddress, MaxKeys} \subseteq Nat

VARIABLES
  enrInvites,   \* invite -> its row
  enrDevices,   \* rows of devices; the id of a row is its place
  enrFile,      \* the peer blocks in the WireGuard configuration file: keys are
                \* numbered in the order in which blocks are appended, so that a
                \* block's key tells its place
  enrKernel,    \* the peers of the running interface
  enrTx,        \* the open transaction
  enrKeys,      \* key pairs generated so far
  enrTouched    \* history: devices some revoke_device() has begun to remove

enrVars == <<enrInvites, enrDevices, enrFile, enrKernel, enrTx, enrKeys,
             enrTouched>>

\* The rows other components read, as DeviceLedger specifies them.
Ledger == INSTANCE DeviceLedger WITH ledger <- enrDevices

EnrAddresses == 1..LastAddress
InviteRows == [state : {"absent", "open", "revoked", "expired"}, uses : Nat]
Blocks == [device : 1..MaxKeys, key : 1..MaxKeys, address : EnrAddresses]
Peers == [key : 1..MaxKeys, address : EnrAddresses]
----------------------------------------------------------------------------
EnrInit ==
  /\ enrInvites = [i \in Invites |-> [state |-> "absent", uses |-> 0]]
  /\ enrDevices = <<>> /\ enrFile = {} /\ enrKernel = {}
  /\ enrTx = NoEnrTx /\ enrKeys = 0 /\ enrTouched = {}

CreateInvite(i) ==
  /\ enrTx = NoEnrTx
  /\ enrInvites[i].state = "absent"
  /\ enrInvites' = [enrInvites EXCEPT ![i].state = "open"]
  /\ UNCHANGED <<enrDevices, enrFile, enrKernel, enrTx, enrKeys, enrTouched>>

RevokeInvite(i) ==
  /\ enrTx = NoEnrTx
  /\ enrInvites[i].state \in {"open", "expired"}
  /\ enrInvites' = [enrInvites EXCEPT ![i].state = "revoked"]
  /\ UNCHANGED <<enrDevices, enrFile, enrKernel, enrTx, enrKeys, enrTouched>>

\* expires_at passes.
InviteExpires(i) ==
  /\ enrInvites[i].state = "open"
  /\ enrInvites' = [enrInvites EXCEPT ![i].state = "expired"]
  /\ UNCHANGED <<enrDevices, enrFile, enrKernel, enrTx, enrKeys, enrTouched>>

\* invite_is_redeemable()
Redeemable(i) ==
  enrInvites[i].state = "open" /\ enrInvites[i].uses < MaxUses

Unrevoked == {d \in DOMAIN enrDevices : ~enrDevices[d].revoked}

\* allocate_address(): the lowest address that no unrevoked row and, when
\* "wg show" works, no peer of the interface uses.
UsedAddresses(wgShow) ==
  {enrDevices[d].address : d \in Unrevoked}
    \cup (IF wgShow THEN {p.address : p \in enrKernel} ELSE {})

Allocations(wgShow) ==
  LET free == EnrAddresses \ UsedAddresses(wgShow) IN
  {a \in free : \A b \in free : a <= b}

\* Mutant: the column is not UNIQUE.
InsertableAlways(a) == a \in EnrAddresses

\* The address column is UNIQUE over all rows, the revoked ones included.
Insertable(a) == \A d \in DOMAIN enrDevices : enrDevices[d].address # a

\* enroll_device() up to its INSERT and UPDATE.  A refused invite, a full
\* network and a violated UNIQUE all raise and leave nothing behind.
BeginEnroll(i, wgShow) ==
  /\ enrTx = NoEnrTx
  /\ Redeemable(i)
  /\ enrKeys < MaxKeys
  /\ \E a \in Allocations(wgShow) :
       /\ Insertable(a)
       /\ enrTx' = [op |-> "enroll", at |-> "file", invite |-> i,
                    device |-> Len(enrDevices) + 1, key |-> enrKeys + 1,
                    address |-> a]
  /\ enrKeys' = enrKeys + 1
  /\ UNCHANGED <<enrInvites, enrDevices, enrFile, enrKernel, enrTouched>>

\* append_peer(): first the block in the file, then "wg set", which takes the
\* address away from any other peer.
AppendBlock ==
  /\ enrTx # NoEnrTx /\ enrTx.op = "enroll" /\ enrTx.at = "file"
  /\ enrFile' = enrFile \cup {[device |-> enrTx.device, key |-> enrTx.key,
                               address |-> enrTx.address]}
  /\ enrTx' = [enrTx EXCEPT !.at = "kernel"]
  /\ UNCHANGED <<enrInvites, enrDevices, enrKernel, enrKeys, enrTouched>>

SetPeer ==
  /\ enrTx # NoEnrTx /\ enrTx.op = "enroll" /\ enrTx.at = "kernel"
  /\ enrKernel' = {p \in enrKernel : p.address # enrTx.address}
                    \cup {[key |-> enrTx.key, address |-> enrTx.address]}
  /\ enrTx' = [enrTx EXCEPT !.at = "commit"]
  /\ UNCHANGED <<enrInvites, enrDevices, enrFile, enrKeys, enrTouched>>

CommitEnroll ==
  /\ enrTx # NoEnrTx /\ enrTx.op = "enroll" /\ enrTx.at = "commit"
  /\ enrDevices' = Append(enrDevices,
       [invite |-> enrTx.invite, key |-> enrTx.key, address |-> enrTx.address,
        label |-> "given", revoked |-> FALSE])
  /\ enrInvites' = [enrInvites EXCEPT ![enrTx.invite].uses = @ + 1]
  /\ enrTx' = NoEnrTx
  /\ UNCHANGED <<enrFile, enrKernel, enrKeys, enrTouched>>

\* revoke_device() of an unrevoked row; its UPDATE is not committed yet.
BeginRevoke(d) ==
  /\ enrTx = NoEnrTx
  /\ d \in Unrevoked
  /\ enrTx' = [op |-> "revoke", at |-> "file", device |-> d]
  /\ enrTouched' = enrTouched \cup {d}
  /\ UNCHANGED <<enrInvites, enrDevices, enrFile, enrKernel, enrKeys>>

\* Mutant: the blocks of the device and of every later one are dropped.
KeptEarlier(b, d) == b.device < d

\* remove_peer_from_config() drops every block marked with the device's id,
\* that of an enrollment which was rolled back under the same id too.
Kept(b, d) == b.device # d

RemoveBlock ==
  /\ enrTx # NoEnrTx /\ enrTx.op = "revoke" /\ enrTx.at = "file"
  /\ enrFile' = {b \in enrFile : Kept(b, enrTx.device)}
  /\ enrTx' = [enrTx EXCEPT !.at = "kernel"]
  /\ UNCHANGED <<enrInvites, enrDevices, enrKernel, enrKeys, enrTouched>>

RemovePeer ==
  /\ enrTx # NoEnrTx /\ enrTx.op = "revoke" /\ enrTx.at = "kernel"
  /\ enrKernel' = {p \in enrKernel : p.key # enrDevices[enrTx.device].key}
  /\ enrTx' = [enrTx EXCEPT !.at = "commit"]
  /\ UNCHANGED <<enrInvites, enrDevices, enrFile, enrKeys, enrTouched>>

CommitRevoke ==
  /\ enrTx # NoEnrTx /\ enrTx.op = "revoke" /\ enrTx.at = "commit"
  /\ enrDevices' = [enrDevices EXCEPT ![enrTx.device].revoked = TRUE]
  /\ enrTx' = NoEnrTx
  /\ UNCHANGED <<enrInvites, enrFile, enrKernel, enrKeys, enrTouched>>

\* An exception or the death of the process: SQLite rolls the rows back, the
\* file and the kernel keep what was done to them.
RollBack ==
  /\ enrTx # NoEnrTx
  /\ enrTx' = NoEnrTx
  /\ UNCHANGED <<enrInvites, enrDevices, enrFile, enrKernel, enrKeys,
                 enrTouched>>

RenameDevice(d) ==
  /\ enrTx = NoEnrTx
  /\ d \in Unrevoked
  /\ enrDevices' = [enrDevices EXCEPT ![d].label = "renamed"]
  /\ UNCHANGED <<enrInvites, enrFile, enrKernel, enrTx, enrKeys, enrTouched>>

\* The peers the interface has once it is brought up from the file: an address
\* that two blocks claim goes to the later one.
PeersOfFile ==
  {[key |-> b.key, address |-> b.address] :
     b \in {b \in enrFile : \A c \in enrFile : c.key > b.key => c.address # b.address}}

\* The host goes down, in the middle of a transaction or not, and comes up.
Reboot ==
  /\ enrKernel' = PeersOfFile
  /\ enrTx' = NoEnrTx
  /\ UNCHANGED <<enrInvites, enrDevices, enrFile, enrKeys, enrTouched>>

EnrNext ==
  \/ \E i \in Invites :
       \/ CreateInvite(i) \/ RevokeInvite(i) \/ InviteExpires(i)
       \/ \E wgShow \in BOOLEAN : BeginEnroll(i, wgShow)
  \/ AppendBlock \/ SetPeer \/ CommitEnroll
  \/ \E d \in DOMAIN enrDevices : BeginRevoke(d) \/ RenameDevice(d)
  \/ RemoveBlock \/ RemovePeer \/ CommitRevoke
  \/ RollBack
  \/ Reboot

EnrSpec == EnrInit /\ [][EnrNext]_enrVars
----------------------------------------------------------------------------
\* The rows, blocks and peers are of their kinds.
EnrTypeOK ==
  /\ enrInvites \in [Invites -> InviteRows]
  /\ enrDevices \in Seq(Ledger!DeviceRows)
  /\ enrFile \subseteq Blocks
  /\ enrKernel \subseteq Peers
  /\ enrKeys \in 0..MaxKeys
  /\ enrTouched \subseteq DOMAIN enrDevices

\* A device whose revocation is committed is cut off: its key is in no block of
\* the file and no peer of the interface, and neither a crash elsewhere nor a
\* reboot brings it back.
RevokedIsCutOff ==
  \A d \in DOMAIN enrDevices : enrDevices[d].revoked =>
    /\ \A b \in enrFile : b.key # enrDevices[d].key
    /\ \A p \in enrKernel : p.key # enrDevices[d].key

\* An enrolled device that nobody has tried to revoke keeps its tunnel: what
\* rolled back enrollments leave in the file and the kernel, addresses handed
\* out while "wg show" fails, revocations of others and reboots do not take it.
EnrolledIsServed ==
  \A d \in Unrevoked \ enrTouched :
    [key |-> enrDevices[d].key, address |-> enrDevices[d].address] \in enrKernel

\* An invite's use count is the number of devices enrolled with it, and never
\* exceeds max_uses, whichever enrollments were rolled back.
InviteUsesAreDevices ==
  \A i \in Invites :
    /\ enrInvites[i].uses <= MaxUses
    /\ enrInvites[i].uses =
         Cardinality({d \in DOMAIN enrDevices : enrDevices[d].invite = i})

\* The database rolls back and the WireGuard file and interface do not: still a
\* device whose row is revoked has no tunnel, one that nobody tried to revoke has
\* its own, and the uses of an invite are its committed devices.
PeersFollowDevices ==
  EnrTypeOK /\ RevokedIsCutOff /\ EnrolledIsServed /\ InviteUsesAreDevices

\* The devices table keeps DeviceLedger's promise to its readers.
ImplementsLedger == Ledger!LedgerSpec

\* A redeemable invite can be redeemed while the client network has an address
\* that no device holds: "revoked and re-enrolled for the new owner".
ReenrollmentPossible ==
  \A i \in Invites, a \in Allocations(TRUE) :
    enrTx = NoEnrTx /\ Redeemable(i) => Insertable(a)
=============================================================================
