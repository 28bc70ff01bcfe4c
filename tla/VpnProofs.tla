----------------------------- MODULE VpnProofs -----------------------------
(***************************************************************************)
(* Proofs about the two VPN stores: the enrollment service's table, file   *)
(* and interface (VpnEnrollment), which implement the ledger their readers *)
(* are promised (DeviceLedger), and the registration store                 *)
(* (VpnRegistration).                                                      *)
(***************************************************************************)
EXTENDS VpnEnrollment, VpnRegistration, FiniteSetTheorems, SequenceTheorems, TLAPS

\* The ids of the committed rows.
Ids == 1..Len(enrDevices)

\* The block and the peer that belong to the row of device d.
BlockOf(d) ==
  [device |-> d, key |-> enrDevices[d].key, address |-> enrDevices[d].address]
PeerOf(d) == [key |-> enrDevices[d].key, address |-> enrDevices[d].address]

\* The transactions of enroll_device() and of revoke_device().
Stages == {"file", "kernel", "commit"}
EnrollTxs == [op : {"enroll"}, at : Stages, invite : Invites, device : Nat,
              key : Nat, address : EnrAddresses]
RevokeTxs == [op : {"revoke"}, at : Stages, device : Nat]

\* The open transaction enrolls: the row it will commit has an id, a key and an
\* address no row has, and what it has done outside the database is there.
Enrolling ==
  /\ enrTx \in EnrollTxs
  /\ enrInvites[enrTx.invite].uses < MaxUses
  /\ enrTx.device = Len(enrDevices) + 1 /\ Len(enrDevices) < enrKeys
  /\ enrTx.key = enrKeys
  /\ \A d \in Ids : enrDevices[d].key < enrKeys /\ enrDevices[d].address # enrTx.address
  /\ \A b \in enrFile : b.key = enrKeys =>
       b.device = enrTx.device /\ b.address = enrTx.address
  /\ enrTx.at # "file" =>
       [device |-> enrTx.device, key |-> enrTx.key, address |-> enrTx.address]
         \in enrFile
  /\ enrTx.at = "commit" =>
       [key |-> enrTx.key, address |-> enrTx.address] \in enrKernel

\* The open transaction revokes: the row still counts, and what belongs to it
\* outside the database is gone as far as the transaction has come.
Revoking ==
  /\ enrTx \in RevokeTxs
  /\ enrTx.device \in Ids /\ enrTx.device \in enrTouched
  /\ ~enrDevices[enrTx.device].revoked
  /\ enrTx.at # "file" => \A b \in enrFile : b.key # enrDevices[enrTx.device].key
  /\ enrTx.at = "commit" => \A p \in enrKernel : p.key # enrDevices[enrTx.device].key

TxIsSound == enrTx # NoEnrTx => Enrolling \/ Revoking

\* Keys are used once: no two rows share one, and a block under the key of a row
\* is the block of that row.
KeysAreUsedOnce ==
  /\ Len(enrDevices) <= enrKeys
  /\ \A d \in Ids : enrDevices[d].key <= enrKeys
  /\ \A d, e \in Ids : d # e =>
       enrDevices[d].key # enrDevices[e].key /\ enrDevices[d].address # enrDevices[e].address
  /\ \A b \in enrFile : b.key <= enrKeys
  /\ \A p \in enrKernel : p.key <= enrKeys
  /\ \A b \in enrFile, d \in Ids : b.key = enrDevices[d].key =>
       b.device = d /\ b.address = enrDevices[d].address

\* A device nobody has tried to revoke is served, and will be after a reboot:
\* its block is in the file and no later block claims its address.
ServedForGood ==
  \A d \in Ids : ~enrDevices[d].revoked /\ d \notin enrTouched =>
    /\ BlockOf(d) \in enrFile
    /\ \A b \in enrFile : b.key > enrDevices[d].key => b.address # enrDevices[d].address
    /\ PeerOf(d) \in enrKernel

EInv ==
  /\ EnrTypeOK
  /\ KeysAreUsedOnce
  /\ TxIsSound
  /\ ServedForGood
  /\ RevokedIsCutOff
  /\ InviteUsesAreDevices
----------------------------------------------------------------------------
\* What the type invariant says of the table: its ids and its columns.
LEMMA RowsTyped ==
  ASSUME EnrTypeOK
  PROVE  /\ Len(enrDevices) \in Nat /\ DOMAIN enrDevices = Ids
         /\ enrDevices \in [Ids -> Ledger!DeviceRows]
         /\ \A d \in Ids :
              /\ enrDevices[d] \in Ledger!DeviceRows
              /\ enrDevices[d].invite \in Invites
              /\ enrDevices[d].key \in 1..MaxKeys
              /\ enrDevices[d].address \in EnrAddresses
              /\ enrDevices[d].revoked \in BOOLEAN
<1>1. /\ Len(enrDevices) \in Nat /\ DOMAIN enrDevices = Ids
      /\ enrDevices \in [Ids -> Ledger!DeviceRows]
  BY LenProperties DEF EnrTypeOK, Ids
<1>2. \A d \in Ids : enrDevices[d] \in Ledger!DeviceRows
  BY <1>1
<1>3. QED
  BY <1>1, <1>2 DEF Ledger!DeviceRows, Ledger!AllAddresses, EnrAddresses

\* And of the blocks, the peers and the counters.
LEMMA OutsideTyped ==
  ASSUME EnrTypeOK
  PROVE  /\ \A b \in enrFile : /\ b \in Blocks /\ b.device \in 1..MaxKeys
                               /\ b.key \in 1..MaxKeys /\ b.address \in EnrAddresses
         /\ \A p \in enrKernel : /\ p \in Peers /\ p.key \in 1..MaxKeys
                                 /\ p.address \in EnrAddresses
         /\ enrKeys \in Nat /\ enrKeys <= MaxKeys
         /\ MaxKeys \in Nat /\ MaxUses \in Nat /\ LastAddress \in Nat
         /\ \A i \in Invites : enrInvites[i] \in InviteRows /\ enrInvites[i].uses \in Nat
BY EnrBounds DEF EnrTypeOK, Blocks, Peers, InviteRows

\* An empty table satisfies the invariant.
LEMMA InitEInv == EnrInit => EInv
<1> SUFFICES ASSUME EnrInit PROVE EInv
  OBVIOUS
<1>1. Len(enrDevices) = 0 /\ Ids = {} /\ DOMAIN enrDevices = {} /\ enrDevices \in Seq(Ledger!DeviceRows)
  BY EmptySeq DEF EnrInit, Ids
<1>2. EnrTypeOK
  BY <1>1, EnrBounds DEF EnrInit, EnrTypeOK, InviteRows
<1>3. InviteUsesAreDevices
  <2>1. \A i \in Invites : {d \in DOMAIN enrDevices : enrDevices[d].invite = i} = {}
    BY <1>1
  <2>2. QED
    BY <2>1, FS_EmptySet, EnrBounds DEF EnrInit, InviteUsesAreDevices
<1>4. QED
  BY <1>1, <1>2, <1>3
     DEF EInv, EnrInit, KeysAreUsedOnce, TxIsSound, ServedForGood, RevokedIsCutOff

\* The steps that write invites alone.
LEMMA InviteSteps ==
  ASSUME EInv, NEW i \in Invites, CreateInvite(i) \/ RevokeInvite(i) \/ InviteExpires(i)
  PROVE  EInv'
<1>1. /\ enrInvites' \in [Invites -> InviteRows]
      /\ \A j \in Invites : enrInvites'[j].uses = enrInvites[j].uses
  <2>1. enrInvites \in [Invites -> InviteRows]
    BY DEF EInv, EnrTypeOK
  <2>2. PICK st \in {"open", "revoked", "expired"} :
          enrInvites' = [enrInvites EXCEPT ![i].state = st]
    BY DEF CreateInvite, RevokeInvite, InviteExpires
  <2>3. [enrInvites[i] EXCEPT !.state = st] \in InviteRows
    BY <2>1, <2>2 DEF InviteRows
  <2>4. \A j \in Invites :
          enrInvites'[j] = IF j = i THEN [enrInvites[i] EXCEPT !.state = st] ELSE enrInvites[j]
    BY <2>1, <2>2
  <2>5. QED
    BY <2>1, <2>2, <2>3, <2>4 DEF InviteRows
<1>2. UNCHANGED <<enrDevices, enrFile, enrKernel, enrTx, enrKeys, enrTouched>>
  BY DEF CreateInvite, RevokeInvite, InviteExpires
<1>3. EnrTypeOK' /\ InviteUsesAreDevices'
  BY <1>1, <1>2 DEF EInv, EnrTypeOK, InviteUsesAreDevices
<1>4. TxIsSound'
  BY <1>1, <1>2 DEF EInv, TxIsSound, Enrolling, Revoking, EnrollTxs, Ids
<1>5. QED
  BY <1>2, <1>3, <1>4
     DEF EInv, KeysAreUsedOnce, ServedForGood, RevokedIsCutOff, BlockOf, PeerOf, Ids

\* A transaction rolled back leaves the rows as they were; what it left in the file
\* and the kernel is covered by the other parts of the invariant.
LEMMA RollBackStep ==
  ASSUME EInv, RollBack
  PROVE  EInv'
BY DEF EInv, RollBack, EnrTypeOK, KeysAreUsedOnce, TxIsSound, ServedForGood,
       RevokedIsCutOff, InviteUsesAreDevices, BlockOf, PeerOf, Ids

\* What only opens, advances or ends a transaction leaves the rows alone.
LEMMA UsesKept ==
  ASSUME InviteUsesAreDevices, UNCHANGED <<enrInvites, enrDevices>>
  PROVE  InviteUsesAreDevices'
BY DEF InviteUsesAreDevices

\* A reboot loses the kernel's peers and takes them from the file again.
LEMMA RebootStep ==
  ASSUME EInv, Reboot
  PROVE  EInv'
<1> USE DEF EInv
<1>u. UNCHANGED <<enrInvites, enrDevices, enrFile, enrKeys, enrTouched>> /\ enrTx' = NoEnrTx
  BY DEF Reboot
<1>1. \A p \in enrKernel' : \E b \in enrFile : p.key = b.key /\ p = [key |-> b.key, address |-> b.address]
  BY DEF Reboot, PeersOfFile
<1>2. EnrTypeOK'
  <2>1. enrKernel' \subseteq Peers
    BY <1>1, OutsideTyped DEF Peers
  <2>2. QED
    BY <1>u, <2>1 DEF EnrTypeOK
<1>3. KeysAreUsedOnce'
  BY <1>u, <1>1 DEF KeysAreUsedOnce, Ids
<1>4. RevokedIsCutOff'
  BY <1>u, <1>1 DEF RevokedIsCutOff
<1>5. ServedForGood'
  <2> SUFFICES ASSUME NEW d \in Ids, ~enrDevices[d].revoked, d \notin enrTouched
               PROVE  PeerOf(d) \in enrKernel'
    BY <1>u DEF ServedForGood, Ids, PeerOf, BlockOf
  <2>1. /\ BlockOf(d) \in enrFile
        /\ \A b \in enrFile : b.key > enrDevices[d].key => b.address # enrDevices[d].address
    BY DEF ServedForGood
  <2>2. BlockOf(d).key = enrDevices[d].key /\ BlockOf(d).address = enrDevices[d].address
    BY DEF BlockOf
  <2>3. QED
    BY <2>1, <2>2 DEF Reboot, PeersOfFile, PeerOf
<1>6. QED
  BY <1>u, <1>2, <1>3, <1>4, <1>5, UsesKept DEF TxIsSound
----------------------------------------------------------------------------
\* enroll_device() opens its transaction: the key is new, the address is in no row.
LEMMA BeginEnrollStep ==
  ASSUME EInv, NEW i \in Invites, NEW wgShow \in BOOLEAN, BeginEnroll(i, wgShow)
  PROVE  EInv'
<1> USE DEF EInv
<1>u. /\ UNCHANGED <<enrInvites, enrDevices, enrFile, enrKernel, enrTouched>>
      /\ enrKeys' = enrKeys + 1 /\ enrKeys < MaxKeys
  BY DEF BeginEnroll
<1>1. PICK a \in Allocations(wgShow) :
        /\ Insertable(a)
        /\ enrTx' = [op |-> "enroll", at |-> "file", invite |-> i,
                     device |-> Len(enrDevices) + 1, key |-> enrKeys + 1, address |-> a]
  BY DEF BeginEnroll
<1>2. enrTx' \in EnrollTxs
  BY <1>1, RowsTyped, OutsideTyped DEF Allocations, EnrollTxs, Stages
<1>3. EnrTypeOK'
  BY <1>u, RowsTyped, OutsideTyped DEF EnrTypeOK
<1>4. KeysAreUsedOnce'
  BY <1>u, RowsTyped, OutsideTyped DEF KeysAreUsedOnce, Ids
<1>5. Enrolling'
  <2>1. enrInvites'[i].uses < MaxUses
    BY <1>u DEF BeginEnroll, Redeemable
  <2>2. \A d \in Ids : enrDevices[d].key < enrKeys' /\ enrDevices[d].address # a
    BY <1>u, <1>1, RowsTyped, OutsideTyped DEF KeysAreUsedOnce, Insertable
  <2>3. \A b \in enrFile : b.key # enrKeys'
    BY <1>u, OutsideTyped DEF KeysAreUsedOnce
  <2>4. QED
    BY <1>u, <1>1, <1>2, <2>1, <2>2, <2>3, RowsTyped, OutsideTyped
       DEF Enrolling, KeysAreUsedOnce, Ids
<1>6. QED
  BY <1>u, <1>3, <1>4, <1>5, UsesKept
     DEF TxIsSound, ServedForGood, RevokedIsCutOff, BlockOf, PeerOf, Ids

\* revoke_device() opens its transaction.
LEMMA BeginRevokeStep ==
  ASSUME EInv, NEW d \in DOMAIN enrDevices, BeginRevoke(d)
  PROVE  EInv'
<1> USE DEF EInv
<1>u. /\ UNCHANGED <<enrInvites, enrDevices, enrFile, enrKernel, enrKeys>>
      /\ enrTouched' = enrTouched \cup {d}
      /\ enrTx' = [op |-> "revoke", at |-> "file", device |-> d]
  BY DEF BeginRevoke
<1>1. d \in Ids /\ ~enrDevices[d].revoked
  BY RowsTyped DEF BeginRevoke, Unrevoked
<1>2. Revoking'
  BY <1>u, <1>1, RowsTyped DEF Revoking, RevokeTxs, Stages, Ids
<1>3. EnrTypeOK'
  BY <1>u DEF EnrTypeOK
<1>4. QED
  BY <1>u, <1>2, <1>3, UsesKept
     DEF TxIsSound, KeysAreUsedOnce, ServedForGood, RevokedIsCutOff, BlockOf, PeerOf, Ids
----------------------------------------------------------------------------
\* Which transaction is open can be read off its op.
LEMMA TxKinds ==
  ASSUME EInv, enrTx # NoEnrTx
  PROVE  /\ enrTx.op = "enroll" => Enrolling
         /\ enrTx.op = "revoke" => Revoking
BY DEF EInv, TxIsSound, Enrolling, Revoking, EnrollTxs, RevokeTxs

\* append_peer() writes the block: it comes after every block with its address.
LEMMA AppendBlockStep ==
  ASSUME EInv, AppendBlock
  PROVE  EInv'
<1> DEFINE block == [device |-> enrTx.device, key |-> enrTx.key, address |-> enrTx.address]
<1> USE DEF EInv
<1>u. /\ UNCHANGED <<enrInvites, enrDevices, enrKernel, enrKeys, enrTouched>>
      /\ enrFile' = enrFile \cup {block}
      /\ enrTx' = [enrTx EXCEPT !.at = "kernel"]
  BY DEF AppendBlock
<1>1. Enrolling
  BY TxKinds DEF AppendBlock
<1>2. /\ enrTx' \in EnrollTxs /\ enrTx'.at = "kernel"
      /\ enrTx'.invite = enrTx.invite /\ enrTx'.device = enrTx.device
      /\ enrTx'.key = enrTx.key /\ enrTx'.address = enrTx.address
  BY <1>u, <1>1 DEF Enrolling, EnrollTxs, Stages
<1>3. /\ block \in Blocks /\ block.key = enrKeys /\ block.device = enrTx.device
      /\ block.address = enrTx.address
  BY <1>1, RowsTyped, OutsideTyped DEF Enrolling, EnrollTxs, Blocks
<1> HIDE DEF block
<1>4. EnrTypeOK'
  BY <1>u, <1>3 DEF EnrTypeOK
<1>5. Enrolling'
  <2>1. [device |-> enrTx'.device, key |-> enrTx'.key, address |-> enrTx'.address] \in enrFile'
    BY <1>u, <1>2 DEF block
  <2>2. QED
    BY <1>u, <1>1, <1>2, <1>3, <2>1 DEF Enrolling, Ids
<1>6. KeysAreUsedOnce'
  BY <1>u, <1>1, <1>3, RowsTyped, OutsideTyped DEF KeysAreUsedOnce, Enrolling, Ids
<1>7. ServedForGood'
  BY <1>u, <1>1, <1>3 DEF ServedForGood, Enrolling, BlockOf, PeerOf, Ids
<1>8. RevokedIsCutOff'
  BY <1>u, <1>1, <1>3, RowsTyped, OutsideTyped DEF RevokedIsCutOff, Enrolling
<1>9. QED
  BY <1>u, <1>4, <1>5, <1>6, <1>7, <1>8, UsesKept DEF TxIsSound

\* "wg set" takes the address from peers that are no row's.
LEMMA SetPeerStep ==
  ASSUME EInv, SetPeer
  PROVE  EInv'
<1> DEFINE peer == [key |-> enrTx.key, address |-> enrTx.address]
<1> USE DEF EInv
<1>u. /\ UNCHANGED <<enrInvites, enrDevices, enrFile, enrKeys, enrTouched>>
      /\ enrKernel' = {p \in enrKernel : p.address # enrTx.address} \cup {peer}
      /\ enrTx' = [enrTx EXCEPT !.at = "commit"]
      /\ enrTx.at = "kernel"
  BY DEF SetPeer
<1>1. Enrolling
  BY TxKinds DEF SetPeer
<1>2. /\ enrTx' \in EnrollTxs /\ enrTx'.at = "commit"
      /\ enrTx'.invite = enrTx.invite /\ enrTx'.device = enrTx.device
      /\ enrTx'.key = enrTx.key /\ enrTx'.address = enrTx.address
  BY <1>u, <1>1 DEF Enrolling, EnrollTxs, Stages
<1>3. peer \in Peers /\ peer.key = enrKeys
  BY <1>1, RowsTyped, OutsideTyped DEF Enrolling, EnrollTxs, Peers
<1> HIDE DEF peer
<1>4. EnrTypeOK'
  BY <1>u, <1>3 DEF EnrTypeOK
<1>5. Enrolling'
  <2>1. [key |-> enrTx'.key, address |-> enrTx'.address] \in enrKernel'
    BY <1>u, <1>2 DEF peer
  <2>2. [device |-> enrTx'.device, key |-> enrTx'.key, address |-> enrTx'.address] \in enrFile'
    BY <1>u, <1>1, <1>2 DEF Enrolling
  <2>3. QED
    BY <1>u, <1>1, <1>2, <2>1, <2>2 DEF Enrolling, Ids
<1>6. KeysAreUsedOnce'
  BY <1>u, <1>3, RowsTyped, OutsideTyped DEF KeysAreUsedOnce, Ids
<1>7. ServedForGood'
  <2>1. \A d \in Ids : PeerOf(d) \in enrKernel => PeerOf(d) \in enrKernel'
    <3>1. \A d \in Ids : PeerOf(d).address # enrTx.address
      BY <1>1 DEF Enrolling, PeerOf
    <3>2. QED
      BY <1>u, <3>1
  <2>2. QED
    BY <1>u, <2>1 DEF ServedForGood, BlockOf, PeerOf, Ids
<1>8. RevokedIsCutOff'
  BY <1>u, <1>1, <1>3, RowsTyped, OutsideTyped DEF RevokedIsCutOff, Enrolling
<1>9. QED
  BY <1>u, <1>4, <1>5, <1>6, <1>7, <1>8, UsesKept DEF TxIsSound

\* remove_peer_from_config() drops blocks of the device being revoked alone.
LEMMA RemoveBlockStep ==
  ASSUME EInv, RemoveBlock
  PROVE  EInv'
<1> USE DEF EInv
<1>u. /\ UNCHANGED <<enrInvites, enrDevices, enrKernel, enrKeys, enrTouched>>
      /\ enrFile' = {b \in enrFile : b.device # enrTx.device}
      /\ enrTx' = [enrTx EXCEPT !.at = "kernel"]
  BY DEF RemoveBlock, Kept
<1>1. Revoking
  BY TxKinds DEF RemoveBlock
<1>2. enrTx' \in RevokeTxs /\ enrTx'.at = "kernel" /\ enrTx'.device = enrTx.device
  BY <1>u, <1>1 DEF Revoking, RevokeTxs, Stages
<1>3. Revoking'
  BY <1>u, <1>1, <1>2 DEF Revoking, KeysAreUsedOnce, Ids
<1>4. EnrTypeOK' /\ KeysAreUsedOnce' /\ RevokedIsCutOff'
  BY <1>u DEF EnrTypeOK, KeysAreUsedOnce, RevokedIsCutOff, Ids
<1>5. ServedForGood'
  <2> SUFFICES ASSUME NEW d \in Ids, BlockOf(d) \in enrFile, d \notin enrTouched
               PROVE  BlockOf(d) \in enrFile'
    BY <1>u DEF ServedForGood, BlockOf, PeerOf, Ids
  <2>1. BlockOf(d).device = d /\ d # enrTx.device
    BY <1>1 DEF BlockOf, Revoking
  <2>2. QED
    BY <1>u, <2>1
<1>6. QED
  BY <1>u, <1>3, <1>4, <1>5, UsesKept DEF TxIsSound

\* The peer removed from the interface is that of the device being revoked.
LEMMA RemovePeerStep ==
  ASSUME EInv, RemovePeer
  PROVE  EInv'
<1> USE DEF EInv
<1>u. /\ UNCHANGED <<enrInvites, enrDevices, enrFile, enrKeys, enrTouched>>
      /\ enrKernel' = {p \in enrKernel : p.key # enrDevices[enrTx.device].key}
      /\ enrTx' = [enrTx EXCEPT !.at = "commit"]
      /\ enrTx.at = "kernel"
  BY DEF RemovePeer
<1>1. Revoking
  BY TxKinds DEF RemovePeer
<1>2. enrTx' \in RevokeTxs /\ enrTx'.at = "commit" /\ enrTx'.device = enrTx.device
  BY <1>u, <1>1 DEF Revoking, RevokeTxs, Stages
<1>3. Revoking'
  BY <1>u, <1>1, <1>2 DEF Revoking, Ids
<1>4. EnrTypeOK' /\ KeysAreUsedOnce' /\ RevokedIsCutOff'
  BY <1>u DEF EnrTypeOK, KeysAreUsedOnce, RevokedIsCutOff, Ids
<1>5. ServedForGood'
  <2> SUFFICES ASSUME NEW d \in Ids, PeerOf(d) \in enrKernel, d \notin enrTouched
               PROVE  PeerOf(d) \in enrKernel'
    BY <1>u DEF ServedForGood, BlockOf, PeerOf, Ids
  <2>1. PeerOf(d).key = enrDevices[d].key /\ d # enrTx.device
    BY <1>1 DEF PeerOf, Revoking
  <2>2. QED
    BY <1>u, <1>1, <2>1 DEF KeysAreUsedOnce, Revoking
<1>6. QED
  BY <1>u, <1>3, <1>4, <1>5, UsesKept DEF TxIsSound
----------------------------------------------------------------------------
\* A row is written in place: the table keeps its ids and every other row.
LEMMA RowWritten ==
  ASSUME EnrTypeOK, NEW d \in Ids, NEW row \in Ledger!DeviceRows,
         enrDevices' = [enrDevices EXCEPT ![d] = row]
  PROVE  /\ enrDevices' \in Seq(Ledger!DeviceRows)
         /\ Len(enrDevices') = Len(enrDevices) /\ DOMAIN enrDevices' = Ids
         /\ enrDevices'[d] = row
         /\ \A e \in Ids : e # d => enrDevices'[e] = enrDevices[e]
<1>1. /\ enrDevices' \in Seq(Ledger!DeviceRows)
      /\ Len(enrDevices') = Len(enrDevices)
      /\ \A e \in Ids : enrDevices'[e] = IF e = d THEN row ELSE enrDevices[e]
  BY ExceptSeq DEF EnrTypeOK, Ids
<1>2. DOMAIN enrDevices' = Ids
  BY <1>1, LenProperties DEF Ids
<1>3. QED
  BY <1>1, <1>2

\* A row written in place that keeps its invite, key and address changes nothing
\* but who is revoked.
LEMMA ColumnsKept ==
  ASSUME EInv, NEW d \in Ids, NEW row \in Ledger!DeviceRows,
         enrDevices' = [enrDevices EXCEPT ![d] = row],
         row.invite = enrDevices[d].invite, row.key = enrDevices[d].key,
         row.address = enrDevices[d].address,
         UNCHANGED <<enrInvites, enrFile, enrKernel, enrKeys, enrTouched>>
  PROVE  /\ EnrTypeOK' /\ KeysAreUsedOnce' /\ InviteUsesAreDevices'
         /\ Ids' = Ids /\ DOMAIN enrDevices' = Ids
         /\ enrDevices'[d].revoked = row.revoked
         /\ \A e \in Ids : /\ BlockOf(e)' = BlockOf(e) /\ PeerOf(e)' = PeerOf(e)
                           /\ enrDevices'[e].key = enrDevices[e].key
                           /\ enrDevices'[e].address = enrDevices[e].address
                           /\ e # d => enrDevices'[e] = enrDevices[e]
<1> USE DEF EInv
<1>1. /\ enrDevices' \in Seq(Ledger!DeviceRows)
      /\ Len(enrDevices') = Len(enrDevices) /\ DOMAIN enrDevices' = Ids
      /\ enrDevices'[d] = row
      /\ \A e \in Ids : e # d => enrDevices'[e] = enrDevices[e]
  BY RowWritten
<1>2. \A e \in Ids : /\ enrDevices'[e].invite = enrDevices[e].invite
                     /\ enrDevices'[e].key = enrDevices[e].key
                     /\ enrDevices'[e].address = enrDevices[e].address
  BY <1>1
<1>3. Ids' = Ids
  BY <1>1 DEF Ids
<1>4. EnrTypeOK'
  BY <1>1, <1>3, RowsTyped DEF EnrTypeOK
<1>5. KeysAreUsedOnce'
  BY <1>1, <1>2, <1>3 DEF KeysAreUsedOnce
<1>6. InviteUsesAreDevices'
  <2>1. \A i \in Invites : {e \in DOMAIN enrDevices' : enrDevices'[e].invite = i}
                           = {e \in DOMAIN enrDevices : enrDevices[e].invite = i}
    BY <1>1, <1>2, RowsTyped
  <2>2. QED
    BY <2>1 DEF InviteUsesAreDevices
<1>7. QED
  BY <1>1, <1>2, <1>3, <1>4, <1>5, <1>6 DEF BlockOf, PeerOf

\* A device is renamed.
LEMMA RenameStep ==
  ASSUME EInv, NEW d \in DOMAIN enrDevices, RenameDevice(d)
  PROVE  EInv'
<1> DEFINE row == [enrDevices[d] EXCEPT !.label = "renamed"]
<1> USE DEF EInv
<1>u. /\ UNCHANGED <<enrInvites, enrFile, enrKernel, enrTx, enrKeys, enrTouched>>
      /\ enrTx = NoEnrTx
      /\ enrDevices' = [enrDevices EXCEPT ![d] = row]
  BY DEF RenameDevice
<1>1. d \in Ids
  BY RowsTyped
<1>2. /\ row \in Ledger!DeviceRows /\ row.invite = enrDevices[d].invite
      /\ row.key = enrDevices[d].key /\ row.address = enrDevices[d].address
      /\ row.revoked = enrDevices[d].revoked
  <2>1. enrDevices[d] \in Ledger!DeviceRows
    BY <1>1, RowsTyped
  <2>2. QED
    BY <2>1 DEF Ledger!DeviceRows
<1> HIDE DEF row
<1>3. /\ EnrTypeOK' /\ KeysAreUsedOnce' /\ InviteUsesAreDevices'
      /\ Ids' = Ids /\ DOMAIN enrDevices' = Ids
      /\ enrDevices'[d].revoked = row.revoked
      /\ \A e \in Ids : /\ BlockOf(e)' = BlockOf(e) /\ PeerOf(e)' = PeerOf(e)
                        /\ enrDevices'[e].key = enrDevices[e].key
                        /\ enrDevices'[e].address = enrDevices[e].address
                        /\ e # d => enrDevices'[e] = enrDevices[e]
  BY <1>u, <1>1, <1>2, ColumnsKept
<1>4. \A e \in Ids : enrDevices'[e].revoked = enrDevices[e].revoked
  BY <1>2, <1>3
<1>5. ServedForGood' /\ RevokedIsCutOff'
  <2>1. ServedForGood'
    BY <1>u, <1>3, <1>4 DEF ServedForGood
  <2>2. RevokedIsCutOff'
    BY <1>u, <1>3, <1>4, RowsTyped DEF RevokedIsCutOff
  <2>3. QED
    BY <2>1, <2>2
<1>6. QED
  BY <1>u, <1>3, <1>5 DEF TxIsSound

\* A revocation is committed once block and peer are gone.
LEMMA CommitRevokeStep ==
  ASSUME EInv, CommitRevoke
  PROVE  EInv'
<1> DEFINE d == enrTx.device
<1> DEFINE row == [enrDevices[d] EXCEPT !.revoked = TRUE]
<1> USE DEF EInv
<1>u. /\ UNCHANGED <<enrInvites, enrFile, enrKernel, enrKeys, enrTouched>>
      /\ enrTx' = NoEnrTx /\ enrTx.at = "commit"
      /\ enrDevices' = [enrDevices EXCEPT ![d] = row]
  BY DEF CommitRevoke
<1>1. Revoking /\ d \in Ids
  <2>1. Revoking
    BY TxKinds DEF CommitRevoke
  <2>2. QED
    BY <2>1 DEF Revoking
<1>2. /\ row \in Ledger!DeviceRows /\ row.invite = enrDevices[d].invite
      /\ row.key = enrDevices[d].key /\ row.address = enrDevices[d].address
      /\ row.revoked = TRUE
  <2>1. enrDevices[d] \in Ledger!DeviceRows
    BY <1>1, RowsTyped
  <2>2. QED
    BY <2>1 DEF Ledger!DeviceRows
<1>7. /\ \A b \in enrFile : b.key # enrDevices[d].key
      /\ \A p \in enrKernel : p.key # enrDevices[d].key
  BY <1>u, <1>1 DEF Revoking
<1> HIDE DEF row, d
<1>3. /\ EnrTypeOK' /\ KeysAreUsedOnce' /\ InviteUsesAreDevices'
      /\ Ids' = Ids /\ DOMAIN enrDevices' = Ids
      /\ enrDevices'[d].revoked = row.revoked
      /\ \A e \in Ids : /\ BlockOf(e)' = BlockOf(e) /\ PeerOf(e)' = PeerOf(e)
                        /\ enrDevices'[e].key = enrDevices[e].key
                        /\ enrDevices'[e].address = enrDevices[e].address
                        /\ e # d => enrDevices'[e] = enrDevices[e]
  BY <1>u, <1>1, <1>2, ColumnsKept
<1>4. ServedForGood'
  BY <1>u, <1>2, <1>3 DEF ServedForGood
<1>5. RevokedIsCutOff'
  BY <1>u, <1>3, <1>7, RowsTyped DEF RevokedIsCutOff
<1>6. QED
  BY <1>u, <1>3, <1>4, <1>5 DEF TxIsSound
----------------------------------------------------------------------------
\* A row is appended: it takes the next id, and the others keep theirs.
LEMMA RowAppended ==
  ASSUME EnrTypeOK, NEW row \in Ledger!DeviceRows,
         enrDevices' = Append(enrDevices, row)
  PROVE  /\ enrDevices' \in Seq(Ledger!DeviceRows)
         /\ Len(enrDevices') = Len(enrDevices) + 1
         /\ Ids' = Ids \cup {Len(enrDevices) + 1} /\ DOMAIN enrDevices' = Ids'
         /\ enrDevices'[Len(enrDevices) + 1] = row
         /\ \A e \in Ids : enrDevices'[e] = enrDevices[e]
<1>1. /\ enrDevices' \in Seq(Ledger!DeviceRows)
      /\ Len(enrDevices') = Len(enrDevices) + 1
      /\ enrDevices'[Len(enrDevices) + 1] = row
      /\ \A e \in Ids : enrDevices'[e] = enrDevices[e]
  BY AppendProperties DEF EnrTypeOK, Ids
<1>2. Len(enrDevices) \in Nat
  BY RowsTyped
<1>3. Ids' = Ids \cup {Len(enrDevices) + 1}
  BY <1>1, <1>2 DEF Ids
<1>4. DOMAIN enrDevices' = Ids'
  BY <1>1, LenProperties DEF Ids
<1>5. QED
  BY <1>1, <1>3, <1>4

\* An enrollment is committed once block and peer are there.
LEMMA CommitEnrollStep ==
  ASSUME EInv, CommitEnroll
  PROVE  EInv'
<1> DEFINE row == [invite |-> enrTx.invite, key |-> enrTx.key, address |-> enrTx.address,
                   label |-> "given", revoked |-> FALSE]
<1> USE DEF EInv
<1>u. /\ UNCHANGED <<enrFile, enrKernel, enrKeys, enrTouched>>
      /\ enrTx' = NoEnrTx /\ enrTx.at = "commit"
      /\ enrDevices' = Append(enrDevices, row)
      /\ enrInvites' = [enrInvites EXCEPT ![enrTx.invite].uses = @ + 1]
  BY DEF CommitEnroll
<1>1. Enrolling /\ enrTx.invite \in Invites /\ enrTx.address \in EnrAddresses
  <2>1. Enrolling
    BY TxKinds DEF CommitEnroll
  <2>2. QED
    BY <2>1 DEF Enrolling, EnrollTxs
<1>2. /\ row \in Ledger!DeviceRows /\ row.invite = enrTx.invite
      /\ row.key = enrKeys /\ row.address = enrTx.address /\ row.revoked = FALSE
  BY <1>1, RowsTyped, OutsideTyped
     DEF Enrolling, Ledger!DeviceRows, Ledger!AllAddresses, EnrAddresses
<1>n. PICK new \in Nat : /\ new = Len(enrDevices) + 1
                         /\ new \notin Ids /\ new \notin enrTouched
  BY RowsTyped DEF EnrTypeOK, Ids
<1>3. /\ [device |-> new, key |-> enrKeys, address |-> enrTx.address] \in enrFile
      /\ [key |-> enrKeys, address |-> enrTx.address] \in enrKernel
  BY <1>u, <1>1, <1>n DEF Enrolling
<1> HIDE DEF row
<1>4. /\ enrDevices' \in Seq(Ledger!DeviceRows)
      /\ Len(enrDevices') = new
      /\ Ids' = Ids \cup {new} /\ DOMAIN enrDevices' = Ids'
      /\ enrDevices'[new] = row
      /\ \A e \in Ids : enrDevices'[e] = enrDevices[e]
  BY <1>u, <1>2, <1>n, RowAppended
<1>5. /\ enrInvites' \in [Invites -> InviteRows]
      /\ enrInvites'[enrTx.invite].uses = enrInvites[enrTx.invite].uses + 1
      /\ \A j \in Invites \ {enrTx.invite} : enrInvites'[j] = enrInvites[j]
  <2>1. PICK inv \in Invites : inv = enrTx.invite
    BY <1>1
  <2>2. PICK r \in InviteRows : r = enrInvites[inv]
    BY OutsideTyped
  <2>3. enrInvites' = [enrInvites EXCEPT ![inv] = [r EXCEPT !.uses = r.uses + 1]]
    BY <1>u, <2>1, <2>2
  <2>4. [r EXCEPT !.uses = r.uses + 1] \in InviteRows /\ [r EXCEPT !.uses = r.uses + 1].uses = r.uses + 1
    BY DEF InviteRows
  <2>5. QED
    BY <2>1, <2>2, <2>3, <2>4 DEF EnrTypeOK
<1>6. EnrTypeOK'
  BY <1>u, <1>4, <1>5, RowsTyped DEF EnrTypeOK
<1>7. KeysAreUsedOnce'
  <2>1. \A d \in Ids : /\ enrDevices[d].key # enrKeys /\ enrDevices[d].key <= enrKeys
                       /\ enrDevices[d].address # enrTx.address
    BY <1>1, RowsTyped, OutsideTyped DEF Enrolling
  <2>2. \A b \in enrFile : b.key = enrKeys => b.device = new /\ b.address = enrTx.address
    BY <1>1, <1>n DEF Enrolling
  <2>3. new <= enrKeys
    BY <1>1, <1>n, RowsTyped, OutsideTyped DEF Enrolling
  <2>4. /\ \A d \in Ids' : enrDevices'[d].key <= enrKeys
        /\ \A d, e \in Ids' : d # e =>
             /\ enrDevices'[d].key # enrDevices'[e].key
             /\ enrDevices'[d].address # enrDevices'[e].address
    BY <1>2, <1>4, <2>1, OutsideTyped DEF KeysAreUsedOnce
  <2>5. \A b \in enrFile, d \in Ids' : b.key = enrDevices'[d].key =>
          b.device = d /\ b.address = enrDevices'[d].address
    BY <1>2, <1>4, <2>2 DEF KeysAreUsedOnce
  <2>6. QED
    BY <1>u, <1>4, <2>3, <2>4, <2>5 DEF KeysAreUsedOnce
<1>8. ServedForGood'
  <2>1. \A d \in Ids : BlockOf(d)' = BlockOf(d) /\ PeerOf(d)' = PeerOf(d)
    BY <1>4 DEF BlockOf, PeerOf
  <2>2. BlockOf(new)' \in enrFile /\ PeerOf(new)' \in enrKernel
    BY <1>2, <1>3, <1>4 DEF BlockOf, PeerOf
  <2>3. \A b \in enrFile : ~(b.key > enrDevices'[new].key)
    BY <1>2, <1>4, OutsideTyped DEF KeysAreUsedOnce
  <2>4. QED
    BY <1>u, <1>4, <2>1, <2>2, <2>3 DEF ServedForGood
<1>9. RevokedIsCutOff'
  BY <1>u, <1>2, <1>4, RowsTyped DEF RevokedIsCutOff
<1>10. InviteUsesAreDevices'
  <2> SUFFICES ASSUME NEW i \in Invites
               PROVE  /\ enrInvites'[i].uses <= MaxUses
                      /\ enrInvites'[i].uses =
                           Cardinality({d \in DOMAIN enrDevices' : enrDevices'[d].invite = i})
    BY DEF InviteUsesAreDevices
  <2> DEFINE mine == {d \in DOMAIN enrDevices : enrDevices[d].invite = i}
  <2>1. /\ enrInvites[i].uses <= MaxUses /\ enrInvites[i].uses = Cardinality(mine)
        /\ enrInvites[i].uses \in Nat
    BY OutsideTyped DEF InviteUsesAreDevices
  <2>2. IsFiniteSet(mine) /\ mine \subseteq Ids
    <3>1. mine \in SUBSET Ids
      BY RowsTyped
    <3>2. IsFiniteSet(Ids)
      BY FS_Interval, RowsTyped DEF Ids
    <3>3. QED
      BY <3>1, <3>2, FS_Subset
  <2>3. CASE i = enrTx.invite
    <3>1. {d \in DOMAIN enrDevices' : enrDevices'[d].invite = i} = mine \cup {new}
      BY <1>2, <1>4, <2>3, RowsTyped
    <3>2. Cardinality(mine \cup {new}) = Cardinality(mine) + 1
      <4> HIDE DEF mine
      <4>1. QED
        BY <1>n, <2>2, FS_AddElement
    <3>3. enrInvites[i].uses < MaxUses
      BY <1>1, <2>3 DEF Enrolling
    <3>4. enrInvites'[i].uses = enrInvites[i].uses + 1
      BY <1>5, <2>3
    <3>5. MaxUses \in Nat
      BY OutsideTyped
    <3> HIDE DEF mine
    <3>6. enrInvites'[i].uses = Cardinality(mine \cup {new})
      BY <2>1, <3>2, <3>4
    <3>7. enrInvites'[i].uses <= MaxUses
      BY <2>1, <3>3, <3>4, <3>5
    <3>8. QED
      BY <3>1, <3>6, <3>7
  <2>4. CASE i # enrTx.invite
    <3>1. {d \in DOMAIN enrDevices' : enrDevices'[d].invite = i} = mine
      BY <1>2, <1>4, <2>4, RowsTyped
    <3>2. QED
      BY <1>5, <2>1, <2>4, <3>1
  <2>5. QED
    BY <2>3, <2>4
<1>11. QED
  BY <1>u, <1>6, <1>7, <1>8, <1>9, <1>10 DEF TxIsSound
----------------------------------------------------------------------------
\* Every step keeps the invariant.
LEMMA EInvStep == EInv /\ [EnrNext]_enrVars => EInv'
<1> SUFFICES ASSUME EInv, [EnrNext]_enrVars PROVE EInv'
  OBVIOUS
<1>1. ASSUME NEW i \in Invites, CreateInvite(i) \/ RevokeInvite(i) \/ InviteExpires(i)
      PROVE  EInv'
  BY <1>1, InviteSteps
<1>2. ASSUME NEW i \in Invites, NEW wgShow \in BOOLEAN, BeginEnroll(i, wgShow)
      PROVE  EInv'
  BY <1>2, BeginEnrollStep
<1>3. ASSUME NEW d \in DOMAIN enrDevices, BeginRevoke(d) \/ RenameDevice(d)
      PROVE  EInv'
  BY <1>3, BeginRevokeStep, RenameStep
<1>4. ASSUME AppendBlock \/ SetPeer \/ CommitEnroll
      PROVE  EInv'
  BY <1>4, AppendBlockStep, SetPeerStep, CommitEnrollStep
<1>5. ASSUME RemoveBlock \/ RemovePeer \/ CommitRevoke \/ RollBack \/ Reboot
      PROVE  EInv'
  BY <1>5, RemoveBlockStep, RemovePeerStep, CommitRevokeStep, RollBackStep, RebootStep
<1>6. ASSUME UNCHANGED enrVars
      PROVE  EInv'
  BY <1>6 DEF enrVars, EInv, EnrTypeOK, KeysAreUsedOnce, TxIsSound, Enrolling, Revoking,
              ServedForGood, RevokedIsCutOff, InviteUsesAreDevices, BlockOf, PeerOf, Ids
<1> HIDE DEF EInv
<1>7. QED
  BY <1>1, <1>2, <1>3, <1>4, <1>5, <1>6 DEF EnrNext

\* The invariant holds in every state.
LEMMA EInvAlways == EnrSpec => []EInv
BY InitEInv, EInvStep, PTL DEF EnrSpec

\* Whichever transactions roll back half done, and whenever the host reboots, the
\* committed rows alone decide who has a tunnel and what an invite is worth:
\* enroll_device() and revoke_device() of core.py, for any number of invites,
\* addresses and keys.
THEOREM TunnelsFollowTheTable == EnrSpec => []PeersFollowDevices
<1>1. EInv => PeersFollowDevices
  <2> SUFFICES ASSUME EInv PROVE PeersFollowDevices
    OBVIOUS
  <2>1. EnrolledIsServed
    BY RowsTyped DEF EInv, EnrolledIsServed, Unrevoked, ServedForGood, PeerOf
  <2>2. QED
    BY <2>1 DEF EInv, PeersFollowDevices
<1>2. QED
  BY <1>1, EInvAlways, PTL

\* Every step of the enrollment service is a step of the ledger its readers are
\* promised, or leaves the ledger alone.
LEMMA LedgerStep ==
  ASSUME EInv, [EnrNext]_enrVars
  PROVE  [Ledger!LedgerNext]_enrDevices
<1> USE DEF EInv
<1>1. ASSUME CommitEnroll
      PROVE  Ledger!LedgerNext
  <2>1. Enrolling
    BY <1>1, TxKinds DEF CommitEnroll
  <2>2. enrTx.invite \in Invites /\ enrTx.address \in Ledger!AllAddresses /\ enrTx.key \in 1..MaxKeys
    BY <2>1, RowsTyped, OutsideTyped
       DEF Enrolling, EnrollTxs, EnrAddresses, Ledger!AllAddresses
  <2>3. \A d \in DOMAIN enrDevices :
          enrDevices[d].key # enrTx.key /\ enrDevices[d].address # enrTx.address
    BY <2>1, RowsTyped, OutsideTyped DEF Enrolling
  <2>4. Ledger!EnrollRow(enrTx.invite, enrTx.key, enrTx.address)
    BY <1>1, <2>3 DEF CommitEnroll, Ledger!EnrollRow
  <2>5. QED
    BY <2>2, <2>4 DEF Ledger!LedgerNext
<1>2. ASSUME CommitRevoke
      PROVE  Ledger!LedgerNext
  <2>1. enrTx.device \in DOMAIN enrDevices /\ ~enrDevices[enrTx.device].revoked
    BY <1>2, TxKinds, RowsTyped DEF CommitRevoke, Revoking
  <2>2. Ledger!RevokeRow(enrTx.device)
    BY <1>2, <2>1 DEF CommitRevoke, Ledger!RevokeRow
  <2>3. QED
    BY <2>1, <2>2 DEF Ledger!LedgerNext
<1>3. ASSUME NEW d \in DOMAIN enrDevices, RenameDevice(d)
      PROVE  Ledger!LedgerNext
  <2>1. Ledger!RenameRow(d)
    BY <1>3 DEF RenameDevice, Unrevoked, Ledger!RenameRow
  <2>2. QED
    BY <2>1 DEF Ledger!LedgerNext
<1>4. ASSUME NEW i \in Invites, NEW wgShow \in BOOLEAN,
             CreateInvite(i) \/ RevokeInvite(i) \/ InviteExpires(i) \/ BeginEnroll(i, wgShow)
      PROVE  UNCHANGED enrDevices
  BY <1>4 DEF CreateInvite, RevokeInvite, InviteExpires, BeginEnroll
<1>5. ASSUME NEW d \in DOMAIN enrDevices, BeginRevoke(d)
      PROVE  UNCHANGED enrDevices
  BY <1>5 DEF BeginRevoke
<1>6. ASSUME \/ AppendBlock \/ SetPeer \/ RemoveBlock \/ RemovePeer \/ RollBack \/ Reboot
             \/ UNCHANGED enrVars
      PROVE  UNCHANGED enrDevices
  BY <1>6 DEF AppendBlock, SetPeer, RemoveBlock, RemovePeer, RollBack, Reboot, enrVars
<1> HIDE DEF EInv
<1>7. QED
  BY <1>1, <1>2, <1>3, <1>4, <1>5, <1>6 DEF EnrNext

\* The devices table keeps the promise DeviceLedger makes to its readers: a row
\* appears complete, with a key and an address no row ever had, and once revoked it
\* stays as it is.
THEOREM EnrollmentImplementsLedger == EnrSpec => ImplementsLedger
<1>1. EnrInit => Ledger!LedgerInit
  BY DEF EnrInit, Ledger!LedgerInit
<1>2. QED
  BY <1>1, LedgerStep, EInvAlways, PTL DEF EnrSpec, ImplementsLedger, Ledger!LedgerSpec
----------------------------------------------------------------------------
\* The tables of the registration store: their schema, and that at most one
\* policy is active, without which creating a policy could leave two.
RInv ==
  /\ RegTypeOK
  /\ regDevices \in [RegKeys -> RegRows \cup {NoRegDevice}]
  /\ regAccepted \in [RegKeys -> PolicyVersions \cup {NoPolicy}]
  /\ regAccepting \in [RegKeys -> PolicyVersions \cup {NoPolicy}]
  /\ \A v, w \in ActivePolicies : v = w

\* A device is known exactly if it has a row.
LEMMA RowKnown ==
  ASSUME RInv, NEW k \in RegKeys
  PROVE  /\ Known(k) <=> regDevices[k] \in RegRows
         /\ Quarantined(k) <=> Known(k) /\ regDevices[k].quarantined # "no"
BY NoRowAssumption DEF RInv, Known, Quarantined

\* The empty store satisfies the invariant.
LEMMA InitRInv == RegInit => RInv
BY DEF RegInit, RInv, RegTypeOK, Known, ActivePolicies

\* What create_policy() leaves in the table: the new version, and the only active
\* one if it was created active.
LEMMA PoliciesWritten ==
  ASSUME RInv, NEW v \in PolicyVersions, NEW activate \in BOOLEAN,
         CreatePolicy(v, activate)
  PROVE  /\ regPolicies' \in [PolicyVersions -> {"absent", "active", "inactive"}]
         /\ \A w \in PolicyVersions : regPolicies[w] # "absent" => regPolicies'[w] # "absent"
         /\ ActivePolicies' = IF activate THEN {v} ELSE ActivePolicies
<1>1. regPolicies \in [PolicyVersions -> {"absent", "active", "inactive"}]
  BY DEF RInv, RegTypeOK
<1>2. /\ regPolicies[v] = "absent"
      /\ regPolicies' = PoliciesAfter(v, activate)
  BY DEF CreatePolicy
<1>3. ASSUME NEW w \in PolicyVersions, w # v
      PROVE  regPolicies'[w] = IF activate /\ regPolicies[w] = "active" THEN "inactive"
                               ELSE regPolicies[w]
  <2>1. regPolicies'[w] =
          CASE w = v -> IF activate THEN "active" ELSE "inactive"
            [] w # v /\ activate /\ regPolicies[w] = "active" -> "inactive"
            [] OTHER -> regPolicies[w]
    BY <1>2, Zenon DEF PoliciesAfter
  <2>2. CASE activate /\ regPolicies[w] = "active"
    BY <1>3, <2>1, <2>2, Zenon
  <2>3. CASE ~(activate /\ regPolicies[w] = "active")
    BY <1>3, <2>1, <2>3, Zenon
  <2>4. QED
    BY <2>2, <2>3
<1>4. regPolicies'[v] = IF activate THEN "active" ELSE "inactive"
  BY <1>2, Zenon DEF PoliciesAfter
<1>5. DOMAIN regPolicies' = PolicyVersions /\ regPolicies' = [w \in PolicyVersions |-> regPolicies'[w]]
  BY <1>2, Zenon DEF PoliciesAfter
<1>6. \A w \in PolicyVersions : /\ regPolicies'[w] \in {"absent", "active", "inactive"}
                                /\ regPolicies[w] # "absent" => regPolicies'[w] # "absent"
  BY <1>1, <1>2, <1>3, <1>4
<1>7. ActivePolicies' = IF activate THEN {v} ELSE ActivePolicies
  BY <1>1, <1>2, <1>3, <1>4 DEF ActivePolicies
<1>8. QED
  BY <1>5, <1>6, <1>7

\* The step of any method of the store keeps the tables sound, keeps the one active
\* policy and releases a device from quarantine only if it is asked to.
LEMMA RegStep ==
  ASSUME RInv, [RegNext]_regVars
  PROVE  RInv' /\ (UNCHANGED regVars \/ (PolicyKept /\ OnlyClearingReleases))
<1> USE DEF RInv
<1>1. ASSUME NEW v \in PolicyVersions, NEW activate \in BOOLEAN, CreatePolicy(v, activate)
      PROVE  RInv' /\ PolicyKept /\ OnlyClearingReleases
  <2>1. UNCHANGED <<regDevices, regAccepted, regExpired, regExempt, regAccepting>>
    BY <1>1 DEF CreatePolicy
  <2>2. /\ regPolicies' \in [PolicyVersions -> {"absent", "active", "inactive"}]
        /\ \A w \in PolicyVersions : regPolicies[w] # "absent" => regPolicies'[w] # "absent"
        /\ ActivePolicies' = IF activate THEN {v} ELSE ActivePolicies
    BY <1>1, PoliciesWritten
  <2>3. RInv'
    BY <2>1, <2>2 DEF RegTypeOK, Known
  <2>4. PolicyKept
    BY <2>2 DEF PolicyKept
  <2>5. OnlyClearingReleases
    BY <2>1 DEF OnlyClearingReleases, Quarantined, Known
  <2>6. QED
    BY <2>3, <2>4, <2>5
<1>2. ASSUME NEW k \in RegKeys,
             \/ AcceptRead(k) \/ AcceptInsert(k) \/ AcceptanceExpires(k)
             \/ AddExemption(k) \/ EndExemption(k)
      PROVE  RInv' /\ PolicyKept /\ OnlyClearingReleases
  <2>1. UNCHANGED <<regPolicies, regDevices>>
    BY <1>2 DEF AcceptRead, AcceptInsert, AcceptanceExpires, AddExemption, EndExemption
  <2>2. PolicyKept /\ OnlyClearingReleases
    BY <2>1 DEF PolicyKept, OnlyClearingReleases, ActivePolicies, Quarantined, Known
  <2>3. /\ regAccepted' \in [RegKeys -> PolicyVersions \cup {NoPolicy}]
        /\ regAccepting' \in [RegKeys -> PolicyVersions \cup {NoPolicy}]
    BY <1>2 DEF AcceptRead, AcceptInsert, AcceptanceExpires, AddExemption, EndExemption,
                ActivePolicies
  <2>4. RegTypeOK'
    BY <1>2, <2>1 DEF RegTypeOK, Known, ActivePolicies, AcceptRead, AcceptInsert,
                      AcceptanceExpires, AddExemption, EndExemption
  <2>5. QED
    BY <2>1, <2>2, <2>3, <2>4 DEF ActivePolicies
<1>3. ASSUME NEW k \in RegKeys, NEW a \in RegAddresses, NEW label \in {"given", "renamed"},
             UpsertDevice(k, a, label)
      PROVE  RInv' /\ PolicyKept /\ OnlyClearingReleases
  <2> DEFINE row == [address |-> a, label |-> label,
                     quarantined |-> IF Known(k) THEN regDevices[k].quarantined ELSE "no"]
  <2>1. /\ UNCHANGED <<regPolicies, regAccepted, regExpired, regExempt, regAccepting>>
        /\ regDevices' = [regDevices EXCEPT ![k] = row]
    BY <1>3 DEF UpsertDevice, Upserted
  <2>2. row \in RegRows /\ (Known(k) => row.quarantined = regDevices[k].quarantined)
    BY RowKnown DEF RegRows
  <2> HIDE DEF row
  <2>3. /\ regDevices' \in [RegKeys -> RegRows \cup {NoRegDevice}]
        /\ regDevices'[k] = row /\ \A j \in RegKeys : j # k => regDevices'[j] = regDevices[j]
    BY <2>1, <2>2
  <2>4. \A j \in RegKeys : Known(j) => Known(j)'
    BY <2>2, <2>3, NoRowAssumption DEF Known
  <2>5. RegTypeOK'
    BY <2>1, <2>4 DEF RegTypeOK
  <2>6. OnlyClearingReleases
    <3>1. \A j \in RegKeys : Quarantined(j) => Quarantined(j)'
      BY <2>2, <2>3, <2>4 DEF Quarantined
    <3>2. QED
      BY <3>1 DEF OnlyClearingReleases
  <2>7. QED
    BY <2>1, <2>3, <2>5, <2>6 DEF PolicyKept, ActivePolicies
<1>4. ASSUME NEW k \in RegKeys, NEW actor \in {"operator", "no"}, SetQuarantine(k, actor)
      PROVE  RInv' /\ PolicyKept /\ OnlyClearingReleases
  <2> DEFINE row == [regDevices[k] EXCEPT !.quarantined = actor]
  <2>1. /\ UNCHANGED <<regPolicies, regAccepted, regExpired, regExempt, regAccepting>>
        /\ regDevices' = [regDevices EXCEPT ![k] = row]
    BY <1>4 DEF SetQuarantine
  <2>2. row \in RegRows /\ row.quarantined = actor
    BY <1>4, RowKnown DEF SetQuarantine, RegRows
  <2>8. actor = "no" => row = [regDevices[k] EXCEPT !.quarantined = "no"]
    OBVIOUS
  <2> HIDE DEF row
  <2>3. /\ regDevices' \in [RegKeys -> RegRows \cup {NoRegDevice}]
        /\ regDevices'[k] = row /\ \A j \in RegKeys : j # k => regDevices'[j] = regDevices[j]
    BY <2>1, <2>2
  <2>4. \A j \in RegKeys : Known(j) => Known(j)'
    BY <2>2, <2>3, NoRowAssumption DEF Known
  <2>5. RegTypeOK'
    BY <2>1, <2>4 DEF RegTypeOK
  <2>6. OnlyClearingReleases
    <3>1. \A j \in RegKeys : Quarantined(j) /\ ~Quarantined(j)' => j = k /\ actor = "no"
      BY <2>2, <2>3, <2>4 DEF Quarantined
    <3>2. QED
      BY <2>1, <2>3, <2>8, <3>1 DEF OnlyClearingReleases
  <2>7. QED
    BY <2>1, <2>3, <2>5, <2>6 DEF PolicyKept, ActivePolicies
<1>5. ASSUME UNCHANGED regVars
      PROVE  RInv'
  BY <1>5 DEF regVars, RegTypeOK, Known, ActivePolicies
<1> HIDE DEF RInv
<1>6. QED
  BY <1>1, <1>2, <1>3, <1>4, <1>5 DEF RegNext

\* vpn_access_registration.py, whatever policies, devices and addresses there are:
\* no call takes the active policy or a quarantine away in passing, and none leaves a
\* row about a device or a policy the store does not know.
THEOREM RegistrationStaysStable == RegSpec => RegistrationIsStable
<1>1. RInv /\ [RegNext]_regVars => RInv'
  BY RegStep
<1>2. RInv /\ [RegNext]_regVars => [PolicyKept /\ OnlyClearingReleases /\ RegTypeOK']_regVars
  BY RegStep DEF RInv
<1>3. QED
  BY InitRInv, <1>1, <1>2, PTL DEF RegSpec, RegistrationIsStable
=============================================================================
