---------------------------- MODULE DeviceLedger ----------------------------
(***************************************************************************)
(* What the enrollment service promises to the readers of its devices      *)
(* table: rows appear complete and are never taken away, no key and no     *)
(* address ever stands in two rows, a row is revoked once and for ever,    *)
(* and a revoked row no longer changes.  VpnEnrollment implements it;      *)
(* VpnSync is built on it.                                                 *)
(***************************************************************************)
EXTENDS Naturals, Sequences

CONSTANTS
  Invites,
  LastAddress,   \* the client network has the addresses 1..LastAddress
  MaxKeys        \* bound on the key pairs generated

VARIABLE ledger  \* the committed rows, in the order of their ids

AllAddresses == 1..LastAddress
DeviceRows == [invite : Invites, key : 1..MaxKeys, address : AllAddresses,
               label : {"given", "renamed"}, revoked : BOOLEAN]

LedgerInit == ledger = <<>>

EnrollRow(i, k, a) ==
  /\ \A d \in DOMAIN ledger : ledger[d].key # k /\ ledger[d].address # a
  /\ ledger' = Append(ledger, [invite |-> i, key |-> k, address |-> a,
                               label |-> "given", revoked |-> FALSE])

RevokeRow(d) ==
  /\ ~ledger[d].revoked
  /\ ledger' = [ledger EXCEPT ![d].revoked = TRUE]

RenameRow(d) ==
  /\ ~ledger[d].revoked
  /\ ledger' = [ledger EXCEPT ![d].label = "renamed"]

LedgerNext ==
  \/ \E i \in Invites, k \in 1..MaxKeys, a \in AllAddresses : EnrollRow(i, k, a)
  \/ \E d \in DOMAIN ledger : RevokeRow(d) \/ RenameRow(d)

LedgerSpec == LedgerInit /\ [][LedgerNext]_ledger
=============================================================================
