-------------------------- MODULE VpnRegistration --------------------------
(***************************************************************************)
(* Registration state of VPN devices (server/vpn_access_registration.py),  *)
(* the store behind the /v1/vpn-access routes of the Operations API.       *)
(*                                                                         *)
(* A method of the store is one SQLite transaction, except that its        *)
(* SELECTs run before the first write takes the lock: accept_policy()      *)
(* reads the active policy in one step and records the acceptance in       *)
(* another.  Policy flags and the audit table, which nothing reads back,   *)
(* are left out.                                                           *)
(***************************************************************************)
EXTENDS Naturals

CONSTANTS
  RegKeys,         \* peer keys; the store knows a device by its fingerprint
  RegAddresses,
  PolicyVersions,
  NoPolicy,        \* no acceptance, no policy
  NoRegDevice      \* a key without a row in vpn_devices

\* Rows of vpn_devices: quarantined is who asked for it, or "no".
RegRows == [address : RegAddresses, label : {"given", "renamed"},
            quarantined : {"operator", "no"}]

ASSUME NoRowAssumption == NoRegDevice \notin RegRows

VARIABLES
  regPolicies,     \* version -> "absent", "active" or "inactive"
  regDevices,      \* key -> its row of vpn_devices
  regAccepted,     \* key -> the policy of its latest acceptance
  regExpired,      \* keys whose latest acceptance has expired
  regExempt,       \* keys with an active registration exemption
  regAccepting     \* key -> the policy an accept_policy() under way has read

regVars == <<regPolicies, regDevices, regAccepted, regExpired, regExempt,
             regAccepting>>

ActivePolicies == {v \in PolicyVersions : regPolicies[v] = "active"}
Known(k) == regDevices[k] # NoRegDevice
Quarantined(k) == Known(k) /\ regDevices[k].quarantined # "no"
----------------------------------------------------------------------------
RegInit ==
  /\ regPolicies = [v \in PolicyVersions |-> "absent"]
  /\ regDevices = [k \in RegKeys |-> NoRegDevice]
  /\ regAccepted = [k \in RegKeys |-> NoPolicy]
  /\ regExpired = {} /\ regExempt = {}
  /\ regAccepting = [k \in RegKeys |-> NoPolicy]

\* The table after create_policy(): activation deactivates all the others.
PoliciesAfter(v, activate) ==
  [w \in PolicyVersions |->
     CASE w = v -> IF activate THEN "active" ELSE "inactive"
       [] w # v /\ activate /\ regPolicies[w] = "active" -> "inactive"
       [] OTHER -> regPolicies[w]]

\* A version that exists violates UNIQUE and rolls everything back.
CreatePolicy(v, activate) ==
  /\ regPolicies[v] = "absent"
  /\ regPolicies' = PoliciesAfter(v, activate)
  /\ UNCHANGED <<regDevices, regAccepted, regExpired, regExempt, regAccepting>>

\* Mutant: the row is written anew, and with it its quarantine.
UpsertAnew(k, address, label) ==
  [regDevices EXCEPT ![k] =
     [address |-> address, label |-> label, quarantined |-> "no"]]

\* The table after upsert_device(): a known row keeps its quarantine.
Upserted(k, address, label) ==
  [regDevices EXCEPT ![k] =
     [address |-> address, label |-> label,
      quarantined |-> IF Known(k) THEN regDevices[k].quarantined ELSE "no"]]

UpsertDevice(k, address, label) ==
  /\ regDevices' = Upserted(k, address, label)
  /\ UNCHANGED <<regPolicies, regAccepted, regExpired, regExempt, regAccepting>>

\* accept_policy() up to its INSERT.
AcceptRead(k) ==
  /\ Known(k) /\ regAccepting[k] = NoPolicy
  /\ \E v \in ActivePolicies :
       regAccepting' = [regAccepting EXCEPT ![k] = v]
  /\ UNCHANGED <<regPolicies, regDevices, regAccepted, regExpired, regExempt>>

AcceptInsert(k) ==
  /\ regAccepting[k] # NoPolicy
  /\ regAccepted' = [regAccepted EXCEPT ![k] = regAccepting[k]]
  /\ regExpired' = regExpired \ {k}
  /\ regAccepting' = [regAccepting EXCEPT ![k] = NoPolicy]
  /\ UNCHANGED <<regPolicies, regDevices, regExempt>>

\* registration_days have passed since the acceptance.
AcceptanceExpires(k) ==
  /\ regAccepted[k] # NoPolicy /\ k \notin regExpired
  /\ regExpired' = regExpired \cup {k}
  /\ UNCHANGED <<regPolicies, regDevices, regAccepted, regExempt, regAccepting>>

AddExemption(k) ==
  /\ Known(k) /\ k \notin regExempt
  /\ regExempt' = regExempt \cup {k}
  /\ UNCHANGED <<regPolicies, regDevices, regAccepted, regExpired, regAccepting>>

\* revoke_exemption(), or the exemption's own expiry.
EndExemption(k) ==
  /\ k \in regExempt
  /\ regExempt' = regExempt \ {k}
  /\ UNCHANGED <<regPolicies, regDevices, regAccepted, regExpired, regAccepting>>

\* set_quarantine(), with the actor that asks for it, or "no" to clear it.
SetQuarantine(k, actor) ==
  /\ Known(k)
  /\ regDevices' = [regDevices EXCEPT ![k].quarantined = actor]
  /\ UNCHANGED <<regPolicies, regAccepted, regExpired, regExempt, regAccepting>>

\* _enrich_device(): the first of the conditions that holds.
RegStatus(k) ==
  CASE Quarantined(k) -> "quarantined"
    [] ~Quarantined(k) /\ k \in regExempt -> "exempt"
    [] OTHER ->
         IF regAccepted[k] = NoPolicy THEN "pending"
         ELSE IF ActivePolicies \notin {{}, {regAccepted[k]}}
         THEN "policy_update_required"
         ELSE IF k \in regExpired THEN "expired" ELSE "registered"

RegNext ==
  \/ \E v \in PolicyVersions, activate \in BOOLEAN : CreatePolicy(v, activate)
  \/ \E k \in RegKeys :
       \/ AcceptRead(k) \/ AcceptInsert(k) \/ AcceptanceExpires(k)
       \/ AddExemption(k) \/ EndExemption(k)
       \/ \E actor \in {"operator", "no"} : SetQuarantine(k, actor)
       \/ \E a \in RegAddresses, label \in {"given", "renamed"} :
            UpsertDevice(k, a, label)

RegSpec == RegInit /\ [][RegNext]_regVars
----------------------------------------------------------------------------
\* The tables are of their schema, and only known devices have state.
RegTypeOK ==
  /\ regPolicies \in [PolicyVersions -> {"absent", "active", "inactive"}]
  /\ \A k \in RegKeys :
       \/ Known(k)
       \/ /\ {regAccepted[k], regAccepting[k]} = {NoPolicy}
          /\ k \notin regExempt \cup regExpired
  /\ \A k \in RegKeys : {regAccepted[k], regAccepting[k]} \subseteq
       {v \in PolicyVersions : regPolicies[v] # "absent"} \cup {NoPolicy}

\* create_policy(): once a policy is active there is always exactly one to accept;
\* neither a refused version nor a draft takes it away or adds another.
PolicyKept ==
  /\ \A v, w \in ActivePolicies' : v = w
  /\ ActivePolicies # {} => ActivePolicies' # {}

\* What takes a device out of quarantine is set_quarantine() alone: seeing the
\* device again, a new acceptance, an exemption or a policy does not.
OnlyClearingReleases ==
  \A k \in RegKeys : Quarantined(k) /\ ~Quarantined(k)' =>
    /\ regDevices'[k] = [regDevices[k] EXCEPT !.quarantined = "no"]
    /\ UNCHANGED <<regAccepted, regAccepting, regExempt, regPolicies>>

\* No call of the store takes the policy or a quarantine away in passing, and
\* none leaves a row about a device or a policy that the store does not know.
RegistrationIsStable ==
  [][PolicyKept /\ OnlyClearingReleases /\ RegTypeOK']_regVars
=============================================================================
