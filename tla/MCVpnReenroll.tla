--------------------------- MODULE MCVpnReenroll ---------------------------
(***************************************************************************)
(* The TLC instance of VpnEnrollment for one question: can a device always *)
(* be enrolled again after it was revoked?                                 *)
(***************************************************************************)
EXTENDS VpnEnrollment

CONSTANT i1
=============================================================================
