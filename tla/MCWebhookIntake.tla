-------------------------- MODULE MCWebhookIntake --------------------------
(* TLC instances of WebhookIntake. *)
EXTENDS WebhookIntake, TLC

CONSTANTS s1, s2, w1, k1, b1, b2

OneServer == {s1}
TwoServers == {s1, s2}
OneWorker == {w1}

=============================================================================
