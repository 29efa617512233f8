---------------------------- MODULE MCSecretCopy ----------------------------
(* Constants of the instance of SecretCopy.                                *)
EXTENDS SecretCopy

CONSTANTS d1, d2, e1

MCSecrets == <<"pull-secret", "ssh-key">>
MCData == {d1, d2, e1}
MCTypeOf == [d \in MCData |-> IF d = e1 THEN "other" ELSE "Opaque"]
MCCopyBudget ==
  [source |-> 1, delete |-> 1, fault |-> 1, restart |-> 1, again |-> 1]
=============================================================================
