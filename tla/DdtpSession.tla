----------------------------- MODULE DdtpSession -----------------------------
(***************************************************************************)
(* What ddtp-serve promises its clients, who come one after the other: one *)
(* answer to the request to load a file, and after a good one what         *)
(* DdtpDelivery promises.  Threads, flags, the queue, the dedup map and    *)
(* what can fail are DdtpServer's business.                                *)
(***************************************************************************)
EXTENDS DdtpDelivery

VARIABLES client,    \* how many clients have come
          answer     \* what the last one was told: <<>> or <<code>>

vars == <<client, answer, deliveryVars>>

(* Every error of ddtpError but the ones that tell of references and data. *)
Answers == {0, 1, 2, 3, 6}

Init == client = 0 /\ answer = <<>> /\ DeliveryInit

NextClient ==
  /\ client' = client + 1
  /\ answer' = <<>> /\ reported' = <<>> /\ delivered' = <<>>

Answer == /\ answer = <<>>
          /\ \E code \in Answers : answer' = <<code>>
          /\ UNCHANGED <<client, deliveryVars>>

Serve == answer = <<0>> /\ DeliveryNext /\ UNCHANGED <<client, answer>>

Next == NextClient \/ Answer \/ Serve

Spec == Init /\ [][Next]_vars
=============================================================================
