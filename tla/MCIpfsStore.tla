------------------------------ MODULE MCIpfsStore ------------------------------
(* One process that publishes a provider and a service whose metadata the     *)
(* provider signs, with two versions of the service's metadata.              *)
EXTENDS IpfsStore

CONSTANTS provider, service, p1

OneProcess == [sid \in Sids |-> p1]
SignedMetadata == [sid \in Sids |-> IF sid = provider THEN {} ELSE {<<"first", sid>>, <<"second", sid>>}]
SignedByProvider == [sid \in Sids |-> IF sid = provider THEN NoSid ELSE provider]
=============================================================================
