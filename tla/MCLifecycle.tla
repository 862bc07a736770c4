---------------------------- MODULE MCLifecycle ----------------------------
(* Two resolvers the host can switch between. *)
EXTENDS Lifecycle

CONSTANTS dns1, dns2

MCServers == {dns1, dns2}
=============================================================================
