---------------------------- MODULE MCRateLimits ----------------------------
(* Model-checking instances of RateLimits. *)
EXTENDS RateLimits, TLC

CONSTANTS alice, bob, proxy

\* alice has an IPv4 address, bob two IPv6 addresses of one /64; one trusted proxy.
MCOwns ==
    alice :> {[family |-> f, net |-> 1, host |-> 0] : f \in {"v4", "mapped"}}
    @@ bob :> {[family |-> "v6", net |-> 1, host |-> h] : h \in {1, 2}}
    @@ proxy :> {[family |-> "v4", net |-> 9, host |-> 0]}

MCTrusted == MCOwns[proxy]

MCBurst == [email_per_address |-> 1, email_per_ip |-> 2, token_per_ip |-> 1]

MCPeriod == [email_per_address |-> 2, email_per_ip |-> 2, token_per_ip |-> 1]
=============================================================================
