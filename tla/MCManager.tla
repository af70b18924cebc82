----------------------------- MODULE MCManager -----------------------------
(* An instance of Manager for TLC: one upstream, overlapping calls. *)
EXTENDS Manager, TLC

CONSTANTS a, k1, k2

Upstream(enabled, protocol, options) ==
    [addr |-> 1, enabled |-> enabled, protocol |-> protocol,
     options |-> options]

(* Enabled, changed in place, disabled, of an unknown kind, removed. *)
MCRequests ==
    {[i \in {a} |-> c] : c \in {Upstream(TRUE, "redis", "o1"),
                                Upstream(TRUE, "redis", "o2"),
                                Upstream(FALSE, "redis", "o1"),
                                Upstream(TRUE, "gopher", "o1"), None}}
=============================================================================
