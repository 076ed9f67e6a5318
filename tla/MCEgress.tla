------------------------------ MODULE MCEgress ------------------------------
(* Configurations, host entries and callers of Egress for TLC.                *)
EXTENDS Egress, TLC

Base == [mode |-> "restricted", bridge |-> TRUE, local |-> FALSE, private |-> TRUE,
         meta |-> TRUE, dns |-> {}, ports |-> {}, literals |-> {}, resolved |-> {},
         hosts |-> <<>>]

Caps == {{}, {"web"}, {"web", "dns"}}
To(dst, ports) == [dst |-> dst, ports |-> ports]
Host(dst, ports) == [dst |-> dst, name |-> dst, ports |-> ports]

MCEntries == {Host("nas", {}), Host("nas", {"ssh"}), Host("pub", {}),
              Host("resolver", {"web"}), Host("meta", {})}

\* Every restricted policy, with no host, a LAN host on one port, or two hosts.
Restricted ==
  {[Base EXCEPT !.local = l, !.private = b, !.meta = m, !.dns = d, !.ports = p, !.hosts = h] :
     l \in BOOLEAN, b \in BOOLEAN, m \in BOOLEAN,
     d \in {{}, {"resolver"}, {"nas"}}, p \in Caps,
     h \in {<<>>, <<Host("nas", {"ssh"})>>, <<Host("nas", {}), Host("pub", {})>>}}

\* Literal addresses with and without ports of their own, one in the LAN, and
\* names that resolve to the outside, to the LAN or to the metadata address.
Allowlists ==
  {[Base EXCEPT !.mode = "allowlist", !.local = l, !.ports = p, !.literals = a,
                !.resolved = r, !.hosts = h] :
     l \in BOOLEAN, p \in Caps,
     a \in {{}, {To("resolver", {})}, {To("nas", {"ssh"}), To("pub", {"web"})}},
     r \in {{}, {To("pub", {})}, {To("pub", {}), To("meta", {}), To("nas", {})}},
     h \in {<<>>, <<Host("pub", {"ssh"})>>, <<Host("nas", {})>>}}

\* The metadata address not blocked, listed or not, with and without local access.
Unblocked ==
  {[Base EXCEPT !.mode = "allowlist", !.meta = FALSE, !.local = l, !.literals = {To("pub", {})} \cup a] :
     l \in BOOLEAN, a \in {{}, {To("meta", {"web"})}}}

Open == {[Base EXCEPT !.mode = "open", !.hosts = h] : h \in {<<>>, <<Host("meta", {})>>}}

\* Not set up: DNS pins in an allowlist, and no gateway.
Unfits == {[Base EXCEPT !.mode = "allowlist", !.literals = {To("pub", {})}, !.dns = {"pub"}],
           [Base EXCEPT !.mode = "allowlist", !.literals = {To("pub", {})}, !.bridge = FALSE],
           [Base EXCEPT !.bridge = FALSE]}

MCConfigs == Restricted \cup Allowlists \cup Unblocked \cup Open \cup Unfits

MCMixed == {[Base EXCEPT !.dns = {"resolver"}, !.ports = {"web"}, !.hosts = <<Host("nas", {"ssh"})>>],
            [Base EXCEPT !.mode = "open"],
            [Base EXCEPT !.mode = "allowlist", !.local = TRUE, !.literals = {To("pub", {"web"})}],
            [Base EXCEPT !.mode = "allowlist", !.literals = {To("pub", {})}]}

MCSymmetry == Permutations(Callers)

=============================================================================
