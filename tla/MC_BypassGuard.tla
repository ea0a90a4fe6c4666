--------------------------- MODULE MC_BypassGuard ---------------------------
(***************************************************************************)
(* PreventBypassing checked against the chain the spec (section 4.4)       *)
(* describes, over every connection built from the fields below.  The      *)
(* variable conn ranges over all of them; each step may pick any other.    *)
(***************************************************************************)
EXTENDS BypassGuard

VARIABLE conn

Domains == {"use-application-dns.net.", "Use-Application-DNS.net.", "example.com."}

Conns ==
    [inbound: BOOLEAN, protocol: {ICMP, ICMPv6, TCP, UDP}, domain: Domains,
     dnsRequest: BOOLEAN, sysResolver: BOOLEAN, port: {53, 443, 853},
     lists: SUBSET {"17-DNS", "other"}]

Init == conn \in Conns
Next == conn' \in Conns
Spec == Init /\ [][Next]_conn

(* The spec's chain: inbound and ICMP exempt; the canary domain denied     *)
(* with NXDOMAIN, even for the system resolver; the system resolver's own  *)
(* DNS queries exempt from the rest; port 53 denied; port 853 or a listed  *)
(* secure resolver denied and reported.                                    *)
SpecChain(c) ==
    IF c.inbound \/ c.protocol \in {ICMP, ICMPv6} THEN [result |-> "NoMatch", report |-> FALSE]
    ELSE IF ToLower(c.domain) = CanaryDomain THEN [result |-> "Denied", report |-> FALSE]
    ELSE IF c.dnsRequest /\ c.sysResolver THEN [result |-> "NoMatch", report |-> FALSE]
    ELSE IF c.port = 53 THEN [result |-> "Denied", report |-> FALSE]
    ELSE IF c.port = 853 \/ "17-DNS" \in c.lists THEN [result |-> "Denied", report |-> TRUE]
    ELSE [result |-> "NoMatch", report |-> FALSE]

(* PreventBypassing gives the spec's decision for every connection, and   *)
(* flags a process for a secure-DNS bypass exactly when the spec does: in *)
(* particular the canary is denied even for the system resolver, and the  *)
(* system resolver is never reported.                                      *)
BypassAgreesWithSpec ==
    LET out == PreventBypassing(conn)
    IN  [result |-> out.result, report |-> out.report] = SpecChain(conn)
=============================================================================
