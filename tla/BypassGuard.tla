---------------------------- MODULE BypassGuard ----------------------------
(***************************************************************************)
(* PreventBypassing (firewall/bypassing.go): the fixed chain of checks run *)
(* before the endpoint rules, to stop DNS-filter evasion.  A connection is *)
(* described by the fields the chain reads:                                *)
(*   inbound      conn.Inbound                                             *)
(*   protocol     conn.Entity.Protocol (IP protocol number)                *)
(*   domain       conn.Entity.Domain                                       *)
(*   dnsRequest   conn.Type == network.DNSRequest                          *)
(*   sysResolver  conn.Process().IsSystemResolver()                        *)
(*   port         conn.Entity.Port                                         *)
(*   lists        the filter lists the entity is on (Entity.MatchLists)    *)
(* The result is the EPResult, a reason, the responder (nil, NXDOMAIN or  *)
(* a block IP) and whether the compat report is sent for the process.     *)
(***************************************************************************)
EXTENDS Naturals

ICMP == 1
ICMPv6 == 58
TCP == 6
UDP == 17

CanaryDomain == "use-application-dns.net."

(* strings.ToLower over the domains the model uses. *)
ToLower(d) ==
    IF d \in {"use-application-dns.net.", "Use-Application-DNS.net."}
    THEN "use-application-dns.net."
    ELSE d

(* resolverFilterLists: the filter list of secure DNS resolvers. *)
resolverFilterLists == {"17-DNS"}

(* conn.Entity.MatchLists(lists): the entity is on one of the lists. *)
MatchLists(conn, lists) == conn.lists \cap lists # {}

(* One outcome of the chain. *)
Outcome(result, reason, responder, report) ==
    [result |-> result, reason |-> reason, responder |-> responder,
     report |-> report]

FallThrough == Outcome("NoMatch", "none", "nil", FALSE)

(* Mutant: the System Resolver exemption checked before the canary. *)
PreventBypassingResolverFirst(conn) ==
    CASE conn.inbound -> FallThrough
      [] conn.protocol \in {ICMP, ICMPv6} -> FallThrough
      [] conn.dnsRequest /\ conn.sysResolver -> FallThrough
      [] ToLower(conn.domain) = CanaryDomain ->
            Outcome("Denied", "canary", "NxDomain", FALSE)
      [] conn.port = 53 ->
            Outcome("Denied", "manual dns setup required", "BlockIP", FALSE)
      [] conn.port = 853 \/ MatchLists(conn, resolverFilterLists) ->
            Outcome("Denied", "rogue dns resolver", "BlockIP", TRUE)
      [] OTHER -> FallThrough

PreventBypassing(conn) ==
    CASE conn.inbound -> FallThrough
      [] conn.protocol \in {ICMP, ICMPv6} -> FallThrough
      [] ToLower(conn.domain) = CanaryDomain ->
            Outcome("Denied", "canary", "NxDomain", FALSE)
      [] conn.dnsRequest /\ conn.sysResolver -> FallThrough
      [] conn.port = 53 ->
            Outcome("Denied", "manual dns setup required", "BlockIP", FALSE)
      [] conn.port = 853 \/ MatchLists(conn, resolverFilterLists) ->
            Outcome("Denied", "rogue dns resolver", "BlockIP", TRUE)
      [] OTHER -> FallThrough

=============================================================================
