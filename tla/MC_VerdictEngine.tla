-------------------------- MODULE MC_VerdictEngine --------------------------
(***************************************************************************)
(* Two connections: c1 an ordinary outbound HTTPS connection the endpoint *)
(* rules decide, c2 a DNS-over-TLS connection PreventBypassing denies and *)
(* reports.  The rules' answer for c1 changes with every configuration    *)
(* version, so a stale verdict differs from a fresh one.                   *)
(***************************************************************************)
EXTENDS VerdictEngine, TLC

Plain == [inbound |-> FALSE, protocol |-> TCP, domain |-> "example.com.",
          dnsRequest |-> FALSE, sysResolver |-> FALSE, port |-> 443, lists |-> {}]

MC_Attr == ("c1" :> Plain) @@ ("c2" :> [Plain EXCEPT !.port = 853])

MC_EndpointResult(v, c) ==
    CASE v % 3 = 0 -> "Permitted"
      [] v % 3 = 1 -> "Denied"
      [] OTHER     -> "Undecided"
=============================================================================
