------------------------- MODULE MC_ProcessResolver -------------------------
EXTENDS ProcessResolver, TLC

(* Pid 1 is an svchost.exe hosting a per-user service and a plain one;  *)
(* pid 2 is an ordinary program.                                         *)
MC_Pids == {1, 2}
MC_Exec == (1 :> "svchost.exe") @@ (2 :> "firefox.exe")
MC_ServiceNames == (1 :> << <<"CDPUserSvc", "1bf5729">>, <<"Dnscache">> >>)
                   @@ (2 :> << >>)
=============================================================================
