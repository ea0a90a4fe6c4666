---------------------------- MODULE MC_PidLookup ----------------------------
(* Instantiation of PidLookup for TLC.  Three processes of two users: two *)
(* of user u1 so that the uid's pid list has a stale and a fresh member,  *)
(* one of u2 whose pids the search of a u1 socket must skip.        *)
EXTENDS PidLookup, TLC

MC_Pids == 1..3
MC_Owner == (1 :> "u1") @@ (2 :> "u1") @@ (3 :> "u2")
MC_SockOwner == ("s1" :> 2)

(* The real bounds of the code, for the latency run. *)
Code_LookupRetries == 3
Code_LookupTries == 20
=============================================================================
