----------------------------- MODULE AddressSlots -----------------------------
(***************************************************************************)
(* What a cluster's num stands for: the port of its API server, the MetalLB *)
(* pool, the service and the pod subnet.  Nothing else keeps two clusters   *)
(* apart, and the nums in use are read back from the ports docker was told  *)
(* to bind.                                                                 *)
(***************************************************************************)
EXTENDS Naturals

ApiPort(n) == 7000 + n

(* The second byte of 10.x.0.0/16.  The pod subnet's is the text of n after *)
(* a 1.                                                                     *)
ServiceSubnet(n) == n
PodSubnet(n) == IF n < 10 THEN 10 + n ELSE 100 + n

(* The last two bytes of the addresses of the pool.                         *)
Pool(n) == {n} \X ((1..7) \cup (16..254))

(* DetectUsedNums: the nums behind the ports of the control planes.         *)
Detected(ports) == {p - 7000 : p \in ports \cap (7001..7099)}

(* Two nums share no port, no address of a pool, and neither their service  *)
(* nor their pod subnet.                                                    *)
Apart(m, n) ==
  /\ ApiPort(m) # ApiPort(n)
  /\ Pool(m) \cap Pool(n) = {}
  /\ ServiceSubnet(m) # ServiceSubnet(n)
  /\ PodSubnet(m) # PodSubnet(n)
=============================================================================
