---------------------------- MODULE MCScrapePool ----------------------------
(***************************************************************************)
(* Instances of ScrapePool: two targets, one of them found at two          *)
(* addresses, and an address relabelling drops.                            *)
(***************************************************************************)
EXTENDS ScrapePool, TLC

CONSTANTS one, two, other, gateway, web, db

MCAddresses == {one, two, other, gateway}
MCTargets == {web, db}
MCIdentity ==
  [a \in Addresses |-> CASE a = one -> web [] a = gateway -> NoTarget [] OTHER -> db]
=============================================================================
