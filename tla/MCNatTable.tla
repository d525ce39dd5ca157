------------------------------ MODULE MCNatTable ------------------------------
(***************************************************************************)
(* Instances of NatTable: Service s1 has ports p1 and p2, s2 has p3.       *)
(***************************************************************************)
EXTENDS NatTable, TLC

CONSTANTS s1, s2, p1, p2, p3

MCServiceOf == (p1 :> s1) @@ (p2 :> s1) @@ (p3 :> s2)

================================================================================
