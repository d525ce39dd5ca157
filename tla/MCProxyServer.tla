---------------------------- MODULE MCProxyServer ----------------------------
(* One Service with one EndpointSlice, and one or two pods.                  *)
EXTENDS ProxyServer, TLC

CONSTANTS p1, p2, s1, e1

MCServiceOf == e1 :> s1
=============================================================================
