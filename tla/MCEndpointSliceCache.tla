------------------------ MODULE MCEndpointSliceCache ------------------------
(* Two slices whose port lists share a name and differ in its number, with a *)
(* nil name and a nil port among them, and an address of the other family.   *)
EXTENDS EndpointSliceCache

CONSTANTS http, nilName, a, six

MCPortList == {{<<http, 80>>}, {<<http, 81>>, <<nilName, 80>>, <<http, 0>>}}

MCEndpointList == {{}, {a, six}}
=============================================================================
