-------------------------- MODULE MCRouteRestore ---------------------------
(* Routes for RouteRestore: two networks, 10 and 20, with the address 11  *)
(* of this host and the gateways 12 and 22.                                *)
EXTENDS RouteRestore

LocalNetworks == {Route(10, 11, 0, {}), Route(20, 0, 0, {})}
Remotes == {Route(30, 0, 12, {}), Route(0, 11, 22, {})}

SingleHop == {Route(11, 11, 0, {})} \cup LocalNetworks \cup Remotes
MultiHop == LocalNetworks \cup {Route(11, 11, 0, {}), Route(40, 0, 0, {12, 22})}

=============================================================================
