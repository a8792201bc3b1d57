---------------------------- MODULE MCDiscovery ----------------------------
(* Instances of Discovery for TLC. *)
EXTENDS Discovery, Outbound

(* Whenever the registry client sends a request, for a discovery document  *)
(* or to an origin it discovered, get() confines it: it goes to permitted  *)
(* URLs only, and at most MaxRedirects redirects are followed.             *)
RequestsConfined ==
  (\E c \in Callers : pc[c] \in {"ask", "fetch"}) => AddressesJudged /\ RedirectsFollowed
=============================================================================
