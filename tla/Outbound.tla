------------------------------ MODULE Outbound ------------------------------
(***************************************************************************)
(* The outbound HTTP client (src/src/outbound.rs): which addresses it      *)
(* connects to, and how it follows redirects.  An IPv4 address is its four *)
(* octets, an IPv6 address its eight segments.                             *)
(***************************************************************************)
EXTENDS Integers, Sequences, FiniteSets

CONSTANT MaxRedirects   \* MAX_REDIRECTS

ASSUME RedirectsAssumption == MaxRedirects \in Nat

(* Ipv4Addr::is_private, is_loopback, is_link_local. *)
is_private(ip) ==
  \/ ip[1] = 10
  \/ ip[1] = 172 /\ ip[2] \in 16..31
  \/ ip[1] = 192 /\ ip[2] = 168

is_loopback(ip) == ip[1] = 127

is_link_local(ip) == ip[1] = 169 /\ ip[2] = 254

is_public_ipv4(ip) ==
  /\ ~is_private(ip) /\ ~is_loopback(ip) /\ ~is_link_local(ip)
  /\ ip[1] /= 0 /\ ip[1] < 224
  /\ ~(ip[1] = 100 /\ ip[2] \in 64..127)
  /\ ~(ip[1] = 192 /\ ip[2] = 0)
  /\ ~(ip[1] = 192 /\ ip[2] = 88 /\ ip[3] = 99)
  /\ ~(ip[1] = 198 /\ ip[2] \in {18, 19})
  /\ ~(ip[1] = 198 /\ ip[2] = 51 /\ ip[3] = 100)
  /\ ~(ip[1] = 203 /\ ip[2] = 0 /\ ip[3] = 113)

(* embedded_v4: the address in two segments. *)
embedded_v4(high, low) ==
  <<high \div 256, high % 256, low \div 256, low % 256>>

(* Ipv6Addr::to_ipv4: an IPv4-mapped or an IPv4-compatible address. *)
to_ipv4(s) == {embedded_v4(s[7], s[8]) : x \in
  {y \in {0, \hffff} : SubSeq(s, 1, 6) = <<0, 0, 0, 0, 0, y>>}}

is_public_ipv6(s) ==
  IF to_ipv4(s) /= {} THEN \A ip \in to_ipv4(s) : is_public_ipv4(ip)
  ELSE IF SubSeq(s, 1, 6) = <<\h64, \hff9b, 0, 0, 0, 0>>
  THEN is_public_ipv4(embedded_v4(s[7], s[8]))
  ELSE IF s[1] = \h2002 THEN is_public_ipv4(embedded_v4(s[2], s[3]))
  ELSE /\ s[1] < \hff00                              \* is_multicast
       /\ s[1] \div 512 /= \hfc00 \div 512           \* is_unique_local
       /\ s[1] \div 64 /= \hfe80 \div 64             \* is_unicast_link_local
       /\ s[1] \div 64 /= \hfec0 \div 64
       /\ ~(s[1] = \h2001 /\ s[2] = \hdb8)

is_public_ip(ip) == IF Len(ip) = 4 THEN is_public_ipv4(ip) ELSE is_public_ipv6(ip)

-----------------------------------------------------------------------------
(* A URL has a scheme and a host, "" for none.  net says what a host is: an *)
(* IP literal (net.literal has the one address it parses to, otherwise it  *)
(* is empty) or a name, with the addresses DNS has for it.                 *)

resolveAny(client, net, name) ==
  /\ net.dns[name] /= {}
  /\ client.allow_non_public_ips \/ \E ip \in net.dns[name] : is_public_ip(ip)

(* PublicOnlyResolver::resolve, the only way a name is looked up in direct *)
(* mode: one address that is not public spoils the name.                   *)
resolve(client, net, name) ==
  /\ net.dns[name] /= {}
  /\ client.allow_non_public_ips \/ \A ip \in net.dns[name] : is_public_ip(ip)

validate_url(client, net, u) ==
  /\ u.scheme = "https" \/ (client.allow_http /\ u.scheme = "http")
  /\ u.host /= ""
  /\ client.mode = "direct" /\ ~client.allow_non_public_ips =>
       \A ip \in net.literal[u.host] : is_public_ip(ip)

(* send(): only in direct mode, and only for a name, is the resolver asked; *)
(* a trusted proxy resolves names itself.                                  *)
Connects(client, net, u) ==
  client.mode = "direct" /\ net.literal[u.host] = {} => resolve(client, net, u.host)

(* One round of the redirect loop of get(), after x[1] redirects at url    *)
(* x[2]; rest is the loop.  web is what the servers answer: a URL to go    *)
(* to, "ok" for a status that is no redirect, "lost" for a redirect without *)
(* a usable Location, or "down".  The result is the outcome and the URLs   *)
(* that were sent a request.                                               *)
Follow(client, net, web, rest, x) ==
  LET u == x[2]  answer == web[u] IN
  IF ~validate_url(client, net, u) \/ ~Connects(client, net, u)
    THEN [outcome |-> "policy", url |-> u, sent |-> {}]
  ELSE IF answer.kind = "down"
    THEN [outcome |-> "request", url |-> u, sent |-> {u}]
  ELSE IF answer.kind = "ok"
    THEN [outcome |-> "response", url |-> u, sent |-> {u}]
  ELSE IF x[1] = MaxRedirects \/ answer.kind = "lost"
    THEN [outcome |-> "redirect", url |-> u, sent |-> {u}]
  ELSE IF ~validate_url(client, net, answer.to)
    THEN [outcome |-> "policy", url |-> answer.to, sent |-> {u}]
  ELSE [rest[<<x[1] + 1, answer.to>>] EXCEPT !.sent = @ \cup {u}]

get(client, net, web, start) ==
  LET loop[x \in (0..MaxRedirects) \X DOMAIN web] == Follow(client, net, web, loop, x)
  IN loop[<<0, start>>]

-----------------------------------------------------------------------------
(* The reference: the blocks of addresses that are not on the public        *)
(* Internet, as <<base, prefix length>> over the first 24 bits.            *)
Reserved4 ==
  {<<<<0, 0, 0>>, 8>>, <<<<10, 0, 0>>, 8>>, <<<<100, 64, 0>>, 10>>,
   <<<<127, 0, 0>>, 8>>, <<<<169, 254, 0>>, 16>>, <<<<172, 16, 0>>, 12>>,
   <<<<192, 0, 0>>, 16>>, <<<<192, 88, 99>>, 24>>, <<<<192, 168, 0>>, 16>>,
   <<<<198, 18, 0>>, 15>>, <<<<198, 51, 100>>, 24>>,
   <<<<203, 0, 113>>, 24>>, <<<<224, 0, 0>>, 4>>, <<<<240, 0, 0>>, 4>>}
Reserved6 ==
  {<<<<\hfc00, 0>>, 7>>, <<<<\hfe80, 0>>, 10>>, <<<<\hfec0, 0>>, 10>>,
   <<<<\hff00, 0>>, 8>>, <<<<\h2001, \hdb8>>, 32>>}

Prefix(ip, length) == (ip[1] * 65536 + ip[2] * 256 + ip[3]) \div 2^(24 - length)
InBlock4(ip, block) == Prefix(ip, block[2]) = Prefix(block[1], block[2])
InBlock6(s, block) ==
  IF block[2] <= 16
  THEN s[1] \div 2^(16 - block[2]) = block[1][1] \div 2^(16 - block[2])
  ELSE s[1] = block[1][1] /\ s[2] = block[1][2]

(* The prefixes under which an IPv6 address carries an IPv4 address in its *)
(* last two segments (compatible, mapped, NAT64); 6to4 carries it in the   *)
(* two after the first.                                                    *)
Prefixes ==
  {<<0, 0, 0, 0, 0, 0>>, <<0, 0, 0, 0, 0, \hffff>>, <<\h64, \hff9b, 0, 0, 0, 0>>}
Begins(s, t) == \A i \in 1..6 : s[i] = t[i]
InTail(s) == \E t \in Prefixes : Begins(s, t)
Unreserved4(ip) == \A b \in Reserved4 : ~InBlock4(ip, b)

(* An address that is in none of the blocks, nor carries one that is. *)
OnInternet(ip) ==
  IF Len(ip) = 4 THEN Unreserved4(ip)
  ELSE IF InTail(ip) THEN Unreserved4(embedded_v4(ip[7], ip[8]))
  ELSE IF ip[1] = \h2002 THEN Unreserved4(embedded_v4(ip[2], ip[3]))
  ELSE \A b \in Reserved6 : ~InBlock6(ip, b)

(* The octets at the edges of the blocks, and their neighbours. *)
Second == {0, 1, 15, 16, 17, 18, 19, 20, 31, 32, 51, 63, 64, 88, 127, 128,
           168, 169, 254, 255}
Third == {0, 2, 99, 100, 101, 113, 255}
Octets == 0..255
Edges4 == {<<a, b, c, d>> : a \in Octets, b \in Second, c \in Third, d \in {1}}
Edges6 == {<<a, b, 0, 0, 0, 0, \h808, \h808>> :
  a \in {1, \h64, \h2000, \h2001, \h2003, \h2606, \hfbff, \hfc00, \hfdff,
         \hfe00, \hfe7f, \hfe80, \hfebf, \hfec0, \hfeff, \hff00, \hffff},
  b \in {0, \hdb7, \hdb8, \hdb9, \hff9b}}
Embeddings(ip) ==
  LET high == ip[1] * 256 + ip[2]  low == ip[3] * 256 + ip[4] IN
  {<<0, 0, 0, 0, 0, \hffff, high, low>>, <<0, 0, 0, 0, 0, 0, high, low>>,
   <<\h64, \hff9b, 0, 0, 0, 0, high, low>>,
   <<\h2002, high, low, 0, 0, 0, 0, 1>>}

(* An address counts as public exactly when it lies in none of the blocks; *)
(* one that carries an IPv4 address, exactly when that one does.           *)
AddressesJudged ==
  /\ \A ip \in Edges4 \cup Edges6 : is_public_ip(ip) <=> OnInternet(ip)
  /\ \A ip \in {<<8, 8, 8, 8>>, <<127, 0, 0, 1>>, <<10, 0, 0, 1>>,
                <<192, 168, 1, 1>>, <<0, 0, 0, 1>>, <<203, 0, 113, 7>>} :
       \A s \in Embeddings(ip) : is_public_ip(s) <=> is_public_ip(ip)

(* A small web: a name, a name whose addresses are partly private, literals *)
(* of both kinds, plain HTTP and a URL without a host.                     *)
Net ==
  LET hosts == {"name", "rebound", "public", "private", ""} IN
  [literal |-> [h \in hosts |-> CASE h = "public" -> {<<8, 8, 8, 8>>}
                                   [] h = "private" -> {<<10, 0, 0, 1>>}
                                   [] OTHER -> {}],
   dns |-> [h \in hosts |-> CASE h = "name" -> {<<8, 8, 4, 4>>}
                               [] h = "rebound" -> {<<8, 8, 4, 4>>, <<127, 0, 0, 1>>}
                               [] OTHER -> {}]]
Url(s, h) == [scheme |-> s, host |-> h]
Moving == {Url("https", "name"), Url("https", "public")}
Still == {Url("https", "rebound"), Url("https", "private"), Url("http", "name"),
          Url("https", "")}
Answers == [kind : {"ok", "lost", "down"}, to : {Url("https", "")}]
             \cup [kind : {"redirect"}, to : Moving \cup Still]
Webs == {[u \in Moving \cup Still |->
            IF u \in Moving THEN w[u] ELSE [kind |-> "ok", to |-> u]] :
         w \in [Moving -> Answers]}
Client(m, test) == [mode |-> m, allow_http |-> test, allow_non_public_ips |-> test]
Clients == {Client("direct", FALSE), Client("direct", TRUE), Client("proxy", FALSE)}

(* Where a client may go: in direct mode to hosts whose addresses are all  *)
(* on the public Internet, through a proxy to any host, over HTTPS.        *)
Permitted(client, net, u) ==
  LET addresses == net.literal[u.host] \cup net.dns[u.host] IN
  /\ u.host /= ""
  /\ u.scheme \in {"https"} \cup (IF client.allow_http THEN {"http"} ELSE {})
  /\ client.mode = "direct" =>
       addresses /= {} /\ (client.allow_non_public_ips \/ \A ip \in addresses : OnInternet(ip))

(* get() sends requests to permitted URLs only, however it is redirected,  *)
(* and returns a response exactly when one is MaxRedirects redirects away  *)
(* or less, through permitted URLs.                                        *)
Confined(client, net, web, start) ==
  LET hop[n \in 0..MaxRedirects] ==
        IF n = 0 THEN start
        ELSE IF web[hop[n - 1]].kind = "redirect" THEN web[hop[n - 1]].to ELSE hop[n - 1]
      result == get(client, net, web, start)
  IN /\ \A u \in result.sent : Permitted(client, net, u)
     /\ result.outcome = "response" <=>
          /\ \A n \in 0..MaxRedirects : Permitted(client, net, hop[n])
          /\ web[hop[MaxRedirects]].kind = "ok"

RedirectsFollowed ==
  \A client \in Clients, web \in Webs, start \in Moving \cup Still :
    Confined(client, Net, web, start)
=============================================================================
