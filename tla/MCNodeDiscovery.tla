-------------------------- MODULE MCNodeDiscovery ---------------------------
(* Small instances of NodeDiscovery for TLC.                               *)
EXTENDS NodeDiscovery, TLC

CONSTANTS t1, t2, t3, h1, h2, h3

Node(default, domain, balancer, ip) ==
  [is_default_node |-> default, url |-> Blank,
   address |-> "custom_domain_name" :> domain @@ "load_balancer" :> balancer
               @@ "public_ip" :> ip]

\* The default after another node, with its own domain.
Second == <<Node(FALSE, h1, Absent, Absent), Node(TRUE, h2, Blank, h3)>>

\* The default before another node, without a domain but with the key.
First == <<Node(TRUE, Blank, h3, Absent), Node(FALSE, h1, Blank, h2)>>

\* No default, and the first record leaves the key of the domain out.
Unmarked == <<Node(FALSE, Absent, Absent, h2), Node(FALSE, h1, Absent, h3)>>

\* A default node that has no address yet but in `url`.
Unready == <<[Node(TRUE, Blank, Blank, Blank) EXCEPT !.url = h2]>>

ManyListings == {Second, First, Unmarked, Unready, <<>>}
=============================================================================
