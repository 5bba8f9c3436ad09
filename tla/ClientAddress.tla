---------------------------- MODULE ClientAddress ----------------------------
(***************************************************************************)
(* derive_client_ip (zoeken-botdetect/src/client_ip.rs) at the end of a    *)
(* chain of reverse proxies.  A client sends a request with any header it  *)
(* likes; every proxy on the way appends the address it was called from to *)
(* X-Forwarded-For and sets X-Real-IP to it; the server sees the last hop  *)
(* as its TCP peer.  Proxies are not part of the repository: they do what  *)
(* docs/deployment.md asks of them.  A route is what such a request is     *)
(* when it arrives; BotDetect takes its clients from all the routes.       *)
(***************************************************************************)
EXTENDS Sequences, SequencesExt, FiniteSets, Naturals

CONSTANTS Clients,   \* the addresses that send requests
          Addrs,     \* addresses; Mapped[a] is the IPv6 form some hops report
          Mapped,    \* [Addrs -> Addrs]: normalize, the identity on IPv4
          Trusted,   \* trusted_proxies, after normalisation
          Garbage,   \* a token of the header that is no address
          None,
          MaxTyped,  \* tokens the client itself puts into the header
          MaxHops

ASSUME AddressAssumption ==
  /\ Mapped \in [Addrs -> Addrs] /\ \A a \in Addrs : Mapped[Mapped[a]] = Mapped[a]
  /\ Clients \subseteq Addrs /\ Trusted \subseteq {Mapped[a] : a \in Addrs} /\ Garbage \notin Addrs
  /\ MaxTyped \in Nat /\ MaxHops \in Nat

normalize(a) == Mapped[a]

(* One token that is no address makes the whole header count as absent. *)
parse_forwarded_for(h) ==
  IF Garbage \in ToSet(h) THEN <<>> ELSE [i \in DOMAIN h |-> normalize(h[i])]

(* Mutant of trusted_remote_addr: the chain is read from the client's side. *)
FirstUntrusted(chain) ==
  LET untrusted == {i \in DOMAIN chain : chain[i] \notin Trusted}
  IN IF untrusted = {} THEN chain[1]
     ELSE chain[CHOOSE i \in untrusted : \A j \in untrusted : i <= j]

(* The last address that is not a trusted proxy, or the first of all. *)
trusted_remote_addr(chain) ==
  LET untrusted == {i \in DOMAIN chain : chain[i] \notin Trusted}
  IN IF untrusted = {} THEN chain[1]
     ELSE chain[CHOOSE i \in untrusted : \A j \in untrusted : j <= i]

peer_is_trusted(peer) == peer # None /\ normalize(peer) \in Trusted

derive_client_ip(peer, chain, real) ==
  IF peer_is_trusted(peer) /\ chain # <<>> THEN normalize(trusted_remote_addr(chain))
  ELSE IF peer_is_trusted(peer) /\ real # None THEN normalize(real)
  ELSE IF peer = None THEN None ELSE normalize(peer)

(* What the client itself sends, before any proxy has seen it. *)
Departures ==
  [client: Clients, sender: Clients, header: SeqOf(Addrs \cup {Garbage}, MaxTyped),
   real_ip: Addrs \cup {None}]

(* A proxy passes the request on. *)
Forward(route, p) ==
  [route EXCEPT !.header = Append(@, route.sender), !.real_ip = route.sender, !.sender = p]

(* All requests that come directly or over a chain of proxies: Relayed[h] are *)
(* those that at most h proxies passed on.                                    *)
Proxies == {a \in Addrs : Mapped[a] \in Trusted}

Relayed[h \in 0..MaxHops] ==
  IF h = 0 THEN {t \in Departures : t.sender = t.client}
  ELSE LET nearer == Relayed[h - 1]
       IN nearer \cup {Forward(t, p) : t \in nearer, p \in Proxies}

Routes == Relayed[MaxHops]

(* extract_features: the server derives the address from peer and headers. *)
Derived(route) == derive_client_ip(route.sender, parse_forwarded_for(route.header), route.real_ip)

(* What the server takes for the sender, and what it should: the client, or   *)
(* the address the last proxy reports if the client spoilt the header.        *)
Arrivals ==
  {[address |-> Derived(t),
    own |-> normalize(IF Garbage \in ToSet(t.header) /\ t.sender # t.client THEN t.real_ip ELSE t.client)] :
     t \in Routes}
=============================================================================
