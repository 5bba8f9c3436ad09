----------------------------- MODULE ImageProxy -----------------------------
(***************************************************************************)
(* GET /image_proxy (zoeken-server/src/image_proxy.rs) over the outbound   *)
(* policy of zoeken-favicons (proxy.rs, safe_outbound.rs).                 *)
(*                                                                         *)
(* A caller is one image_proxy_get.  Its load walks the redirects of the   *)
(* image: it checks an address ("loading"), sends the request ("sending")  *)
(* and, unless that redirects, reads the body ("reading").                 *)
(***************************************************************************)
EXTENDS SharedLoad, Integers

CONSTANTS MAX_REDIRECT_HOPS,
          MaxImageBytes,      \* DEFAULT_MAX_IMAGE_BYTES
          IMAGE_CACHE_TTL

ASSUME ImageAssumption ==
  MAX_REDIRECT_HOPS \in Nat /\ MaxImageBytes \in Nat \ {0} /\ IMAGE_CACHE_TTL \in Nat

VARIABLE hops  \* hops[c]: the redirects c's load has followed

-----------------------------------------------------------------------------
(* Addresses, as the policy tells them apart. *)
Addresses == {"public", "loopback", "private", "link_local", "unspecified", "broadcast",
              "cgnat", "unique_local", "mapped_private"}

is_blocked_ip(ip) == ip # "public"

Hosts == [literal: {TRUE}, ip: Addresses] \cup
         [literal: {FALSE}, name: {"missing", "empty", "localhost", "internal", "local", "other"}]

is_blocked_host(host) ==
  IF host.literal THEN is_blocked_ip(host.ip) ELSE host.name # "other"

Urls == [scheme: {"unparsable", "http", "https", "other"}, host: Hosts]

validate_proxy_url(url) == url.scheme \in {"http", "https"} /\ ~is_blocked_host(url.host)

(* A host that is a name is looked up; no answer and an address that is not *)
(* allowed refuse it alike.                                                 *)
validate_resolved_url(url, found) ==
  /\ validate_proxy_url(url)
  /\ \/ url.host.literal
     \/ found # {} /\ \A ip \in found : ~is_blocked_ip(ip)

-----------------------------------------------------------------------------
(* What the upstream answers in the end; declared is -1 without a length. *)
Bodies == [status: {200, 304, 404}, type: {"none", "blank", "image", "octets", "page"},
           declared: -1..(MaxImageBytes + 1), bytes: 0..(MaxImageBytes + 1)]

(* The body is read up to the limit, and a declared length beyond it is *)
(* believed.                                                            *)
read_capped(b) == b.declared <= MaxImageBytes /\ b.bytes <= MaxImageBytes

content_type_allowed(type) == type \in {"image", "octets"}

image_proxy_decision(b) ==
  /\ (IF b.declared >= 0 THEN b.declared ELSE b.bytes) <= MaxImageBytes
  /\ b.type # "none"
  /\ content_type_allowed(b.type)

(* What image_proxy_get makes of a body. *)
Proxiable(b) == b.status = 200 /\ image_proxy_decision(b)

(* CachedImageFetcher keeps a body of status 200 that is not empty; whether *)
(* it is an image is asked each time it is served.                          *)
ImageKind(b) == IF b.status = 200 /\ b.bytes > 0 THEN "kept" ELSE "uncached"

ImageClass(b) == IF Proxiable(b) THEN "image" ELSE "page"

ImageLoads ==
  {[kind |-> ImageKind(b), class |-> ImageClass(b)] : b \in {q \in Bodies : read_capped(q)}}
  \cup {[kind |-> "failed", class |-> "page"]}

-----------------------------------------------------------------------------
(* image_proxy_enabled, the parameters url and h, and validate_proxy_url. *)
ProxyRequests == [enabled: BOOLEAN, signed: BOOLEAN, given: BOOLEAN, url: Urls]

Admitted(r) == r.enabled /\ r.given /\ r.signed /\ validate_proxy_url(r.url)

ImageRequest(c) ==
  /\ phase[c] = "new"
  /\ \/ (\E r \in ProxyRequests : Admitted(r)) /\ BeginAsking(c)
     \/ (\E r \in ProxyRequests : ~Admitted(r)) /\ Goto(c, "done") /\ UNCHANGED before
  /\ UNCHANGED <<loadUnchanged, loaded, answer, hops>>

EndImageLoad(c, load) ==
  /\ Settle(c, load.kind, load.class)
  /\ loaded' = [loaded EXCEPT ![c] = load]
  /\ hops' = [hops EXCEPT ![c] = 0]
  /\ UNCHANGED <<seconds, answer, before>>

ImageLoadFails(c) == EndImageLoad(c, [kind |-> "failed", class |-> "page"])

(* validate_resolved_url at the top of the loop. *)
ValidateHop(c) ==
  /\ phase[c] = "loading"
  /\ \/ /\ \E url \in Urls, found \in {{}, {"public"}, {"public", "private"}} :
             validate_resolved_url(url, found)
        /\ Goto(c, "sending")
        /\ UNCHANGED <<loadUnchanged, loaded, answer, before, hops>>
     \/ ImageLoadFails(c)

(* Mutant of FollowRedirect: the loop has no end. *)
FollowRedirectForever(c) ==
  /\ phase[c] = "sending"
  /\ Goto(c, "loading")
  /\ UNCHANGED <<loadUnchanged, loaded, answer, before, hops>>

(* A redirect with a Location: 0..=max_hops requests are sent in all. *)
FollowRedirect(c) ==
  /\ phase[c] = "sending"
  /\ IF hops[c] < MAX_REDIRECT_HOPS
     THEN /\ Goto(c, "loading")
          /\ hops' = [hops EXCEPT ![c] = @ + 1]
          /\ UNCHANGED <<loadUnchanged, loaded, answer, before>>
     ELSE ImageLoadFails(c)

(* Headers of another answer, or of a redirect that leads nowhere; or the *)
(* request fails, or its Location cannot be joined.                       *)
ImageHeaders(c) ==
  /\ phase[c] = "sending"
  /\ \/ Goto(c, "reading") /\ UNCHANGED <<loadUnchanged, loaded, answer, before, hops>>
     \/ ImageLoadFails(c)

ImageBody(c) ==
  /\ phase[c] = "reading"
  /\ \E load \in ImageLoads : EndImageLoad(c, load)

(* The rest of image_proxy_get: 304 for a matching If-None-Match and 200 *)
(* are both ok here.                                                     *)
ImageReply(c) ==
  /\ phase[c] = "answered"
  /\ Goto(c, "done")
  /\ answer' = [answer EXCEPT ![c] =
       [ok |-> got[c].kind # "failed" /\ got[c].class = "image", timed |-> FALSE]]
  /\ Forget(c)
  /\ UNCHANGED <<loadUnchanged, loaded, hops>>

ImageStep(c) ==
  \/ ImageRequest(c) \/ ValidateHop(c) \/ FollowRedirect(c) \/ ImageHeaders(c)
  \/ ImageBody(c) \/ ImageReply(c)
=============================================================================
