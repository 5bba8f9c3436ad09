----------------------------- MODULE MCBotDetect -----------------------------
(* Searches of two clients, directly and over two proxies, with and without  *)
(* the link token.                                                           *)
EXTENDS BotDetect, TLC

CONSTANTS alice, alice6, bob, p1, p2

MCMapped == (alice6 :> alice) @@ [a \in {alice, bob, p1, p2} |-> a]

Browser == [accept |-> "html", accept_encoding |-> "gzip", accept_language |-> "set",
            connection |-> "none", user_agent |-> "browser",
            sec_fetch_mode |-> "navigate", is_secure |-> TRUE]

Search(token) ==
  [path |-> "metered", passed |-> FALSE, blocked |-> FALSE,
   link_local |-> FALSE, token |-> token, headers |-> Browser]

MCConfig == [enabled |-> TRUE, link_token |-> TRUE, filter_link_local |-> FALSE,
             heuristics |-> HeaderHeuristics]

(* Every early return, both verdicts of the heuristics, a link-local bot. *)
Mixed ==
  {Search(FALSE),
   [Search(TRUE) EXCEPT !.headers.accept = "json", !.headers.sec_fetch_mode = "same-origin"],
   [Search(FALSE) EXCEPT !.path = "probe"],
   [Search(FALSE) EXCEPT !.path = "other"],
   [Search(FALSE) EXCEPT !.blocked = TRUE],
   [Search(FALSE) EXCEPT !.link_local = TRUE, !.headers.user_agent = "bot"]}

RequestSymmetry == Permutations(Requests)
=============================================================================
