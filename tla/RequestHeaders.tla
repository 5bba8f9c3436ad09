--------------------------- MODULE RequestHeaders ---------------------------
(***************************************************************************)
(* The header heuristics of zoeken-botdetect/src/heuristics.rs.  A header  *)
(* is what the checks tell apart: absent, or the class of its value.       *)
(***************************************************************************)
EXTENDS Naturals

HeaderView ==
  [accept: {"none", "html", "json", "any", "other"},
   accept_encoding: {"none", "gzip", "deflate", "other"},
   accept_language: {"none", "blank", "set"},
   connection: {"none", "close", "other"},
   user_agent: {"none", "blank", "bot", "browser", "old_browser", "other"},
   sec_fetch_mode: {"none", "navigate", "cors", "same-origin", "other"},
   is_secure: BOOLEAN]

HeaderHeuristics == {"accept", "accept_encoding", "accept_language", "connection",
                     "user_agent", "sec_fetch"}

check_accept(v) == v.accept \in {"html", "json", "any"}
check_accept_encoding(v) == v.accept_encoding \in {"gzip", "deflate"}
check_accept_language(v) == v.accept_language = "set"
check_connection(v) == v.connection # "close"

(* is_bot_user_agent: an exact value, a known prefix or a known substring. *)
is_bot_user_agent(ua) == ua = "bot"

check_user_agent(v) ==
  v.user_agent \notin {"none", "blank"} /\ ~is_bot_user_agent(v.user_agent)

(* Versions of Chrome, Firefox and Safari that always send Sec-Fetch-*. *)
is_browser_supported(ua) == ua = "browser"

(* Mutant of check_sec_fetch: only navigations are accepted. *)
CheckSecFetchNavigate(v) ==
  \/ ~v.is_secure
  \/ ~is_browser_supported(v.user_agent)
  \/ v.sec_fetch_mode = "navigate"

check_sec_fetch(v) ==
  \/ ~v.is_secure
  \/ ~is_browser_supported(v.user_agent)
  \/ v.sec_fetch_mode \in {"navigate", "cors", "same-origin"}

(* evaluate: every enabled check must pass; which failed first is only in the *)
(* text of the answer.                                                        *)
HeadersPass(v, enabled) ==
  /\ "accept" \in enabled => check_accept(v)
  /\ "accept_encoding" \in enabled => check_accept_encoding(v)
  /\ "accept_language" \in enabled => check_accept_language(v)
  /\ "connection" \in enabled => check_connection(v)
  /\ "user_agent" \in enabled => check_user_agent(v)
  /\ "sec_fetch" \in enabled => check_sec_fetch(v)
=============================================================================
