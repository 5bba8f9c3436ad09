--------------------------- MODULE EngineRegistry ---------------------------
(***************************************************************************)
(* Which engines a search asks: registry_from_settings (zoeken-engines,    *)
(* registry.rs) builds the registry from the entries of settings.engines,  *)
(* one after the other; EngineRegistry::select (zoeken-search,             *)
(* selection.rs) picks from it for a query.                                *)
(***************************************************************************)
EXTENDS QueryParsing, FiniteSets

CONSTANTS Entries,     \* what an operator may list
          MaxEntries,
          Builtin,     \* [names of the implementations -> their EngineMeta, and if disabled]
          Alias,       \* [ids engine_from_settings knows -> names of implementations]
          Custom       \* ids of the generic engines, which are named by their entry

(* settings::EngineSettings: what is left out there is None, {} or FALSE here. *)
EngineSettings ==
  [name: STRING, engine: {None} \cup STRING, disabled: BOOLEAN, inactive: BOOLEAN,
   tokens: SUBSET STRING, shortcut: SUBSET STRING, categories: {None} \cup SUBSET STRING,
   valid: BOOLEAN]

Key(cfg) == IF cfg.engine = None THEN cfg.name ELSE cfg.engine

ASSUME RegistryAssumption ==
  /\ Entries \subseteq EngineSettings
  /\ IsFiniteSet(DOMAIN Builtin) /\ DOMAIN Builtin \subseteq STRING
  /\ \A n \in DOMAIN Builtin : Builtin[n].disabled \in BOOLEAN
  /\ Alias \in [DOMAIN Alias -> DOMAIN Builtin]
  /\ \A n \in DOMAIN Builtin : n \in DOMAIN Alias /\ Alias[n] = n
  /\ MaxEntries \in Nat
  /\ \A ids \in SUBSET {Key(e) : e \in Entries} : ids # None

VARIABLES mode, entries,
          next,        \* the entry that is read next
          registered   \* EngineRegistry::engines

registryVars == <<mode, entries, next, registered>>

(* RegisteredEngine::new of an implementation. *)
New(name) ==
  [name |-> name, disabled |-> FALSE, tokens |-> {}, shortcuts |-> {}, categories |-> None]

(* The catalogue, in order; most of it is disabled. *)
default_engines ==
  LET order == SetToSeq(DOMAIN Builtin)
  IN [i \in DOMAIN order |-> [New(order[i]) EXCEPT !.disabled = Builtin[order[i]].disabled]]

(* An id that is unknown, or whose configuration is not valid, has no engine. *)
engine_from_settings(cfg) ==
  IF Key(cfg) \in DOMAIN Alias THEN New(Alias[Key(cfg)])
  ELSE IF Key(cfg) \in Custom /\ cfg.valid THEN New(cfg.name)
  ELSE None

(* Mutant of apply_engine_settings: inactive engines are registered as active. *)
ApplyIgnoresInactive(re, cfg) ==
  [re EXCEPT !.disabled = @ \/ cfg.disabled, !.tokens = cfg.tokens,
             !.shortcuts = @ \cup cfg.shortcut, !.categories = cfg.categories]

apply_engine_settings(re, cfg) ==
  [re EXCEPT !.disabled = @ \/ cfg.disabled \/ cfg.inactive,
             !.tokens = IF cfg.tokens = {} THEN @ ELSE cfg.tokens,
             !.shortcuts = @ \cup cfg.shortcut,
             !.categories = IF cfg.categories = None THEN @ ELSE cfg.categories]

registry_replace(cfg) ==
  LET re == engine_from_settings(cfg)
  IN IF re = None THEN registered ELSE Append(registered, apply_engine_settings(re, cfg))

(* Mutant of registry_merge: a listed engine is added, not put in its place. *)
RegistryMergeAppends(cfg) ==
  LET re == engine_from_settings(cfg)
  IN IF re = None THEN registered ELSE Append(registered, apply_engine_settings(re, cfg))

(* The place of the first engine with one of these names, 0 if there is none. *)
position(names) == SelectInSeq(registered, LAMBDA re : re.name \in names)

(* The first engine called like the entry, or like its id, is replaced.  An   *)
(* id that is an alias is compared as it is written, and so is not found.     *)
registry_merge(cfg) ==
  LET re == engine_from_settings(cfg)
      existing == position({Key(cfg), cfg.name})
  IN IF existing > 0
     THEN [registered EXCEPT ![existing] =
             apply_engine_settings(IF re = None THEN @ ELSE re, cfg)]
     ELSE IF re = None THEN registered
     ELSE Append(registered, apply_engine_settings(re, cfg))

RegistryInit ==
  /\ mode \in {"Replace", "Merge"}
  /\ entries \in SeqOf(Entries, MaxEntries)
  /\ next = 1
  /\ registered = IF entries = <<>> \/ mode = "Merge" THEN default_engines ELSE <<>>

ReadEntry ==
  /\ next <= Len(entries)
  /\ registered' = IF mode = "Replace" THEN registry_replace(entries[next])
                   ELSE registry_merge(entries[next])
  /\ next' = next + 1
  /\ UNCHANGED <<mode, entries>>

-----------------------------------------------------------------------------
(* The engine's own metadata; that of a generic engine whose entry sets no    *)
(* options.                                                                   *)
metadata(name) ==
  IF name \in DOMAIN Builtin THEN Builtin[name]
  ELSE [categories |-> {"general"}, shortcut |-> {}, paging |-> FALSE, max_page |-> 0,
        time_range_support |-> FALSE, safesearch |-> FALSE, language_support |-> FALSE]

bang_match(re, engines) ==
  engines = {} \/ engines \cap ({re.name} \cup re.shortcuts \cup metadata(re.name).shortcut) # {}

category_match(re, categories) ==
  \/ categories = {}
  \/ categories \cap (IF re.categories = None THEN metadata(re.name).categories
                      ELSE re.categories) # {}

has_required_tokens(re, tokens) == re.tokens \subseteq tokens

is_eligible(re, q, enabled, tokens) ==
  LET meta == metadata(re.name) IN
  /\ re.disabled => q.engines # {} /\ bang_match(re, q.engines)
  /\ has_required_tokens(re, tokens)
  /\ q.pageno > 1 => meta.paging /\ (meta.max_page > 0 => q.pageno <= meta.max_page)
  /\ q.time_range # None => meta.time_range_support
  /\ q.safesearch # 0 => meta.safesearch
  /\ meta.language_support \/ q.locale \in {"all", "auto"}
  /\ category_match(re, q.categories) /\ bang_match(re, q.engines)
  /\ enabled = None \/ re.name \in enabled

(* The places of the engines a search asks. *)
select(q, enabled, tokens) ==
  {i \in DOMAIN registered : is_eligible(registered[i], q, enabled, tokens)}
=============================================================================
