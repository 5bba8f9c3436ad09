SPECIFICATION Spec
CONSTANTS
  None = None
  Corrupt = Corrupt
  Entries <- Listable
  MaxEntries = 2
  Builtin <- MCBuiltin
  Alias <- MCAlias
  Custom = {"xpath"}
  Locales <- MCLocales
  LanguageCodes <- MCLanguageCodes
  EngineTraits = {"weather", "hackernews"}
  KNOWN_CATEGORIES = {"general", "it"}
  Bangs = {"g"}
  MaxDuration = 10
  Configurations <- MCConfigurations
  SavedForms <- MCSavedForms
  SearchForms <- MCSearchForms
  NativeForms <- MCNativeForms
  Detected = {None, "deu"}
INVARIANT AskedOnce
CHECK_DEADLOCK FALSE
