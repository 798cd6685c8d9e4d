\* Three clients of a page of two sections, two of them with lang.
SPECIFICATION Spec
CONSTANTS
  Clients = {c1, c2, c3}
  Sections = 2
  LangOf <- ThreeLangs
  Arabic = Arabic
  None = None
  NotFound = NotFound
  Failed = Failed
  c1 = c1  c2 = c2  c3 = c3  id = id  en = en
INVARIANTS TypeOK CacheKeepsOriginal SoloAnswersOwnLanguage
