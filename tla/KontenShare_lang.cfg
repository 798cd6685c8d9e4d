\* A leader and a follower with different languages.
SPECIFICATION Spec
CONSTANTS
  Clients = {c1, c2}
  Sections = 1
  LangOf <- TwoLangs
  Arabic = Arabic
  None = None
  NotFound = NotFound
  Failed = Failed
  c1 = c1  c2 = c2  c3 = c3  id = id  en = en
INVARIANT AnswersRequestedLanguage
