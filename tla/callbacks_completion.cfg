CONSTANTS
  Agents = {a1}
  Calls = {c1}
  Kinds = {"exec"}
SPECIFICATION FairSpec
PROPERTY NotifiedOfCompletion
