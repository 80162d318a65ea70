SPECIFICATION UploadSpec
CONSTANTS
  c1 = c1  c2 = c2  h1 = h1  h2 = h2
  Nothing = Nothing
  Clips = {1, 2}
  Commands = {c1, c2}
  Handlers = {h1, h2}
  MaxSent = 3
  MaxDrafts = 4
  MaxMishaps = 1
INVARIANTS UploadTypeOK OneDraft EveryVideoAccountedFor
SYMMETRY Alike
VIEW Relevant
