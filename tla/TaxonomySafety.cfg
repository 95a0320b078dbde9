SPECIFICATION Spec
CONSTANTS
  Cats = {c1, c2}
  Tags = {t1}
  Names = {n1, n2, n3}
  News = {n1, n2}
  Slug <- SlugOf
  Posts = {p1}
  Requests = {r1, r2}
  None = None
  Gone = Gone
SYMMETRY Symmetric
INVARIANTS TypeOK ReferencesExist ConflictOnlyWhenTaken
PROPERTIES CategoryKept TagsReplaced
