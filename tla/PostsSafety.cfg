SPECIFICATION Spec
CONSTANTS
  Rows = {1, 2}
  notes = notes
  shouted = shouted
  other = other
  Titles = {notes, shouted, other}
  Slug <- SharedSlug
  Statuses = {draft, published}
  Requests = {r1, r2}
  Busy = {1}
  MaxReads = 1
  None = None
SYMMETRY Symmetric
INVARIANTS ViewsNeverAhead SlugFollowsTitle ConflictOnlyWithDeleted
PROPERTY EditsWriteTheirColumns
