CONSTANTS
  File = {1, 2, 3}
  Workers = {w1, w2}
  MaxChanges = 5
  Place = {1, 2}
  Position = {0, 2}
  Name = {n1}
  NoName = NoName
  GeoName <- MCGeoName
  UserDate = {12}
  FileExif <- MCFileExif
  ImportedAt <- MCImportedAt
  CreatedAt <- MCCreatedAt
  SourceYears <- MCSourceYears
  Scripts = {s1, s2}
  Tag = {t1, t2}
  TagName = {n1, n2}
  Canonical = {c1, c2}
  NoTag = NoTag
  RuleOf <- MCRuleOf
  Field = {"country", "camera"}
  Patchable = {"country"}
  Value = {v1, v2}
  NoValue = NoValue
  Media <- MCMedia
  Says <- MCSays
  v1 = v1
  v2 = v2
  t1 = t1
  t2 = t2
  n1 = n1
  n2 = n2
  c1 = c1
  c2 = c2
  korea = korea
  seoul = seoul
  park = park
  Label = {korea, seoul, park}
  NoLabel = NoLabel
  Blank = Blank
  RawLocation <- MCRawLocation
  PlaceLocation <- MCPlaceLocation
  Limit = 1
  Today = 41
SYMMETRY LibrarySymmetry
SPECIFICATION MCSpec
INVARIANTS ReferencesLive UserDecisionStands ProjectionCoherent SourceYearOnce DeletedTagsUnused UserValueStands AssetsMatchRows PagesExact OpensAsCounted ReadersAgree
PROPERTIES  RevisionGrows
CHECK_DEADLOCK FALSE
