\* One source, one opener, the graph and rows overwritten in place, and the
\* cached graph removed between opens.
SPECIFICATION AnySpec
CONSTANTS
  o1 = o1  o2 = o2  s1 = s1  s2 = s2  d1 = d1  d2 = d2
  Absent = Absent  Torn = Torn  NoMeta = NoMeta
  Openers <- OneOpener
  Sources <- OneSource
  Dirs <- OneDir
  CacheKey <- SharedKey
  MaxVersion = 2
  Published = {"graph"}
  Evictable = {"graph"}
  Tagless = {}
  Valid <- SameUpload
INVARIANTS TokenNamesScanned
