\* A crowd: two openers race for two sources of different fabrics, one of them
\* broken, while cached files are removed.  Turns: one open at a time of a
\* source whose artifacts are overwritten in place one by one.  Crashes at every
\* point of either.
SPECIFICATION BoundedSpec
CONSTANTS
  o1 = o1  o2 = o2  s1 = s1  s2 = s2  d1 = d1  d2 = d2
  Absent = Absent  Torn = Torn  NoMeta = NoMeta
  Openers <- TwoOpeners
  Sources <- TwoSources
  Dirs <- TwoDirs
  CacheKey <- OwnKey
  MaxVersion = 2
  Published = {"manifest", "graph", "catchments", "snap"}
  Evictable = {"graph", "sidecar"}
  Tagless = {"manifest"}
  Valid <- FirstSound
SYMMETRY OpenerSymmetry
INVARIANTS SkipIsEarned ServesOwnSource TokensFailClosed IndexCommits
PROPERTIES IndexedPairFrozen
