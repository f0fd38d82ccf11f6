CONSTANTS
  Threads = {t1, t2}
  CallerSets = {{t1}, {t1, t2}}
  Uris = {u1}
  Texts = {x}
  Empty = Empty
  MaxFlags = 4
SPECIFICATION Spec
INVARIANTS
  NoSpuriousCancel
  MapsAgree
