\* Two workers and the plugin thread changing two records, with kills.
SPECIFICATION Spec
CONSTANTS
  None = None
  Torn = Torn
  Keys = {k1, k2}
  Versions = {v1, v2}
  Workers = {w1, w2}
SYMMETRY Symmetry
INVARIANTS
  TypeOK
  DurableWhenAlone
  OverlapsLoseNothing
