SPECIFICATION Spec
CONSTANTS
  MAX_DATOS = 4
  MAX_INT = 127
  Longitudes = {0, 1, 3, 4, 5, 7, 8, 9, 11, 12, 13, 40, 63, 64, 65, 126, 127}
CHECK_DEADLOCK FALSE
INVARIANTS
  TypeOK
  CopiaDentro
  EnvioCompleto
