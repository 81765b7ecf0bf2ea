SPECIFICATION Spec
CONSTANTS
  INICIO = 1
  FIN = 26
  H = 2
  Tams = {2, 3, 5, 25}
INVARIANTS
  TypeOK
  CadenaSana
  LibresJuntos
  BusquedaCompleta
PROPERTIES
  ImplementaMonton
