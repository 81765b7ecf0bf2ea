SPECIFICATION Spec
CONSTANTS
  i1 = i1
  i2 = i2
  d1 = d1
  d2 = d2
  d3 = d3
  a1 = a1
  a2 = a2
  Daemons = {d1, d2, d3}
  Apps = {a1}
  Inodos = {i1, i2}
  SinFichero = SinFichero
  Ids <- IdsMC
  Nadie = Nadie
  Fallos = {"shmget", "shmat", "exec", "red", "protocolo"}
  Matables = {d1, d2, d3}
  Operador = TRUE
  MAX_ENTRADAS = 1
SYMMETRY SimetriaMC
CHECK_DEADLOCK FALSE
INVARIANTS
  TypeOK
  SirveAlcanzable
  UnSoloServidor
  LimpiezaCompleta
  RestoConCausa
PROPERTIES
  FicheroDeSuDueno
