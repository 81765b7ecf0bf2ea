SPECIFICATION SpecViva
CONSTANTS
  i1 = i1
  i2 = i2
  d1 = d1
  d2 = d2
  d3 = d3
  a1 = a1
  a2 = a2
  Daemons = {d1}
  Apps = {a1}
  Inodos = {i1}
  SinFichero = SinFichero
  Ids <- IdsMC
  Nadie = Nadie
  Fallos = {}
  Matables = {}
  Operador = FALSE
  MAX_ENTRADAS = 2
CHECK_DEADLOCK FALSE
PROPERTY
  GetFdVuelve
