SPECIFICATION Spec
CONSTANTS
  n1 = n1
  n2 = n2
  a1 = a1
  a2 = a2
  b1 = b1
  IPNula = IPNula
  Nadie = Nadie
  Nodos = {n1, n2}
  Apps = {a1, a2, b1}
  NodoDe <- NodoDeMC
  NUM_MAX_CXs = 2
  NUM_BUF_PKTS = 1
  MAX_HEAP = 3
  Destinos <- DestinosTodos
  Origenes <- OrigenesMC
  Escuchas <- EscuchasMC
  Remotas <- RemotasTres
  PuertosLibres = {2, 3}
  MAX_LLAMADAS <- DosMenosA2
  MAX_TROZOS = 2
  IdsAjenas = FALSE
  Pierde = TRUE
  MAX_COPIAS = 1
  Mueren = {}
  SalidasPropio = {"sigue"}
  SalidasAjeno = {"segv"}
  SalidasIndice = {"segv"}
CHECK_DEADLOCK FALSE
INVARIANTS
  TypeOK
  RotaPorCopia
  OcupacionContada
  PuertosUnicos
  SemaforoDeQuienEnvia
  UnaLlamadaPorBarrera
  ParesSimetricos
  TXAcotada
  BuffersConservados
PROPERTIES
  VueltaEstablecida
  DuplicadaPresente
  ImplementaSesion
  BarreraDemonioApp
