SPECIFICATION Spec
CONSTANTS
  n1 = n1
  n2 = n2
  a1 = a1
  a2 = a2
  b1 = b1
  IPNula = IPNula
  Nadie = Nadie
  Nodos = {n1, n2}
  Apps = {a1, a2, b1}
  NodoDe <- NodoDeMC
  NUM_MAX_CXs = 2
  NUM_BUF_PKTS = 1
  MAX_HEAP = 3
  Destinos <- DestinosMC
  Origenes <- OrigenesMC
  Escuchas <- EscuchasMC
  Remotas <- RemotasMC
  PuertosLibres = {2}
  MAX_LLAMADAS <- DosDeA1
  MAX_TROZOS = 2
  IdsAjenas = TRUE
  Pierde = FALSE
  MAX_COPIAS = 0
  Mueren = {}
  SalidasPropio = {"sigue"}
  SalidasAjeno = {"segv"}
  SalidasIndice = {"segv"}
CHECK_DEADLOCK FALSE
PROPERTY BarreraDemonioApp
