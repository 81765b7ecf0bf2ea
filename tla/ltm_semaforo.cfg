SPECIFICATION Spec
CONSTANTS
  n1 = n1
  n2 = n2
  a1 = a1
  a2 = a2
  b1 = b1
  IPNula = IPNula
  Nadie = Nadie
  Nodos = {n1, n2}
  Apps = {a1, b1}
  NodoDe <- NodoDeMC
  NUM_MAX_CXs = 2
  NUM_BUF_PKTS = 1
  MAX_HEAP = 3
  Destinos <- DestinosMC
  Origenes <- OrigenesMC
  Escuchas <- EscuchasMC
  Remotas <- RemotasMC
  PuertosLibres = {2, 3}
  MAX_LLAMADAS <- DosCadaUna
  MAX_TROZOS = 2
  IdsAjenas = FALSE
  Pierde = FALSE
  MAX_COPIAS = 0
  Mueren = {}
  SalidasPropio = {"sigue"}
  SalidasAjeno = {"sigue"}
  SalidasIndice = {"cuelga"}
CHECK_DEADLOCK FALSE
INVARIANT SemaforoLiberado
