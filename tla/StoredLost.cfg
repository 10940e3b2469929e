SPECIFICATION Spec
CONSTANTS
  ann = ann
  bob = bob
  slash = slash
  dash = dash
  other = other
  short = short
  n1 = n1
  n2 = n2
  thin = thin
  rich = rich
  Torn = Torn
  Mixed = Mixed
  NoFile = NoFile
  NoUrl = NoUrl
  Chats = {ann, bob}
  Urls = {slash, dash, other, short}
  Short = {short}
  Names = {n1, n2}
  SafeName <- MCSafeName
  Pages = {thin, rich}
  Queries = {"q"}
  Score <- MCScore
PROPERTY StoredStays
