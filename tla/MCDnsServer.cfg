CONSTANTS
  h1 = h1
  h2 = h2
  d1 = d1
  d2 = d2
  None = None
  Local = Local
  Handlers <- MCHandlers
  Domains <- MCDomains
  InitPac <- MCInitPac
  Cname <- MCCname
  TTLs <- MCTTLs
  MaxTime <- MCMaxTime
SPECIFICATION Spec
INVARIANT OneReplyPerQuery
INVARIANT RepliedAnswerRouted
