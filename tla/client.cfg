CONSTANTS
  d1 = d1
  d2 = d2
  c1 = c1
  Daemon = {d1, d2}
  Caller = {c1}
  Nobody = nobody
  NoRpc = no_rpc
  NoWorld = no_world
  NoResponse = no_response
  Numeral <- MCNumeral
  value_of <- MCvalue_of
  number_text <- MCnumber_text
  AnyCase <- MCAnyCase
  Env <- MCEnv
  Rpc <- MCRpc
  Asks <- MCAsks
  Worlds <- MCWorlds
SPECIFICATION Spec
INVARIANTS
  TypeOK
  SocketIsServed
  StopIsTrue
  AnswersMatch

  
