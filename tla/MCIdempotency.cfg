SPECIFICATION FairSpec
CONSTANTS
  send = send
  resend = resend
  k1 = k1
  Intents = {send, resend}
  Keys = {k1}
  KeyOfIntent <- MCKeyOf
  PrintOfIntent <- MCPrintOf
  MaxAttempts = 2
  NoRequest = NoRequest
CHECK_DEADLOCK FALSE
INVARIANTS
  AtMostOneEffect
  SuccessIsTrue
  KeyIffEffect
PROPERTIES
  AtMostOnceSpec
  RequestsEnd
