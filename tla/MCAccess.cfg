CONSTANTS
  a = a
  b = b
  c = c
  Clients = {a, b, c}
  Cases <- MCCases
  Fold <- MCFold
  Window = 2
  Lockout = 2
  MaxTracked = 2
  PairLimit = 2
  NameLimit = 3
  ShortTtl = 1
  LongTtl = 3
SPECIFICATION Spec
INVARIANTS SessionsAreSound GuessesAreBounded
PROPERTIES AdministrationIsSound RevocationIsFinal
CHECK_DEADLOCK FALSE
