\* Two clients append, rewind and make rows up; the server runs or cancels each statement.
SPECIFICATION FairSpec
CONSTANTS
  Clients = {c1, c2}
  None = None
  MaxEvents = 3
  MaxSeq = 2
INVARIANTS WrittenStaysValid
PROPERTIES LosersLostToSomebody ImplementsStore StatementsEnd
CHECK_DEADLOCK FALSE
