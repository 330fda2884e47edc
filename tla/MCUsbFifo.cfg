CONSTANTS
  Size = 3
  Byte = {b1, b2}
SPECIFICATION Spec
INVARIANTS TypeOK AnswersAgree
PROPERTY ImplementsQueue
