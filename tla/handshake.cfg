SPECIFICATION Spec
CONSTANTS
  Lines <- MCLines
  AutoWords <- MCAutoWords
  MaxLines = 5
INVARIANT TypeOK
INVARIANT FieldsAreLines
INVARIANT DocumentedUnderstood
INVARIANT AgentsAgree
\* The handler leaves once.
CHECK_DEADLOCK FALSE
