SPECIFICATION Spec
CONSTANTS
  Messages <- MCMessages
INVARIANTS
  ParsesResponse
