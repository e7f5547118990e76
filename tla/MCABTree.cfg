SPECIFICATION Spec
CONSTANTS
  Threads = {1, 2, 3}
  Keys = {1, 2, 3, 4, 5, 6, 7, 8, 9, 10, 11}
  Setups <- MCSetups
INVARIANTS SwitchedAway Validated
PROPERTY Linearizable
