SPECIFICATION Spec
INVARIANTS TooLargeIs413
