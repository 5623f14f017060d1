SPECIFICATION Spec
PROPERTY SomeOutputAsExpected
CHECK_DEADLOCK FALSE
