SPECIFICATION Spec
CONSTANTS
  Bytes <- MCBytes
  MaxTokens = 3
PROPERTY
  DelayedIsPerformed
