\* Two lists that share an empty block are enough.
CONSTANTS
    Handles = {h1, h2}
    Blocks = {b1, b2, b3, b4}
    Null = shared_null
    Values = {v1, v2}
    MaxLen = 2

SPECIFICATION Spec

PROPERTIES
    ListServiceSpec

