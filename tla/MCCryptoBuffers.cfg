SPECIFICATION Spec
CONSTANTS
    context = context
    message = message
    nonce = nonce
    key1 = key1
    key2 = key2
    key3 = key3
    long = long
    sb1 = sb1
    sb2 = sb2
    sb3 = sb3
    sb4 = sb4
    sb5 = sb5
    NoBuffer = NoBuffer
    Buffers = {context, message, nonce, key1, key2, key3, long, sb1, sb2, sb3, sb4, sb5}
    Kind <- Kinds
    Length <- Lengths
    MaxHeld = 1
INVARIANTS
    NothingLeftOpen
PROPERTIES
    PanicsOnlyWhenShared
