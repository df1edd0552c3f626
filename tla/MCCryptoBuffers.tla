--------------------------- MODULE MCCryptoBuffers --------------------------
(* Vec<u8> and SecureBuffer arguments of the lengths that keys, nonces,    *)
(* tags and contexts have, and SecBufs of both kinds.                      *)
EXTENDS CryptoBuffers

CONSTANTS context, message, nonce, key1, key2, key3, long, sb1, sb2, sb3, sb4, sb5

PlainBuffers ==
    [b \in {context, message, nonce, key1, key2, key3, long} |->
        CASE b = context -> 8 [] b = message -> 16 [] b = nonce -> 24
          [] b \in {key1, key2, key3} -> 32 [] b = long -> 64]

SecBufLengths ==
    [b \in {sb1, sb2, sb3, sb4, sb5} |-> IF b = sb1 THEN 8 ELSE 32]

Lengths ==
    [b \in Buffers |->
        IF b \in DOMAIN PlainBuffers THEN PlainBuffers[b] ELSE SecBufLengths[b]]

Kinds ==
    [b \in Buffers |->
        CASE b \in {context, nonce, key3} -> "Vec"
          [] b \in {message, key1, key2, long} -> "SecureBuffer"
          [] b \in {sb1, sb2} -> "RustBuf"
          [] OTHER -> "SodiumBuf"]

=============================================================================
