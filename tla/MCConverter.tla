----------------------------- MODULE MCConverter -----------------------------
(* Units on either side of every bound the decoders compare with.            *)
EXTENDS Converter
\* A, U+07FF, U+0800, the ends of both surrogate ranges, U+E000, U+FFFD and
\* U+FFFF.
Units == {65, 2047, 2048, 55295, 55296, 56319, 56320, 57343, 57344, 65533, 65535}
\* ASCII, continuation bytes of each range, and leading bytes of each kind,
\* the overlong (C1), the beyond Unicode (F5) and the unknown (FF) included; BD
\* ends the U+FFFD of EF BF BD.
Bytes == {65, 128, 143, 144, 159, 160, 189, 191, 193, 194, 224, 237, 239, 240, 244, 245, 255}
UpTo(S, n) == UNION {[1..k -> S] : k \in 0..n}
MCTexts16 == UpTo(Units, 3)
MCTexts8  == UpTo(Bytes, 3) \cup UpTo({65, 191, 194, 225, 241}, 4)
                            \cup {<<240, b, c, d>> : b, c, d \in {143, 144, 191, 65}}
                            \cup {<<244, b, c, d>> : b, c, d \in {143, 144, 128, 194}}
=============================================================================
