--------------------------- MODULE ReputationTables ---------------------------
(***************************************************************************)
(* The networks internal/temperature/reputation.go lists.  Every entry is  *)
(* a well-formed IPv4 prefix of at most 24 bits and ends in ".0", so it is *)
(* given by the number of its first /24 and its length, and an address by  *)
(* the number of its /24 and its last byte.                                *)
(***************************************************************************)
EXTENDS Integers

Net24(a, b, c) == a * 65536 + b * 256 + c

\* "a.b.0.0/len" for every b in bs, and "a.b.c.0/len" for every c in cs.
Wide(a, len, bs) == {[net |-> Net24(a, b, 0), len |-> len] : b \in bs}
Narrow(a, b, len, cs) == {[net |-> Net24(a, b, c), len |-> len] : c \in cs}

AWS == UNION {
    Wide(3, 12, {32, 48, 64, 80, 96, 112, 128}), Wide(3, 15, {0}),
    Wide(3, 16, {2, 4}), Wide(3, 19, {5}),
    Wide(13, 14, {32, 48, 52, 56, 212, 228, 232, 236, 244, 248}),
    Wide(13, 15, {210}), Wide(13, 16, {208}),
    Wide(15, 14, {152, 160, 164, 168, 188, 192, 196, 200, 220, 228}),
    Wide(15, 16, {177}), Wide(16, 14, {0, 16, 24}),
    Wide(18, 14, {96, 100, 116, 128, 132, 136, 140, 144, 156, 160, 168, 172,
        176, 180, 184, 188, 192, 196, 200, 204, 208, 212, 216, 220, 224, 228,
        232, 236, 240, 244, 248, 252}),
    Wide(44, 14, {192, 196, 200, 204, 208, 212, 216, 220, 224, 228, 232, 236,
        240}),
    Wide(52, 14, {0, 4, 8, 12, 16, 20, 24, 28, 32, 36, 40, 44, 48, 52, 56, 60,
        64}),
    Wide(54, 14, {64, 68, 72, 76, 80, 84, 88, 92, 144, 148, 152, 156, 160, 164,
        168, 172, 176, 180, 184, 188, 192, 196, 200, 204, 208, 212, 216, 220,
        224, 228, 232, 236, 240, 244, 248, 252}), Wide(99, 17, {150}),
    Narrow(46, 51, 17, {128}), Narrow(99, 77, 18, {128}) }

GCP == UNION {
    Wide(8, 14, {228, 232}), Wide(34, 9, {0}), Wide(34, 10, {128}),
    Wide(35, 11, {192}), Wide(35, 12, {224}), Wide(35, 13, {184, 240}),
    Wide(104, 14, {196}), Wide(104, 15, {154}), Wide(130, 16, {211}),
    Wide(136, 13, {64}), Wide(136, 14, {108, 112}), Wide(146, 16, {148}),
    Wide(207, 16, {175}), Narrow(8, 34, 20, {208}), Narrow(23, 236, 20, {48}),
    Narrow(23, 251, 20, {128}), Narrow(107, 167, 20, {160}),
    Narrow(107, 178, 20, {208, 240}), Narrow(173, 255, 20, {112}) }

Azure == UNION {
    Wide(4, 14, {148, 152, 156, 160, 164, 168, 172, 176, 180, 188, 192, 196,
        204, 208, 212, 216}), Wide(4, 15, {146, 186, 202, 222, 224, 234, 252}),
    Wide(4, 16, {145, 201, 221, 228, 230, 233, 237, 241, 243, 244, 250}),
    Wide(13, 14, {76, 80, 92}), Wide(13, 15, {74, 84, 90}),
    Wide(13, 16, {64, 65, 89, 95}),
    Wide(20, 14, {16, 24, 36, 40, 88, 104, 184, 192, 196, 200, 204, 220, 224,
        244}),
    Wide(20, 15, {2, 4, 22, 28, 50, 54, 108, 126, 150, 160, 188, 218, 228, 232,
        242, 250}),
    Wide(20, 16, {0, 7, 8, 10, 56, 61, 71, 73, 76, 79, 86, 96, 101, 103, 110,
        116, 121, 122, 124, 164, 166, 171, 173, 174, 212, 215, 239, 249, 255}),
    Wide(40, 15, {84, 88, 114, 116}), Wide(40, 16, {68, 71, 76, 121, 124}),
    Wide(48, 14, {196, 216}), Wide(48, 15, {194, 206, 210, 214, 222}),
    Wide(48, 16, {201, 203}), Wide(51, 15, {56, 104, 136, 144}),
    Wide(51, 16, {124}), Wide(52, 14, {148, 152, 160, 188, 228}),
    Wide(52, 15, {146, 166, 168, 170, 178, 186, 224, 232, 236, 240, 254}),
    Wide(52, 16, {173, 174, 177, 226, 241}), Wide(104, 14, {40}),
    Wide(104, 15, {214}), Wide(108, 14, {140}) }

DigitalOcean == UNION {
    Wide(45, 16, {55}), Wide(46, 16, {101}), Wide(64, 16, {225, 227}),
    Wide(68, 16, {183}), Wide(82, 20, {196}), Wide(95, 18, {85}),
    Wide(104, 16, {131, 236, 248}), Wide(107, 16, {170}), Wide(128, 16, {199}),
    Wide(134, 16, {209}), Wide(134, 17, {122}), Wide(137, 16, {184}),
    Wide(138, 16, {68, 197}), Wide(139, 16, {59}), Wide(142, 16, {93}),
    Wide(143, 16, {198}), Wide(146, 16, {190}), Wide(157, 16, {230, 245}),
    Wide(159, 16, {65, 89, 203, 223}), Wide(161, 16, {35}),
    Wide(162, 16, {243}), Wide(165, 16, {22, 227}),
    Wide(167, 16, {71, 99, 172}), Wide(168, 16, {144}), Wide(174, 17, {138}),
    Wide(178, 16, {62, 128}), Wide(188, 16, {166}), Wide(206, 16, {189}),
    Wide(206, 20, {81}), Wide(209, 16, {38}), Narrow(64, 23, 17, {128}),
    Narrow(64, 226, 18, {64}), Narrow(67, 205, 18, {128}),
    Narrow(67, 207, 18, {64}), Narrow(80, 240, 20, {128}),
    Narrow(129, 212, 17, {128}), Narrow(134, 199, 17, {128}),
    Narrow(143, 110, 17, {128}), Narrow(143, 244, 17, {128}),
    Narrow(144, 126, 18, {192}), Narrow(146, 185, 18, {128}),
    Narrow(147, 182, 17, {128}), Narrow(152, 42, 17, {128}),
    Narrow(164, 90, 17, {128}), Narrow(164, 92, 18, {64}),
    Narrow(165, 232, 19, {32}), Narrow(170, 64, 17, {128}),
    Narrow(185, 14, 22, {184}), Narrow(188, 226, 17, {128}),
    Narrow(192, 34, 21, {56}), Narrow(192, 81, 20, {208}),
    Narrow(192, 241, 17, {128}), Narrow(198, 199, 18, {64}),
    Narrow(198, 211, 19, {96}), Narrow(204, 48, 20, {16}),
    Narrow(207, 154, 18, {192}), Narrow(209, 97, 18, {128}) }

torCIDRs == UNION {
    Narrow(77, 247, 24, {181}), Narrow(109, 70, 24, {100}),
    Narrow(171, 25, 24, {193}), Narrow(185, 220, 22, {100}),
    Narrow(185, 220, 24, {101, 102}), Narrow(193, 218, 24, {118}),
    Narrow(198, 96, 24, {155}), Narrow(199, 195, 24, {250}),
    Narrow(199, 249, 24, {230}), Narrow(204, 85, 24, {191}),
    Narrow(209, 141, 19, {32}) }

cloudCIDRs == AWS \cup GCP \cup Azure \cup DigitalOcean
=============================================================================
