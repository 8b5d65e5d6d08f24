---------------------------- MODULE StlCrcTables ----------------------------
(***************************************************************************)
(* The words and the tables of src/stl/stl_crc.c: a uint32_t or uint64_t  *)
(* is the sequence of its bytes, lowest first; crc32c_table is the table  *)
(* crc32_init_sw builds, crc64_tab and crc16tab the literal tables of the  *)
(* file, with the bitwise CRC definitions the tables are checked against.  *)
(* They are constants, kept in a module of their own so that a model that  *)
(* instantiates StlCrc computes each table, and each check, once.          *)
(***************************************************************************)
EXTENDS Integers, Sequences, SequencesExt, Bitwise

Zeros(w) == SubSeq(<<0, 0, 0, 0, 0, 0, 0, 0>>, 1, w)
Ones(w) == SubSeq(<<255, 255, 255, 255, 255, 255, 255, 255>>, 1, w)

\* ^ on words of one width.
RECURSIVE XorW(_, _)
XorW(a, b) == IF a = <<>> THEN <<>> ELSE <<Head(a) ^^ Head(b)>> \o XorW(Tail(a), Tail(b))

\* >> 8 and >> 1 of a word.
Shr8(a) == Append(Tail(a), 0)
RECURSIVE Shr1(_)
Shr1(a) == IF a = <<>> THEN <<>>
           ELSE <<Head(a) \div 2 + (IF Len(a) > 1 THEN (a[2] % 2) * 128 ELSE 0)>>
                \o Shr1(Tail(a))

\* A loop over the bytes of a buffer: c = Op(c, *p++) for every byte, from c0.
\* Loop's argument is c followed by the bytes still to read, so each pass
\* reads the c of the pass before.
RECURSIVE Loop(_, _)
Loop(Op(_, _), w) ==
    IF Len(w) = 1 THEN w[1] ELSE Loop(Op, <<Op(w[1], w[2])>> \o SubSeq(w, 3, Len(w)))
EachByte(Op(_, _), c0, s) == Loop(Op, <<c0>> \o s)

\* A uint32_t held in a uint64_t, and the (uint32_t) cast back.
Widen(a) == a \o Zeros(8 - Len(a))
Narrow(a) == SubSeq(a, 1, 4)

\* CRC32_POLY, 0x82f63b78.
CRC32_POLY == <<120, 59, 246, 130>>

\* crc = crc & 1 ? (crc >> 1) ^ CRC32_POLY : crc >> 1, k times.
RECURSIVE Shifts(_, _)
Shifts(c, k) ==
    CASE k = 0 -> c
      [] c[1] % 2 = 1 -> Shifts(XorW(Shr1(c), CRC32_POLY), k - 1)
      [] OTHER -> Shifts(Shr1(c), k - 1)

\* <<F(lo), ..., F(hi)>>, built by halves so that every entry is computed
\* once, when the table is.
RECURSIVE Tabulate(_, _, _)
Tabulate(F(_), lo, hi) ==
    IF lo = hi THEN <<F(lo)>>
    ELSE LET m == (lo + hi) \div 2 IN Tabulate(F, lo, m) \o Tabulate(F, m + 1, hi)

\* crc32_init_sw, first loop: crc32c_table[0][n], n shifted eight times.
\* Entry n of a table is at index n + 1.
First(n) == Shifts(<<n, 0, 0, 0>>, 8)
T0 == Tabulate(First, 0, 255)

\* Second loop: crc32c_table[k][n] = crc32c_table[0][crc & 0xff] ^ (crc >> 8)
\* with crc = crc32c_table[k - 1][n].
NextSlice(T) ==
    LET Entry(n) == XorW(T0[T[n + 1][1] + 1], Shr8(T[n + 1])) IN Tabulate(Entry, 0, 255)

T1 == NextSlice(T0)
T2 == NextSlice(T1)
T3 == NextSlice(T2)
T4 == NextSlice(T3)
T5 == NextSlice(T4)
T6 == NextSlice(T5)
T7 == NextSlice(T6)
crc32c_table == <<T0, T1, T2, T3, T4, T5, T6, T7>>


(* The CRCs bit by bit, independent of the tables: one byte into the      *)
(* register, then eight shifts.                                            *)
RECURSIVE RefBits(_, _, _)
RefBits(c, poly, k) ==
    CASE k = 0 -> c
      [] c[1] % 2 = 1 -> RefBits(XorW(Shr1(c), poly), poly, k - 1)
      [] OTHER -> RefBits(Shr1(c), poly, k - 1)
RefByte(poly, c, b) == RefBits(XorW(c, <<b>> \o Zeros(Len(c) - 1)), poly, 8)

RECURSIVE Ref16Bits(_, _)
Ref16Bits(c, k) ==
    CASE k = 0 -> c
      [] c >= 32768 -> Ref16Bits(((c * 2) % 65536) ^^ 4129, k - 1)
      [] OTHER -> Ref16Bits((c * 2) % 65536, k - 1)

\* crc64_tab, entry n at index n + 1.
crc64_tab == <<
    <<0,0,0,0,0,0,0,0>>, <<121,137,53,48,200,112,216,122>>, <<242,18,107,96,144,225,176,245>>,
    <<139,155,94,80,88,145,104,143>>, <<143,182,65,152,115,229,56,192>>, <<246,63,116,168,187,149,224,186>>,
    <<125,164,42,248,227,4,136,53>>, <<4,45,31,200,43,116,80,79>>, <<117,254,20,104,180,236,40,171>>,
    <<12,119,33,88,124,156,240,209>>, <<135,236,127,8,36,13,152,94>>, <<254,101,74,56,236,125,64,36>>,
    <<250,72,85,240,199,9,16,107>>, <<131,193,96,192,15,121,200,17>>, <<8,90,62,144,87,232,160,158>>,
    <<113,211,11,160,159,152,120,228>>, <<129,111,190,136,59,255,8,125>>, <<248,230,139,184,243,143,208,7>>,
    <<115,125,213,232,171,30,184,136>>, <<10,244,224,216,99,110,96,242>>, <<14,217,255,16,72,26,48,189>>,
    <<119,80,202,32,128,106,232,199>>, <<252,203,148,112,216,251,128,72>>, <<133,66,161,64,16,139,88,50>>,
    <<244,145,170,224,143,19,32,214>>, <<141,24,159,208,71,99,248,172>>, <<6,131,193,128,31,242,144,35>>,
    <<127,10,244,176,215,130,72,89>>, <<123,39,235,120,252,246,24,22>>, <<2,174,222,72,52,134,192,108>>,
    <<137,53,128,24,108,23,168,227>>, <<240,188,181,40,164,103,112,153>>, <<2,223,124,17,119,254,17,250>>,
    <<123,86,73,33,191,142,201,128>>, <<240,205,23,113,231,31,161,15>>, <<137,68,34,65,47,111,121,117>>,
    <<141,105,61,137,4,27,41,58>>, <<244,224,8,185,204,107,241,64>>, <<127,123,86,233,148,250,153,207>>,
    <<6,242,99,217,92,138,65,181>>, <<119,33,104,121,195,18,57,81>>, <<14,168,93,73,11,98,225,43>>,
    <<133,51,3,25,83,243,137,164>>, <<252,186,54,41,155,131,81,222>>, <<248,151,41,225,176,247,1,145>>,
    <<129,30,28,209,120,135,217,235>>, <<10,133,66,129,32,22,177,100>>, <<115,12,119,177,232,102,105,30>>,
    <<131,176,194,153,76,1,25,135>>, <<250,57,247,169,132,113,193,253>>, <<113,162,169,249,220,224,169,114>>,
    <<8,43,156,201,20,144,113,8>>, <<12,6,131,1,63,228,33,71>>, <<117,143,182,49,247,148,249,61>>,
    <<254,20,232,97,175,5,145,178>>, <<135,157,221,81,103,117,73,200>>, <<246,78,214,241,248,237,49,44>>,
    <<143,199,227,193,48,157,233,86>>, <<4,92,189,145,104,12,129,217>>, <<125,213,136,161,160,124,89,163>>,
    <<121,248,151,105,139,8,9,236>>, <<0,113,162,89,67,120,209,150>>, <<139,234,252,9,27,233,185,25>>,
    <<242,99,201,57,211,153,97,99>>, <<111,45,110,122,189,218,122,223>>, <<22,164,91,74,117,170,162,165>>,
    <<157,63,5,26,45,59,202,42>>, <<228,182,48,42,229,75,18,80>>, <<224,155,47,226,206,63,66,31>>,
    <<153,18,26,210,6,79,154,101>>, <<18,137,68,130,94,222,242,234>>, <<107,0,113,178,150,174,42,144>>,
    <<26,211,122,18,9,54,82,116>>, <<99,90,79,34,193,70,138,14>>, <<232,193,17,114,153,215,226,129>>,
    <<145,72,36,66,81,167,58,251>>, <<149,101,59,138,122,211,106,180>>, <<236,236,14,186,178,163,178,206>>,
    <<103,119,80,234,234,50,218,65>>, <<30,254,101,218,34,66,2,59>>, <<238,66,208,242,134,37,114,162>>,
    <<151,203,229,194,78,85,170,216>>, <<28,80,187,146,22,196,194,87>>, <<101,217,142,162,222,180,26,45>>,
    <<97,244,145,106,245,192,74,98>>, <<24,125,164,90,61,176,146,24>>, <<147,230,250,10,101,33,250,151>>,
    <<234,111,207,58,173,81,34,237>>, <<155,188,196,154,50,201,90,9>>, <<226,53,241,170,250,185,130,115>>,
    <<105,174,175,250,162,40,234,252>>, <<16,39,154,202,106,88,50,134>>, <<20,10,133,2,65,44,98,201>>,
    <<109,131,176,50,137,92,186,179>>, <<230,24,238,98,209,205,210,60>>, <<159,145,219,82,25,189,10,70>>,
    <<109,242,18,107,202,36,107,37>>, <<20,123,39,91,2,84,179,95>>, <<159,224,121,11,90,197,219,208>>,
    <<230,105,76,59,146,181,3,170>>, <<226,68,83,243,185,193,83,229>>, <<155,205,102,195,113,177,139,159>>,
    <<16,86,56,147,41,32,227,16>>, <<105,223,13,163,225,80,59,106>>, <<24,12,6,3,126,200,67,142>>,
    <<97,133,51,51,182,184,155,244>>, <<234,30,109,99,238,41,243,123>>, <<147,151,88,83,38,89,43,1>>,
    <<151,186,71,155,13,45,123,78>>, <<238,51,114,171,197,93,163,52>>, <<101,168,44,251,157,204,203,187>>,
    <<28,33,25,203,85,188,19,193>>, <<236,157,172,227,241,219,99,88>>, <<149,20,153,211,57,171,187,34>>,
    <<30,143,199,131,97,58,211,173>>, <<103,6,242,179,169,74,11,215>>, <<99,43,237,123,130,62,91,152>>,
    <<26,162,216,75,74,78,131,226>>, <<145,57,134,27,18,223,235,109>>, <<232,176,179,43,218,175,51,23>>,
    <<153,99,184,139,69,55,75,243>>, <<224,234,141,187,141,71,147,137>>, <<107,113,211,235,213,214,251,6>>,
    <<18,248,230,219,29,166,35,124>>, <<22,213,249,19,54,210,115,51>>, <<111,92,204,35,254,162,171,73>>,
    <<228,199,146,115,166,51,195,198>>, <<157,78,167,67,110,67,27,188>>, <<181,201,75,172,41,147,172,149>>,
    <<204,64,126,156,225,227,116,239>>, <<71,219,32,204,185,114,28,96>>, <<62,82,21,252,113,2,196,26>>,
    <<58,127,10,52,90,118,148,85>>, <<67,246,63,4,146,6,76,47>>, <<200,109,97,84,202,151,36,160>>,
    <<177,228,84,100,2,231,252,218>>, <<192,55,95,196,157,127,132,62>>, <<185,190,106,244,85,15,92,68>>,
    <<50,37,52,164,13,158,52,203>>, <<75,172,1,148,197,238,236,177>>, <<79,129,30,92,238,154,188,254>>,
    <<54,8,43,108,38,234,100,132>>, <<189,147,117,60,126,123,12,11>>, <<196,26,64,12,182,11,212,113>>,
    <<52,166,245,36,18,108,164,232>>, <<77,47,192,20,218,28,124,146>>, <<198,180,158,68,130,141,20,29>>,
    <<191,61,171,116,74,253,204,103>>, <<187,16,180,188,97,137,156,40>>, <<194,153,129,140,169,249,68,82>>,
    <<73,2,223,220,241,104,44,221>>, <<48,139,234,236,57,24,244,167>>, <<65,88,225,76,166,128,140,67>>,
    <<56,209,212,124,110,240,84,57>>, <<179,74,138,44,54,97,60,182>>, <<202,195,191,28,254,17,228,204>>,
    <<206,238,160,212,213,101,180,131>>, <<183,103,149,228,29,21,108,249>>, <<60,252,203,180,69,132,4,118>>,
    <<69,117,254,132,141,244,220,12>>, <<183,22,55,189,94,109,189,111>>, <<206,159,2,141,150,29,101,21>>,
    <<69,4,92,221,206,140,13,154>>, <<60,141,105,237,6,252,213,224>>, <<56,160,118,37,45,136,133,175>>,
    <<65,41,67,21,229,248,93,213>>, <<202,178,29,69,189,105,53,90>>, <<179,59,40,117,117,25,237,32>>,
    <<194,232,35,213,234,129,149,196>>, <<187,97,22,229,34,241,77,190>>, <<48,250,72,181,122,96,37,49>>,
    <<73,115,125,133,178,16,253,75>>, <<77,94,98,77,153,100,173,4>>, <<52,215,87,125,81,20,117,126>>,
    <<191,76,9,45,9,133,29,241>>, <<198,197,60,29,193,245,197,139>>, <<54,121,137,53,101,146,181,18>>,
    <<79,240,188,5,173,226,109,104>>, <<196,107,226,85,245,115,5,231>>, <<189,226,215,101,61,3,221,157>>,
    <<185,207,200,173,22,119,141,210>>, <<192,70,253,157,222,7,85,168>>, <<75,221,163,205,134,150,61,39>>,
    <<50,84,150,253,78,230,229,93>>, <<67,135,157,93,209,126,157,185>>, <<58,14,168,109,25,14,69,195>>,
    <<177,149,246,61,65,159,45,76>>, <<200,28,195,13,137,239,245,54>>, <<204,49,220,197,162,155,165,121>>,
    <<181,184,233,245,106,235,125,3>>, <<62,35,183,165,50,122,21,140>>, <<71,170,130,149,250,10,205,246>>,
    <<218,228,37,214,148,73,214,74>>, <<163,109,16,230,92,57,14,48>>, <<40,246,78,182,4,168,102,191>>,
    <<81,127,123,134,204,216,190,197>>, <<85,82,100,78,231,172,238,138>>, <<44,219,81,126,47,220,54,240>>,
    <<167,64,15,46,119,77,94,127>>, <<222,201,58,30,191,61,134,5>>, <<175,26,49,190,32,165,254,225>>,
    <<214,147,4,142,232,213,38,155>>, <<93,8,90,222,176,68,78,20>>, <<36,129,111,238,120,52,150,110>>,
    <<32,172,112,38,83,64,198,33>>, <<89,37,69,22,155,48,30,91>>, <<210,190,27,70,195,161,118,212>>,
    <<171,55,46,118,11,209,174,174>>, <<91,139,155,94,175,182,222,55>>, <<34,2,174,110,103,198,6,77>>,
    <<169,153,240,62,63,87,110,194>>, <<208,16,197,14,247,39,182,184>>, <<212,61,218,198,220,83,230,247>>,
    <<173,180,239,246,20,35,62,141>>, <<38,47,177,166,76,178,86,2>>, <<95,166,132,150,132,194,142,120>>,
    <<46,117,143,54,27,90,246,156>>, <<87,252,186,6,211,42,46,230>>, <<220,103,228,86,139,187,70,105>>,
    <<165,238,209,102,67,203,158,19>>, <<161,195,206,174,104,191,206,92>>, <<216,74,251,158,160,207,22,38>>,
    <<83,209,165,206,248,94,126,169>>, <<42,88,144,254,48,46,166,211>>, <<216,59,89,199,227,183,199,176>>,
    <<161,178,108,247,43,199,31,202>>, <<42,41,50,167,115,86,119,69>>, <<83,160,7,151,187,38,175,63>>,
    <<87,141,24,95,144,82,255,112>>, <<46,4,45,111,88,34,39,10>>, <<165,159,115,63,0,179,79,133>>,
    <<220,22,70,15,200,195,151,255>>, <<173,197,77,175,87,91,239,27>>, <<212,76,120,159,159,43,55,97>>,
    <<95,215,38,207,199,186,95,238>>, <<38,94,19,255,15,202,135,148>>, <<34,115,12,55,36,190,215,219>>,
    <<91,250,57,7,236,206,15,161>>, <<208,97,103,87,180,95,103,46>>, <<169,232,82,103,124,47,191,84>>,
    <<89,84,231,79,216,72,207,205>>, <<32,221,210,127,16,56,23,183>>, <<171,70,140,47,72,169,127,56>>,
    <<210,207,185,31,128,217,167,66>>, <<214,226,166,215,171,173,247,13>>, <<175,107,147,231,99,221,47,119>>,
    <<36,240,205,183,59,76,71,248>>, <<93,121,248,135,243,60,159,130>>, <<44,170,243,39,108,164,231,102>>,
    <<85,35,198,23,164,212,63,28>>, <<222,184,152,71,252,69,87,147>>, <<167,49,173,119,52,53,143,233>>,
    <<163,28,178,191,31,65,223,166>>, <<218,149,135,143,215,49,7,220>>, <<81,14,217,223,143,160,111,83>>,
    <<40,135,236,239,71,208,183,41>>
    >>

\* crc16tab, entry n at index n + 1.
crc16tab == <<
    0,4129,8258,12387,16516,20645,24774,28903,33032,37161,41290,45419,49548,53677,57806,61935,
    4657,528,12915,8786,21173,17044,29431,25302,37689,33560,45947,41818,54205,50076,62463,58334,
    9314,13379,1056,5121,25830,29895,17572,21637,42346,46411,34088,38153,58862,62927,50604,54669,
    13907,9842,5649,1584,30423,26358,22165,18100,46939,42874,38681,34616,63455,59390,55197,51132,
    18628,22757,26758,30887,2112,6241,10242,14371,51660,55789,59790,63919,35144,39273,43274,47403,
    23285,19156,31415,27286,6769,2640,14899,10770,56317,52188,64447,60318,39801,35672,47931,43802,
    27814,31879,19684,23749,11298,15363,3168,7233,60846,64911,52716,56781,44330,48395,36200,40265,
    32407,28342,24277,20212,15891,11826,7761,3696,65439,61374,57309,53244,48923,44858,40793,36728,
    37256,33193,45514,41451,53516,49453,61774,57711,4224,161,12482,8419,20484,16421,28742,24679,
    33721,37784,41979,46042,49981,54044,58239,62302,689,4752,8947,13010,16949,21012,25207,29270,
    46570,42443,38312,34185,62830,58703,54572,50445,13538,9411,5280,1153,29798,25671,21540,17413,
    42971,47098,34713,38840,59231,63358,50973,55100,9939,14066,1681,5808,26199,30326,17941,22068,
    55628,51565,63758,59695,39368,35305,47498,43435,22596,18533,30726,26663,6336,2273,14466,10403,
    52093,56156,60223,64286,35833,39896,43963,48026,19061,23124,27191,31254,2801,6864,10931,14994,
    64814,60687,56684,52557,48554,44427,40424,36297,31782,27655,23652,19525,15522,11395,7392,3265,
    61215,65342,53085,57212,44955,49082,36825,40952,28183,32310,20053,24180,11923,16050,3793,7920
    >>
\* Every entry n of the literal tables is the register after byte n from
\* 0: reflected CRC-64/Jones (0x95AC9329AC4BC9B5) for crc64_tab, and
\* CRC-16/XMODEM (0x1021, most significant bit first) for crc16tab.
Crc64TabIsPoly ==
    \A n \in 0 .. 255 :
        crc64_tab[n + 1] = RefByte(<<181, 201, 75, 172, 41, 147, 172, 149>>, Zeros(8), n)
Crc16TabIsPoly == \A n \in 0 .. 255 : crc16tab[n + 1] = Ref16Bits(n * 256, 8)
=============================================================================
