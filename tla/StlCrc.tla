-------------------------------- MODULE StlCrc --------------------------------
(***************************************************************************)
(* src/stl/stl_crc.c without HAVE_CRC32C (the repository defines it     *)
(* nowhere), so the table-driven software half: the three loops of        *)
(* crc32_sw behind stl_crc32, stl_crc64 and stl_crc16, over the words and *)
(* tables of StlCrcTables.                                                 *)
(* A caller feeds Msg, placed at an address addr mod 8, to stl_crc32 in    *)
(* pieces, as test/crc/crc_example.c does, and asks for the crc64 and      *)
(* crc16 of its prefixes.  Each result is compared with the bitwise        *)
(* definition of its CRC (Ref32C, Ref64, Ref16), pinned to the standard    *)
(* check values by ASSUMEs.                                                *)
(***************************************************************************)
EXTENDS StlCrcTables

CONSTANTS
    Msg,    \* the caller's buffer: a sequence of bytes 0..255
    Addrs   \* the addresses mod 8 the buffer may start at

VARIABLES inited, crc, fed, addr, ret

vars == <<inited, crc, fed, addr, ret>>

\* crc32c_table[k][n].
Tab(k, n) == Widen(crc32c_table[k + 1][n + 1])

\* crc = crc32c_table[0][(crc ^ *next++) & 0xff] ^ (crc >> 8)
ByteStep(c, b) == XorW(Tab(0, c[1] ^^ b), Shr8(c))

\* The first loop: bytes one at a time while next is not 8-aligned.  st is
\* <<crc, the bytes from next on>>.
RECURSIVE Align(_, _)
Align(st, a) ==
    IF st[2] # <<>> /\ a % 8 # 0
    THEN Align(<<ByteStep(st[1], st[2][1]), Tail(st[2])>>, a + 1)
    ELSE st

\* A load that reads the eight bytes most significant first.
LoadBigEndian(buf) == Reverse(SubSeq(buf, 1, 8))

\* *(uint64_t *) next on the little-endian machine the code assumes.
Load(buf) == SubSeq(buf, 1, 8)

\* crc ^= *(uint64_t *) next; crc = crc32c_table[7][crc & 0xff] ^ ...
\* ^ crc32c_table[0][crc >> 56].
QuadStep(c, buf) ==
    LET x == XorW(c, Load(buf)) IN
    XorW(XorW(XorW(Tab(7, x[1]), Tab(6, x[2])), XorW(Tab(5, x[3]), Tab(4, x[4]))),
         XorW(XorW(Tab(3, x[5]), Tab(2, x[6])), XorW(Tab(1, x[7]), Tab(0, x[8]))))

\* The second loop: while (len >= 8).
RECURSIVE Quads(_)
Quads(st) ==
    IF Len(st[2]) >= 8
    THEN Quads(<<QuadStep(st[1], st[2]), SubSeq(st[2], 9, Len(st[2]))>>)
    ELSE st

\* The third loop: the bytes left.
Bytes(c, buf) == EachByte(ByteStep, c, buf)

\* crc32_sw(crci, buf, len) with buf at address a mod 8.
crc32_sw(crci, buf, a) ==
    LET p == Align(<<XorW(Widen(crci), Widen(Ones(4))), buf>>, a)
        q == Quads(p)
    IN XorW(Narrow(Bytes(q[1], q[2])), Ones(4))

\* A step that indexes the table with the top byte, crc >> 56.
Crc64StepTop(c, b) == XorW(crc64_tab[(c[8] ^^ b) + 1], Shr8(c))

\* crc = crc64_tab[(uint8_t)crc ^ byte] ^ (crc >> 8)
Crc64Step(c, b) == XorW(crc64_tab[(c[1] ^^ b) + 1], Shr8(c))

stl_crc64(s) == EachByte(Crc64Step, Zeros(8), s)

\* The step with crc held in a type wider than uint16_t.
Crc16StepWide(c, b) == (c * 256) ^^ crc16tab[(((c \div 256) ^^ b) % 256) + 1]

\* crc = (crc << 8) ^ crc16tab[((crc >> 8) ^ *buf++) & 0x00FF], stored back
\* into a uint16_t.  *buf is a (signed) char: sign extension sets only bits
\* above the eight the mask keeps, so the byte is its value 0..255.
Crc16Step(c, b) == ((c * 256) % 65536) ^^ crc16tab[(((c \div 256) ^^ b) % 256) + 1]

stl_crc16(s) == EachByte(Crc16Step, 0, s)
-----------------------------------------------------------------------------
(* The CRCs by their bitwise definitions, independent of the tables.       *)

\* CRC-32C (Castagnoli): reflected 0x82F63B78, init and xorout 0xFFFFFFFF.
RefByte32(c, b) == RefByte(<<120, 59, 246, 130>>, c, b)
Ref32C(s) == XorW(EachByte(RefByte32, Ones(4), s), Ones(4))

\* CRC-64 (Jones): reflected 0x95AC9329AC4BC9B5, init 0, no xorout.
RefByte64(c, b) == RefByte(<<181, 201, 75, 172, 41, 147, 172, 149>>, c, b)
Ref64(s) == EachByte(RefByte64, Zeros(8), s)

\* CRC-16/XMODEM: 0x1021 most significant bit first, init 0.
Ref16Byte(c, b) == Ref16Bits(c ^^ (b * 256), 8)
Ref16(s) == EachByte(Ref16Byte, 0, s)

Check == <<49, 50, 51, 52, 53, 54, 55, 56, 57>>   \* "123456789"
ASSUME Ref32C(Check) = <<131, 146, 6, 227>>                    \* 0xE3069283
ASSUME Ref64(Check) = <<202, 217, 184, 196, 20, 217, 198, 233>> \* 0xE9C6D914C4B8D9CA
ASSUME Ref16(Check) = 12739                                    \* 0x31C3
-----------------------------------------------------------------------------
Init ==
    /\ inited = FALSE /\ crc = Zeros(4) /\ fed = 0 /\ addr \in Addrs
    /\ ret = <<"none">>

\* stl_crc32_init fills crc32c_table.
stl_crc32_init ==
    /\ inited' = TRUE
    /\ UNCHANGED <<crc, fed, addr, ret>>

\* stl_crc32(crc, buf + fed, len): the next piece of Msg, after
\* stl_crc32_init as crc_example.c calls it.
stl_crc32(len) ==
    /\ inited /\ fed + len <= Len(Msg)
    /\ crc' = crc32_sw(crc, SubSeq(Msg, fed + 1, fed + len), (addr + fed) % 8)
    /\ fed' = fed + len
    /\ UNCHANGED <<inited, addr, ret>>

\* The caller starts a new checksum, crc 0, on a buffer at address a.
Restart(a) ==
    /\ crc' = Zeros(4) /\ fed' = 0 /\ addr' = a
    /\ UNCHANGED <<inited, ret>>

\* stl_crc64 and stl_crc16 of the first len bytes of Msg; ret is the call
\* and its result.
Crc64Call(len) == ret' = <<"crc64", len, stl_crc64(SubSeq(Msg, 1, len))>>
                  /\ UNCHANGED <<inited, crc, fed, addr>>
Crc16Call(len) == ret' = <<"crc16", len, stl_crc16(SubSeq(Msg, 1, len))>>
                  /\ UNCHANGED <<inited, crc, fed, addr>>

\* The calls of the CRC-32C state, and the stateless table CRCs.
Next32 ==
    \/ stl_crc32_init
    \/ \E len \in 0 .. Len(Msg) : stl_crc32(len)
    \/ \E a \in Addrs : Restart(a)
NextTab == \E len \in 0 .. Len(Msg) : Crc64Call(len) \/ Crc16Call(len)

Next == Next32 \/ NextTab

Spec == Init /\ [][Next]_vars
-----------------------------------------------------------------------------
\* A CRC-32C computed in pieces with stl_crc32, each piece starting at any
\* alignment and so split differently between the byte-at-a-time, eight-
\* bytes-at-a-time and trailing loops of crc32_sw, equals the CRC-32C of
\* all the bytes fed so far (the claim of crc_example.c).
Crc32Chained == crc = Ref32C(SubSeq(Msg, 1, fed))

\* stl_crc64 computes CRC-64/Jones: each of the 256 entries of its literal
\* table is the polynomial's, and the loop over a prefix of Msg gives the
\* bitwise CRC of that prefix.
Crc64Matches ==
    /\ Crc64TabIsPoly
    /\ ret[1] = "crc64" => ret[3] = Ref64(SubSeq(Msg, 1, ret[2]))

\* stl_crc16 computes CRC-16/XMODEM: each of the 256 entries of its literal
\* table is the polynomial's, and over prefixes of Msg with bytes of 0x80
\* and above the uint16_t keeps the shifted-out bits away.
Crc16Matches ==
    /\ Crc16TabIsPoly
    /\ ret[1] = "crc16" => ret[3] = Ref16(SubSeq(Msg, 1, ret[2]))
=============================================================================
