----------------------------- MODULE L2FibCodec -----------------------------
(***************************************************************************)
(* The key and sequence-number codec of the L2 forwarding table           *)
(* (src/src/vpp/src/vnet/l2/l2_fib.h).                                     *)
(*                                                                         *)
(* A 64-bit word is a sequence of four 16-bit limbs, least significant    *)
(* first, because TLC integers are 32 bits wide.  A MAC address is its     *)
(* three 16-bit words in memory order <<AB, CD, EF>>; the load in          *)
(* l2fib_make_key reads eight bytes, so two bytes past the MAC (the       *)
(* "overflow" word GH) enter the register and must be shifted out.        *)
(***************************************************************************)
EXTENDS Naturals, Sequences, Bitwise

U16 == 0 .. 65535
U8  == 0 .. 255

\* byte swap of one 16-bit word: what a little-endian load does to AB
Swap16(w) == (w % 256) * 256 + w \div 256

\* CLIB_MEM_OVERFLOW_LOAD((u64 *) mac): the eight bytes A..H as a u64
Load64(mac, gh, bigEndian) ==
    IF bigEndian THEN << gh, mac[3], mac[2], mac[1] >>
                 ELSE << Swap16(mac[1]), Swap16(mac[2]), Swap16(mac[3]), Swap16(gh) >>

\* 64-bit shifts by one limb; the limb shifted past bit 63 is lost
Shl16(x) == << 0, x[1], x[2], x[3] >>
Shr16(x) == << x[2], x[3], x[4], 0 >>

\* Fault: the big-endian path ORs the BD into the loaded word without the
\* >> 16, so the two bytes read past the MAC stay in the key.
MakeKeyNoShift(mac, gh, bd_index, bigEndian) ==
    LET temp == Load64(mac, gh, bigEndian)
    IN  IF bigEndian THEN [temp EXCEPT ![4] = @ | (bd_index % 65536)]
                     ELSE [Shl16(temp) EXCEPT ![1] = bd_index % 65536]

\* l2fib_make_key: the bd_index parameter is a u16, so a wider index is
\* truncated at the call
l2fib_make_key(mac, gh, bd_index, bigEndian) ==
    LET bd   == bd_index % 65536
        temp == Load64(mac, gh, bigEndian)
    IN  IF bigEndian
          THEN [Shr16(temp) EXCEPT ![4] = @ | bd]
          ELSE [Shl16(temp) EXCEPT ![1] = bd]

\* The shift-and-mask forms of l2_fib_mk_seq_num / l2_fib_update_seq_num,
\* bit for bit; MCL2FibCodec checks the arithmetic forms below against them.
MkSeqNumBits(bd_sn, if_sn) == (bd_sn * 256) | if_sn
UpdateSeqNumBits(sn, if_sn) == (sn & 65280) | if_sn

\* Fault: the BD byte is lost (an 8-bit shift of an unwidened u8).
MkSeqNumLostBd(bd_sn, if_sn) == if_sn

\* l2_fib_mk_seq_num: ((u16) bd_sn << 8) | if_sn, the BD byte high
l2_fib_mk_seq_num(bd_sn, if_sn) == bd_sn * 256 + if_sn

\* Fault: the mask keeps the interface byte instead of the BD byte.
UpdateSeqNumWrongMask(sn, if_sn) == (sn & 255) | if_sn

\* l2_fib_update_seq_num: sn &= 0xff00; sn |= if_sn
l2_fib_update_seq_num(sn, if_sn) == (sn \div 256) * 256 + if_sn

\* The two bytes of a combined sequence number (l2_fib_extract_seq_num)
SnBd(sn) == sn \div 256
SnIf(sn) == sn % 256
=============================================================================
