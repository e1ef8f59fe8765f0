---------------------------- MODULE MCL2FibCodec ----------------------------
(***************************************************************************)
(* Checks the L2FIB codec against reference definitions over bounded      *)
(* inputs: every state is one test case, chosen in Init.                  *)
(***************************************************************************)
EXTENDS L2FibCodec

CONSTANTS MacWords, GhWords, BdIndices, SnBytes

VARIABLE case

\* two MAC/BD inputs built on the same architecture, with any overflow bytes
KeyCase == [kind: {"key"}, bigEndian: BOOLEAN,
            mac1: MacWords \X MacWords \X MacWords, gh1: GhWords, bd1: BdIndices,
            mac2: MacWords \X MacWords \X MacWords, gh2: GhWords, bd2: BdIndices]

SnCase == [kind: {"sn"}, bd: U8, if1: U8, if2: SnBytes]

Init == case \in KeyCase \cup SnCase
Next == UNCHANGED case
Spec == Init /\ [][Next]_case

TypeOK == case \in KeyCase \cup SnCase

\* Reference key: the (MAC, 16-bit BD index) pair itself
KeyRef(mac, bd) == << mac, bd % 65536 >>

(***************************************************************************)
(* l2fib_make_key is collision free and ignores the two bytes its 8-byte  *)
(* load reads past the MAC: two keys are equal exactly when the MAC and   *)
(* the 16-bit BD index are, on either byte order.                         *)
(***************************************************************************)
KeyInjective ==
    case.kind = "key" =>
      LET k1 == l2fib_make_key(case.mac1, case.gh1, case.bd1, case.bigEndian)
          k2 == l2fib_make_key(case.mac2, case.gh2, case.bd2, case.bigEndian)
      IN  (k1 = k2) <=> (KeyRef(case.mac1, case.bd1) = KeyRef(case.mac2, case.bd2))

(***************************************************************************)
(* The combined sequence number round-trips both bytes, and               *)
(* l2_fib_update_seq_num replaces the interface byte while keeping the    *)
(* BD byte: update(mk(b, i), j) = mk(b, j); both agree with the code's   *)
(* shift, mask and OR over every pair of 8-bit inputs.                     *)
(***************************************************************************)
SeqNumRoundTrip ==
    case.kind = "sn" =>
      LET sn == l2_fib_mk_seq_num(case.bd, case.if1)
      IN  /\ SnBd(sn) = case.bd
          /\ SnIf(sn) = case.if1
          /\ l2_fib_update_seq_num(sn, case.if2) = l2_fib_mk_seq_num(case.bd, case.if2)
          /\ sn = MkSeqNumBits(case.bd, case.if1)
          /\ l2_fib_update_seq_num(sn, case.if2) = UpdateSeqNumBits(sn, case.if2)
=============================================================================
