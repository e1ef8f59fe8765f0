-------------------------------- MODULE L2Fib --------------------------------
(***************************************************************************)
(* The L2 forwarding (MAC) table of src/src/vpp/src/vnet/l2/l2_fib.h:     *)
(* one hash table mutated by a single control-plane writer (learn, add,   *)
(* delete, flush, epoch reset, ager) and read lock-free by packet         *)
(* workers through l2fib_lookup_1/2/4, each worker keeping the one-entry  *)
(* cache (cached_key, cached_result) that the lookups read and update.    *)
(*                                                                         *)
(* A key is the pair <<mac, bd>>: MCL2FibCodec checks that l2fib_make_key *)
(* is injective on such pairs.  A result is the record of the fields of   *)
(* l2fib_entry_result_t; an absent key reads as the all-ones NotFound.    *)
(* Each bihash search reads one 64-bit result atomically, so a batched    *)
(* lookup is one step per search and the writer may act between them.    *)
(***************************************************************************)
EXTENDS Naturals, Sequences, FiniteSets

CONSTANTS
    Macs,       \* MAC addresses (model values)
    Bds,        \* bridge-domain indices
    Ifs,        \* sw_if_index values of interfaces (model values)
    NoSwIf,     \* the sw_if_index ~0 of a filter entry
    NoKey,      \* the ~0 key a worker's cache starts a frame with
    Workers,    \* packet-processing threads
    Capacity,   \* entries the bihash memory budget holds
    MaxIfResets, \* bound on the epoch increments of each interface
    MaxBdResets, \* bound on the epoch increments of each BD
    MaxScans,   \* bound on ager cycles
    AdminFlags, \* flag sets administrative adds are made with
    MaxEvMacs,  \* entries reported per event-scan cycle (0: no reporter)
    KeyOrder    \* the order the scans walk the table in

ASSUME NoSwIf \notin Ifs /\ AdminFlags \subseteq SUBSET (0 .. 7) /\ Capacity \in Nat /\ MaxIfResets \in Nat /\ MaxBdResets \in Nat /\ MaxScans \in Nat

Codec == INSTANCE L2FibCodec

VARIABLES
    mac_table,  \* the bihash: key -> result, NotFound where absent
    bd_sn,      \* per-BD 8-bit sequence number (epoch)
    if_sn,      \* per-interface 8-bit sequence number (epoch)
    now,        \* the ager's 8-bit timestamp, advanced once per scan
    cache,      \* per worker: [key, result] one-entry cache
    pend,       \* per worker: batched lookup in progress, or NoBatch
    out,        \* per worker: <<key, result>> pairs the last lookup returned
    frame,      \* history: per worker, parity of its current frame
    resets,     \* history: epoch increments so far, per BD and per interface
    gen,        \* history: per key, the reset counts its sn was taken at
    scans,      \* history: ager cycles so far
    ev_cursor   \* position in KeyOrder the next event scan starts at

writer == << mac_table, bd_sn, if_sn, now, resets, gen, scans, ev_cursor >>
reader == << cache, pend, out >>
vars   == << writer, reader, frame >>

Keys == Macs \X Bds

ASSUME MaxEvMacs \in Nat /\ KeyOrder \in Seq(Keys) /\ Len(KeyOrder) = Cardinality(Keys)
       /\ \A k \in Keys : \E j \in 1 .. Len(KeyOrder) : KeyOrder[j] = k

\* l2fib_entry_result_flags_t bit positions
STATIC == 0
AGE_NOT == 1
BVI == 2
FILTER == 3
LRN_EVT == 4
LRN_MOV == 5

Result == [sw_if_index: Ifs \cup {NoSwIf}, flags: SUBSET (0 .. 7),
           timestamp: 0 .. 255, sn: 0 .. 65535]

\* kv.value = ~0ULL left in place by a failed search
NotFound == [sw_if_index |-> NoSwIf, flags |-> 0 .. 7, timestamp |-> 255, sn |-> 65535]

NoBatch == << >>

Present(k) == mac_table[k] # NotFound

l2fib_entry_result_set_bits(r, bits) == [r EXCEPT !.flags = @ \cup bits]
l2fib_entry_result_clear_bits(r, bits) == [r EXCEPT !.flags = @ \ bits]
IsStatic(r) == STATIC \in r.flags
NEntries == Cardinality({k \in Keys : Present(k)})

\* the sequence number a frame from interface i in BD b carries
CurrentSn(b, i) == Codec!l2_fib_mk_seq_num(bd_sn[b], if_sn[i])
Generation(b, i) == [bd |-> resets.bd[b], if |-> resets.if[i]]

\* A result as a worker holds it: the value, tagged (history) with the key
\* it was read for and the frame it was read in.
Tagged(v, k, w) == [val |-> v, from |-> k, frame |-> frame[w]]
ReadTable(k, w) == Tagged(mac_table[k], k, w)
EmptyCache(w) == [key |-> NoKey, result |-> Tagged(NotFound, NoKey, w)]

Init ==
    /\ mac_table = [k \in Keys |-> NotFound]
    /\ bd_sn = [b \in Bds |-> 0]
    /\ if_sn = [i \in Ifs |-> 0]
    /\ now = 0
    /\ frame = [w \in Workers |-> 0]
    /\ cache = [w \in Workers |-> EmptyCache(w)]
    /\ pend = [w \in Workers |-> NoBatch]
    /\ out = [w \in Workers |-> << >>]
    /\ resets = [bd |-> [b \in Bds |-> 0], if |-> [i \in Ifs |-> 0]]
    /\ gen = [k \in Keys |-> [bd |-> 0, if |-> 0]]
    /\ scans = 0
    /\ ev_cursor = 1

-----------------------------------------------------------------------------
(* Writer: the control-plane thread.                                       *)

\* Fault: a failed bihash add (memory budget exhausted) goes unnoticed.
StoreNoBudget(k, r) == mac_table' = [mac_table EXCEPT ![k] = r]

\* Insert or overwrite key k; a new key needs room in the bihash budget.
Store(k, r) ==
    /\ Present(k) \/ NEntries < Capacity
    /\ mac_table' = [mac_table EXCEPT ![k] = r]

\* Learning of a source MAC seen on interface i in BD b (data path).
Learn(m, b, i) ==
    LET k == << m, b >>
        e == mac_table[k]
    IN  \/ /\ ~Present(k)
           /\ Store(k, [sw_if_index |-> i, flags |-> {LRN_EVT}, timestamp |-> now,
                        sn |-> CurrentSn(b, i)])
           /\ gen' = [gen EXCEPT ![k] = Generation(b, i)]
        \/ /\ Present(k) /\ ~IsStatic(e) /\ e.sw_if_index # i
           \* MAC move: refresh only the interface byte of the sequence number
           /\ mac_table' = [mac_table EXCEPT ![k] =
                 [l2fib_entry_result_set_bits(e, {LRN_MOV}) EXCEPT
                           !.sw_if_index = i, !.timestamp = now,
                           !.sn = Codec!l2_fib_update_seq_num(e.sn, if_sn[i])]]
           /\ gen' = [gen EXCEPT ![k].if = resets.if[i]]
        \/ /\ Present(k) /\ ~IsStatic(e) /\ e.sw_if_index = i
           /\ mac_table' = [mac_table EXCEPT ![k] =
                 [e EXCEPT !.timestamp = now, !.sn = CurrentSn(b, i)]]
           /\ gen' = [gen EXCEPT ![k] = Generation(b, i)]

LearnStep(m, b, i) ==
    /\ Learn(m, b, i)
    /\ UNCHANGED << bd_sn, if_sn, now, resets, scans, ev_cursor, reader, frame >>

\* l2fib_add_entry: provisioned entry, overwrites whatever is there.
l2fib_add_entry(m, b, i, flags) ==
    LET k == << m, b >>
    IN  /\ Store(k, [sw_if_index |-> i, flags |-> flags, timestamp |-> now,
                     sn |-> IF i = NoSwIf THEN Codec!l2_fib_mk_seq_num(bd_sn[b], 0)
                                          ELSE CurrentSn(b, i)])
        /\ gen' = [gen EXCEPT ![k] = [bd |-> resets.bd[b],
                                      if |-> IF i = NoSwIf THEN 0 ELSE resets.if[i]]]
        /\ UNCHANGED << bd_sn, if_sn, now, resets, scans, ev_cursor, reader, frame >>

\* l2fib_add_filter_entry: static drop entry with sw_if_index ~0
l2fib_add_filter_entry(m, b) == l2fib_add_entry(m, b, NoSwIf, {FILTER, STATIC})

\* l2fib_del_entry: only the entry currently owned by sw_if_index i
l2fib_del_entry(m, b, i) ==
    LET k == << m, b >>
    IN  /\ Present(k) /\ mac_table[k].sw_if_index = i
        /\ mac_table' = [mac_table EXCEPT ![k] = NotFound]
            /\ UNCHANGED << bd_sn, if_sn, now, resets, gen, scans, ev_cursor, reader, frame >>

\* Remove every key satisfying P.
RemoveWhere(P(_)) ==
    /\ mac_table' = [k \in Keys |-> IF P(k) THEN NotFound ELSE mac_table[k]]
    /\ UNCHANGED << bd_sn, if_sn, now, resets, gen, scans, ev_cursor, reader, frame >>

l2fib_flush_int_mac(i) ==
    LET P(k) == Present(k) /\ ~IsStatic(mac_table[k]) /\ mac_table[k].sw_if_index = i
    IN  RemoveWhere(P)

l2fib_flush_bd_mac(b) ==
    LET P(k) == Present(k) /\ ~IsStatic(mac_table[k]) /\ k[2] = b
    IN  RemoveWhere(P)

l2fib_flush_all_mac ==
    LET P(k) == Present(k)
    IN  RemoveWhere(P)

\* Reset of an interface's learning state (link flap): epoch + 1, mod 2^8
IfReset(i) ==
    /\ resets.if[i] < MaxIfResets
    /\ if_sn' = [if_sn EXCEPT ![i] = (@ + 1) % 256]
    /\ resets' = [resets EXCEPT !.if[i] = @ + 1]
    /\ UNCHANGED << mac_table, bd_sn, now, gen, scans, ev_cursor, reader, frame >>

BdReset(b) ==
    /\ resets.bd[b] < MaxBdResets
    /\ bd_sn' = [bd_sn EXCEPT ![b] = (@ + 1) % 256]
    /\ resets' = [resets EXCEPT !.bd[b] = @ + 1]
    /\ UNCHANGED << mac_table, if_sn, now, gen, scans, ev_cursor, reader, frame >>

\* One ager cycle: advance the timestamp and evict every dynamic entry
\* not refreshed since before the previous cycle.
AgeScan ==
    LET t == (now + 1) % 256
        Old(k) == /\ Present(k)
                  /\ {STATIC, AGE_NOT} \cap mac_table[k].flags = {}
                  /\ (t - mac_table[k].timestamp + 256) % 256 >= 2
    IN  /\ scans < MaxScans
        /\ now' = t
        /\ scans' = scans + 1
        /\ mac_table' = [k \in Keys |-> IF Old(k) THEN NotFound ELSE mac_table[k]]
        /\ UNCHANGED << bd_sn, if_sn, resets, gen, ev_cursor, reader, frame >>

\* An entry with a learn or move event not yet reported.
Pending(k) == Present(k) /\ {LRN_EVT, LRN_MOV} \cap mac_table[k].flags # {}

\* The table in walk order, starting at position c and wrapping around.
WalkFrom(c) == [j \in 1 .. Len(KeyOrder) |-> KeyOrder[((c + j - 2) % Len(KeyOrder)) + 1]]
PosOf(k) == CHOOSE j \in 1 .. Len(KeyOrder) : KeyOrder[j] = k

\* The entries a reporter cycle from position c reports, in walk order:
\* the first MaxEvMacs pending entries met.
ReportedFrom(c) ==
    LET pending == SelectSeq(WalkFrom(c), Pending)
    IN  SubSeq(pending, 1, IF Len(pending) < MaxEvMacs THEN Len(pending) ELSE MaxEvMacs)

\* One reporter cycle from position c: the entries reported have their
\* event flags cleared; the cursor moves past the last one reported, so
\* the rest carry over to the next cycle.
ReportFrom(c) ==
    LET got == ReportedFrom(c)
        sent == {got[j] : j \in 1 .. Len(got)}
    IN  /\ got # << >>
        /\ mac_table' = [k \in Keys |-> IF k \in sent
                                          THEN l2fib_entry_result_clear_bits(mac_table[k], {LRN_EVT, LRN_MOV})
                                          ELSE mac_table[k]]
        /\ ev_cursor' = (PosOf(got[Len(got)]) % Len(KeyOrder)) + 1
        /\ UNCHANGED << bd_sn, if_sn, now, resets, gen, scans, reader, frame >>

\* Fault: every cycle restarts the walk at the head of the table.
EventScanFromStart == ReportFrom(1)

\* The event reporter process (spec 4.6), resuming at its cursor.
EventScan == ReportFrom(ev_cursor)

-----------------------------------------------------------------------------
(* Readers: packet workers.                                                *)

\* A new frame: the forwarding node starts with cached_key = ~0
FrameStart(w) ==
    /\ pend[w] = NoBatch
    /\ frame' = [frame EXCEPT ![w] = 1 - @]
    /\ cache' = [cache EXCEPT ![w] = [key |-> NoKey, result |-> Tagged(NotFound, NoKey, w)']]
    /\ out' = [out EXCEPT ![w] = << >>]
    /\ UNCHANGED << writer, pend >>

l2fib_lookup_1(w, k) ==
    /\ pend[w] = NoBatch
    /\ IF k = cache[w].key
         THEN /\ out' = [out EXCEPT ![w] = << << k, cache[w].result >> >>]
              /\ UNCHANGED cache
         ELSE /\ out' = [out EXCEPT ![w] = << << k, ReadTable(k, w) >> >>]
              /\ cache' = [cache EXCEPT ![w] = [key |-> k, result |-> ReadTable(k, w)]]
    /\ UNCHANGED << writer, pend, frame >>

\* Key set-up and the all-keys-hit test of l2fib_lookup_2 / l2fib_lookup_4;
\* on a miss the searches follow as separate steps.
BatchBegin(w, ks) ==
    /\ pend[w] = NoBatch
    /\ IF \A j \in 1 .. Len(ks) : ks[j] = cache[w].key
         THEN /\ out' = [out EXCEPT ![w] = [j \in 1 .. Len(ks) |-> << ks[j], cache[w].result >>]]
              /\ UNCHANGED pend
         ELSE /\ pend' = [pend EXCEPT ![w] = [keys |-> ks, res |-> << >>]]
              /\ out' = [out EXCEPT ![w] = << >>]
    /\ UNCHANGED << writer, cache, frame >>

l2fib_lookup_2(w, k0, k1) == BatchBegin(w, << k0, k1 >>)
l2fib_lookup_4(w, k0, k1, k2, k3) == BatchBegin(w, << k0, k1, k2, k3 >>)

\* One BV(clib_bihash_search_inline): an atomic read of the next key
BatchSearch(w) ==
    LET p == pend[w] IN
    /\ p # NoBatch
    /\ Len(p.res) < Len(p.keys)
    /\ pend' = [pend EXCEPT ![w].res = Append(@, ReadTable(p.keys[Len(p.res) + 1], w))]
    /\ UNCHANGED << writer, cache, out, frame >>

\* Fault: the cache takes key1 but result0.
BatchDoneMixedPair(w) ==
    LET p == pend[w] IN
    /\ p # NoBatch
    /\ Len(p.res) = Len(p.keys)
    /\ out' = [out EXCEPT ![w] = [j \in 1 .. Len(p.keys) |-> << p.keys[j], p.res[j] >>]]
    /\ cache' = [cache EXCEPT ![w] = [key |-> p.keys[2], result |-> p.res[1]]]
    /\ pend' = [pend EXCEPT ![w] = NoBatch]
    /\ UNCHANGED << writer, frame >>

\* Results written out; the one-entry cache takes key1/result1
BatchDone(w) ==
    LET p == pend[w] IN
    /\ p # NoBatch
    /\ Len(p.res) = Len(p.keys)
    /\ out' = [out EXCEPT ![w] = [j \in 1 .. Len(p.keys) |-> << p.keys[j], p.res[j] >>]]
    /\ cache' = [cache EXCEPT ![w] = [key |-> p.keys[2], result |-> p.res[2]]]
    /\ pend' = [pend EXCEPT ![w] = NoBatch]
    /\ UNCHANGED << writer, frame >>

-----------------------------------------------------------------------------
WriterNext ==
    \/ \E m \in Macs, b \in Bds, i \in Ifs : LearnStep(m, b, i)
    \/ \E m \in Macs, b \in Bds, i \in Ifs, f \in AdminFlags : l2fib_add_entry(m, b, i, f)
    \/ \E m \in Macs, b \in Bds : l2fib_add_filter_entry(m, b)
    \/ \E m \in Macs, b \in Bds, i \in Ifs \cup {NoSwIf} : l2fib_del_entry(m, b, i)
    \/ \E i \in Ifs : l2fib_flush_int_mac(i) \/ IfReset(i)
    \/ \E b \in Bds : l2fib_flush_bd_mac(b) \/ BdReset(b)
    \/ l2fib_flush_all_mac
    \/ AgeScan
    \/ EventScan

ReaderNext ==
    \E w \in Workers :
        \/ FrameStart(w)
        \/ \E k \in Keys : l2fib_lookup_1(w, k)
        \/ \E k0, k1 \in Keys : l2fib_lookup_2(w, k0, k1)
        \/ \E k0, k1, k2, k3 \in Keys : l2fib_lookup_4(w, k0, k1, k2, k3)
        \/ BatchSearch(w)
        \/ BatchDone(w)

Next == WriterNext \/ ReaderNext

Spec == Init /\ [][Next]_vars

\* The reporter runs on a periodic timer of the main thread: whenever it has
\* something to report it is eventually scheduled.
LiveSpec == Spec /\ WF_vars(EventScan)

-----------------------------------------------------------------------------
Held == [val: Result, from: Keys \cup {NoKey}, frame: {0, 1}]

TypeOK ==
    /\ mac_table \in [Keys -> Result]
    /\ bd_sn \in [Bds -> 0 .. 255] /\ if_sn \in [Ifs -> 0 .. 255] /\ now \in 0 .. 255
    /\ cache \in [Workers -> [key: Keys \cup {NoKey}, result: Held]]
    /\ \A w \in Workers : pend[w] = NoBatch \/ Len(pend[w].res) <= Len(pend[w].keys)
    /\ out \in [Workers -> Seq(Keys \X Held)]
    /\ NEntries <= Capacity
    /\ ev_cursor \in 1 .. Len(KeyOrder)

(***************************************************************************)
(* Lookups through the one-entry cache return, for every key, a result    *)
(* read from the table for that very key during the worker's current      *)
(* frame: l2fib_lookup_1/2/4 copy key and result into the cache as one    *)
(* pair, and the cache is emptied when a frame starts.  A cache holding a *)
(* result under another key's name, or surviving into the next frame,     *)
(* fails this.                                                            *)
(***************************************************************************)
ReadForKey(k, r, w) == r.from = k /\ r.frame = frame[w]

LookupFresh ==
    \A w \in Workers :
        /\ \A j \in 1 .. Len(out[w]) : ReadForKey(out[w][j][1], out[w][j][2], w)
        /\ cache[w].key # NoKey => ReadForKey(cache[w].key, cache[w].result, w)

(***************************************************************************)
(* The sequence-number epoch check: an entry whose sn equals the sequence *)
(* number a frame from its interface now carries was (re)learned after    *)
(* the last reset of its BD and of that interface.  This is what lets     *)
(* forwarding treat older entries as stale without a table walk.          *)
(***************************************************************************)
LooksCurrent(k) ==
    /\ Present(k) /\ mac_table[k].sw_if_index \in Ifs
    /\ mac_table[k].sn = CurrentSn(k[2], mac_table[k].sw_if_index)

EpochStaleDetected ==
    \A k \in Keys :
        LooksCurrent(k) => gen[k] = Generation(k[2], mac_table[k].sw_if_index)

(***************************************************************************)
(* Spec 4.3: after a batched lookup misses, the cache is refreshed with   *)
(* the LAST key and result of the batch.                                  *)
(***************************************************************************)
CacheSeedLast ==
    [][\A w \in Workers :
         pend[w] # NoBatch /\ pend'[w] = NoBatch =>
             cache'[w].key = pend[w].keys[Len(pend[w].keys)]]_vars

(***************************************************************************)
(* Spec 3: the cached copy is never treated as authoritative once the     *)
(* entry is mutated: a single lookup returns the table's current value.   *)
(***************************************************************************)
LookupCurrent ==
    [][\A w \in Workers, k \in Keys :
         l2fib_lookup_1(w, k) => out'[w][1][2].val = mac_table[k]]_vars

(***************************************************************************)
(* Spec 8, cache correctness: after a lookup, an immediate repeat lookup  *)
(* of the exact same keys, single or batched, hits the one-entry cache    *)
(* and makes no store query.  For l2fib_lookup_2/4 this is the all-hit    *)
(* test of BatchBegin on the keys the worker has just looked up.          *)
(***************************************************************************)
LastKeys(w) == [j \in 1 .. Len(out[w]) |-> out[w][j][1]]

RepeatHitsCache ==
    [][\A w \in Workers :
         Len(out[w]) \in {2, 4} /\ BatchBegin(w, LastKeys(w)) => pend'[w] = NoBatch]_vars

(***************************************************************************)
(* Spec 4.6: delivery is eventually consistent.  An entry with a pending  *)
(* learn or move event has it reported (its flag cleared) or is gone,     *)
(* even with more pending entries than a cycle may report and with other  *)
(* entries flapping between interfaces and re-flagged between cycles.     *)
(***************************************************************************)
EventsReported ==
    \A k \in Keys : Pending(k) ~> ~Pending(k)
=============================================================================
