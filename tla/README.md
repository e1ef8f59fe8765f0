# TLA+ models of the VPP L2 FIB and the MFIB table

This directory holds TLA+ models of two parts of the VPP sources in `src/`:

- `src/src/vpp/src/vnet/l2/l2_fib.h`: the L2 forwarding (MAC) table. It covers the key and result encoding, the sequence-number epochs, and the batched lookups with their one-entry cache.
- `src/src/vpp/src/vnet/mfib/mfib_table.c`: one multicast FIB table. It covers per-source table locks, route insertion and removal under entry locks, cover notification on insert and remove, flush, and mark-and-sweep resync.

## Inventory of the system

| Part | Where | Concurrency | Model |
|---|---|---|---|
| Key codec `l2fib_make_key` | l2_fib.h:240-266 | pure | `L2FibCodec` |
| Sequence numbers `l2_fib_mk_seq_num`, `l2_fib_update_seq_num` | l2_fib.h:107-122 | pure | `L2FibCodec` |
| Result flags and result layout | l2_fib.h:128-176 | data | `L2Fib` (`Result`, flag constants) |
| Lookups `l2fib_lookup_1/2/4` and the one-entry cache | l2_fib.h:282-441 | packet workers, lock-free, concurrent with the writer | `L2Fib` reader actions |
| Writers: learn, add, filter add, delete, flushes, epoch resets | bodies in l2_fib.c / l2_learn.c (declared at l2_fib.h:443-466) | one control-plane thread | `L2Fib` writer actions, modelled from spec.md |
| Ager | l2_fib.c (not in src) | control-plane process | `L2Fib!AgeScan`, from spec.md |
| Learn/move event reporter | l2_fib.c (not in src) | control-plane process, periodic timer | `L2Fib!EventScan`, from spec.md §4.6 |
| Event listener (a control-plane client) and the mac_entry actions `l2_mac_event_action_t` | l2_fib.h:213-219; the client is outside the repository | receives the reporter's batches | not modelled |
| Dump, hash bucket | l2_fib.h:226-238, 471 | read-only | not modelled |
| MFIB table operations | mfib_table.c:137-830 | main thread only (`vlib_smp_unsafe_warning`) | `MFibTable` |
| MFIB cover notification (`get_less_specific`, post-insert actions, notify on remove) | mfib_table.c:106-202 | main thread | `MFibTable` (`cover`) |
| MFIB entry internals, cover tracking lists | mfib_entry.c, mfib_entry_cover.c (not in src) | main thread | abstracted inside `MFibTable` |
| Default route of a new table, removed at destroy | ip4/ip6_mfib.c (not in src), called from mfib_table.c:575-633, 761-777 | main thread | `MFibTable` (`DefaultEntry`, `Destroyed`) |
| What the MFIB table promises each source | — | — | `MFibRoutes`, refined by `MFibTable` |
| MFIB lookups, walks, format | mfib_table.c:75-104, 106-134, 836-851 | read-only | the exact match and the less-specific lookup are operators; `mfib_table_lookup` is not modelled, because no property reads it; walks are set comprehensions inside the actions; formatting is not modelled |

The two parts do not interact: `L2Fib` and `MFibTable` are independent modules.

## Modules

### `L2FibCodec` and `MCL2FibCodec`
TLC integers are 32-bit, so `L2FibCodec` represents a 64-bit word as four 16-bit limbs.
- `Load64` is the 8-byte `CLIB_MEM_OVERFLOW_LOAD` of the 6-byte MAC together with the two following bytes (`gh`). It byte-swaps on little-endian.
- `l2fib_make_key` does the shift and the BD merge of each byte order.
- The sequence-number operators are arithmetic.
- `MkSeqNumBits` and `UpdateSeqNumBits` are the literal Bitwise forms of the C. The codec run checks that the arithmetic and Bitwise forms agree.

`MCL2FibCodec` has one constant state per input case and checks two properties:
- `KeyInjective`: two (mac, garbage, bd) inputs on the same byte order give equal keys exactly when mac and bd mod 2^16 are equal. The garbage bytes differ.
- `SeqNumRoundTrip`: mk/update/extract recover the two 8-bit epochs and agree with the bitwise C expressions.

### `L2Fib` and `MCL2Fib`
The variables:
- `mac_table` is the bihash.
- `bd_sn` and `if_sn` are the 8-bit epochs.
- `now` is the ager's timestamp.
- `cache` is each worker's `cached_key`/`cached_result`.
- `pend` is a batched lookup whose searches are still running.
- `out` is the results of each worker's last lookup.
- `ev_cursor` is the position in `KeyOrder` where the event reporter's next cycle starts.
- History variables, used only by properties:
  - `frame`: per-worker frame parity;
  - `resets`: the true number of epoch increments;
  - `gen`: the reset counts each entry's sequence number was taken at;
  - `scans`: ager cycles so far.

Each result a worker holds is tagged with the key it was read for and the frame it was read in.

Writer actions (one control-plane thread, each atomic): `LearnStep` (new / move / refresh, static entries not moved), `l2fib_add_entry`, `l2fib_add_filter_entry`, `l2fib_del_entry` (owner only), `l2fib_flush_int_mac`, `l2fib_flush_bd_mac`, `l2fib_flush_all_mac`, `IfReset`, `BdReset`, `AgeScan`, `EventScan`.

`EventScan` is one cycle of the event reporter (spec.md §4.6):
- It walks the table in the fixed order `KeyOrder`, starting at `ev_cursor`.
- It reports up to `MaxEvMacs` entries carrying a learn or move flag and clears those flags with `l2fib_entry_result_clear_bits`.
- It leaves the cursor just past the last entry reported, so the remaining entries carry over to the next cycle.
- `MaxEvMacs = 0` switches the reporter off. The runs that use MAC symmetry do this, because a fixed walk order is not symmetric in the MACs.

Reader actions (per worker):
- `FrameStart`: the node resets `cached_key` to ~0.
- `l2fib_lookup_1`: one atomic step, because its one search is one atomic 64-bit read.
- `l2fib_lookup_2` and `l2fib_lookup_4` split into steps:
  - `BatchBegin`: key set-up and the all-hit test;
  - one `BatchSearch` per `clib_bihash_search_inline`, so the writer can run between them;
  - `BatchDone`: the results and the cache update.

### `MFibTable` and `MCMFibTable`
The variables:
- `alive`: the table exists.
- `locks` and `total_locks`: `mft_locks`.
- `route_count`: `mft_total_route_counts`.
- `entries`: prefix → entry, or `NoEntry`.
- `epoch` and `resync`: `mft_epoch` and the RESYNC flag.
- `cover`: for each entry, the prefix of the entry it tracks as its cover.
- History variables:
  - `uaf`: some handle was used after it was freed;
  - `marking`: a mark not yet swept;
  - `fresh`: the prefixes each source has sourced since its mark.

An entry is its reference count and, per source, its flags, paths and stale mark. The sources include `DefaultRoute`, the IP4/IP6 code's own source for the default prefix:
- creating a table adds the default entry (`DefaultEntry`);
- destroying a table (`Destroyed`) deletes that source from what is left at the default prefix. The IP4/IP6 destroy then asserts a zero route count, which `TableDestroyedEmpty` checks.

Covers:
- Prefixes form a tree given by `Parent`, with `DefaultPrefix` at the top. `Hosts` are the (S,G) prefixes, which can cover nothing.
- `LessSpecificIn` is `mfib_table_get_less_specific`: the most specific entry strictly above a prefix (`LongestMatch`). The default prefix finds itself.
- Every entry is modelled as tracking its cover, chosen when it is created.
- `Insert` runs `mfib_table_post_insert_actions`: unless the new entry is its own cover or a host route, the dependents of its cover look their cover up again.
- `CoverAfterRemove` is the notify in `mfib_table_entry_remove`: after the unlink, the removed entries' dependents look their cover up again.

 Each exported function is one action, because the file runs only on the main thread. Inside an action, the entry is followed as a handle through the exact sequence of `mfib_entry_lock`/`_unlock` calls the function makes. `FinishLocked` is the shared tail: remove-if-no-source, then unlock. An entry-level update drops a source left with no flags and no paths (`SetSrc`). A special add never does: `mfib_table_entry_special_add` creates or updates the entry whatever the flags, and it never removes one.

### `MFibRoutes`
This is the abstract specification of what the table promises its sources. The variables:
- `exists`: the table exists.
- `users`: the sources holding a lock.
- `routes`: for each prefix, the sources contributing to it.

There are three actions:
- `Open(s)`: a source takes the table.
- `Change(s)`: a holder sets its own contribution to any set of prefixes and touches nobody else's.
- `Leave(s)`: a holder lets go, losing all its routes. The last holder takes the table with it.

`MFibTable!Routes` instantiates it with this refinement mapping:
- `exists <- alive`;
- `users <- {s : locks[s] > 0}`;
- `routes <- the sources with state on each prefix's entry`.

`RoutesRefined` checks `Routes!Spec` as a property. At the abstract level, the following are all stuttering steps or `Change`/`Leave` steps of the calling source:
- entries shared by two sources;
- the temporary entry locks;
- route counts;
- mark, sweep and flush.

## Runs

| Run | cfg | Expect | What it shows |
|---|---|---|---|
| codec | MCL2FibCodec.cfg | pass | The key is injective on (mac, 16-bit bd) for both byte orders. The seq-num helpers are exact. |
| writer | MCL2FibWriter.cfg | pass | The table budget is respected. Epoch stale detection is sound within 1 reset per BD/interface. |
| lookup | MCL2FibLookup.cfg | pass | With the writer interleaved between batched searches, every result returned or cached was read for its own key in the current frame. |
| events | MCL2FibEvents.cfg | pass | Under weak fairness of the reporter, every pending learn/move event is eventually reported. This holds with a per-cycle cap of 1, three entries, and an entry flapping between two interfaces. A walk that restarts at the head of the table each cycle starves the others (mutant `EventScanFromStart`). |
| cache_seed | MCL2FibCacheSeed.cfg | violation | `l2fib_lookup_4` caches key1, but spec.md says the last key (finding). |
| stale_hit | MCL2FibStaleHit.cfg | violation | A cache hit returns the pre-mutation copy (finding). |
| repeat_hit | MCL2FibRepeat.cfg | violation | A batched lookup of two different keys, repeated at once, misses the cache again and queries the store. spec.md §8 says a repeat lookup of the same keys hits the cache (finding). |
| seq_wrap | MCL2FibSeqWrap.cfg | violation | 256 interface resets wrap the 8-bit epoch, and an old entry looks current (finding). |
| mfib_table | MCMFibTable.cfg | pass | Route count, entry lock discipline (no use after free, no orphan entries), exact mark-and-sweep, and no routes left in a destroyed table. `RoutesRefined`: the table implements `MFibRoutes`, so no call changes another source's routes, and a source's last unlock removes exactly its own; a delete that drops every source's state is caught (mutant `EntryDeleteAll`). |
| mfib_cover | MCMFibCover.cfg | pass | Every entry's cover is the most specific entry above it, after any sequence of inserts and removals beneath, above and beside it, including flush, sweep and destroy. A remove that notifies before the unlink is caught (mutant `NotifyBeforeUnlink`). |

Every property of a passing run has a mutant in `PROJECT.json`. A mutant is a plausible code bug, defined next to the operator it replaces, and TLC finds the property violated with the mutant in place.

## Bounds

- **Codec:** inputs take the boundary values of each field: 0, 1, 255, 65535, and a MAC with distinct bytes.
- **Writer run:** one MAC in two BDs, two interfaces, capacity 1 (so the budget is hit), one reset per epoch, and two ager scans (enough for an entry to age out). Admin flag sets cover static and age-exempt.
- **Lookup run:** one worker, two MACs and capacity 2. This covers a batch with mixed keys and a writer step between its searches.
- **Events run:** one MAC in three BDs (three keys), two interfaces and a cap of 1 entry per cycle. More entries are pending than a cycle reports, and one of them can be re-flagged by moves between every pair of cycles. It has no symmetry, because liveness checking under symmetry is unsound. The size is set by TLC's liveness checking: four keys did not finish in 10 minutes.
- **Seq-wrap run:** 256 resets of one interface, the least that wraps.
- **MFIB run:** two sources (so one source's unlock and flush can run while the other holds the table), two prefixes (the default and one group beneath it), one path, one flag, one lock per source and two marks. Two marks let both sources be between a mark and a sweep at once, which is the RESYNC case. The refinement is checked in the same run. With two locks per source the run took over 5 minutes, and a third prefix did not finish in 15 minutes. With these bounds:
  - a source locks, marks, refreshes only some entries and sweeps;
  - the other source shares entries;
  - the table is destroyed and recreated;
  - one source leaves while the other holds the table.

- **MFIB cover run:** one source, one lock, one mark, and four prefixes: the default, groups g1 and g2 beneath it, and host sg1 beneath g1. This is the least tree where an entry can be inserted or removed between an entry and its cover (g1 over sg1), beside it (g2), or beneath it (sg1, with host elision).

Symmetry is used only over model values that no definition distinguishes: MACs and interfaces, and sources. The MFIB runs have only one prefix besides the default, so prefix symmetry does not apply.

## Fairness

Only the events run assumes fairness: `LiveSpec == Spec /\ WF_vars(EventScan)`. This is justified because the reporter is a process on a periodic timer (`event_scan_delay`, default 100 ms) of the main thread, so while it has something to report it keeps being scheduled.
- No fairness is assumed for learning, deletes, flushes or packet workers. They may stop, or keep re-flagging entries forever.
- Weak fairness is enough because the reporter stays enabled while any event is pending.

Every run checks deadlock, and no state is stuck:
- the L2 writer can always flush;
- a destroyed MFIB table can always be recreated.

## Not modelled

- The learn limit, and DELETE events. spec.md §2 and §4.6 say the reporter emits add, delete and move notifications, and §1 names age events, but §4.6 describes a scan that collects only entries with a pending learn or move flag; which removals become DELETE events is decided in l2_fib.c, which is not in src.
- The event listener (the client of `l2_mac_event_action_t`), which is outside the repository.
- The table-wide RESYNC flag's meaning to its readers. One source's sweep clears it while another source is still between its mark and its sweep; nothing in src says what a reader of the flag may conclude from it, so no property states it.
- Eviction as a liveness property. The ager is bounded by `MaxScans` to keep the state space finite, so "an unrefreshed entry is eventually evicted" cannot be stated; within the bound, eviction after two scans is part of `AgeScan`.
- The bucket hash `l2fib_compute_hash_bucket`. It calls `hash_mix32`, which is not in src.
- `mfib_table_lookup` and the IP4/IP6 tries behind it. The less-specific lookup is modelled as the longest match over the prefix tree.
- `l2fib_table_dump`, which is only declared in l2_fib.h. Its body is not in src, and the dump reads the table on the one writer thread, so in this model it is one atomic read that no property depends on.
- Bihash internals: a search is one atomic read, as a 64-bit aligned load is on the supported targets.
- Which entries track a cover: in the code, only sources that resolve through the cover do. Every entry is modelled as tracking one, which checks the notifications for all of them.
- The IP4/IP6 special entries a new table gets besides the default route.
- The IP4/IP6 tries.
- Read-only MFIB functions.
- Formatting.

## Plan for later sittings

1. (done: `EventsReported`)
2. Delete/learn races between an API delete and data-plane learning (the delete-owner check against a move). The check is one guard of a spec-modelled action, so it needs the l2_fib.c bodies to say more than the guard.
3. An abstract map specification of the lookup engine, with `L2Fib` shown to refine it frame by frame (the MFIB refinement is done: `RoutesRefined`).
4. (done: `CoverAccurate`)
5. What readers of the RESYNC flag may conclude from it, if the code that reads it is added to src.
