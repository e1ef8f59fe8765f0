------------------------------ MODULE MFibTable ------------------------------
(***************************************************************************)
(* One multicast FIB table of src/src/vpp/src/vnet/mfib/mfib_table.c:     *)
(* the per-source table locks (mft_locks), the route count, the entries   *)
(* keyed by prefix, and the mark-and-sweep resynchronisation per source.  *)
(*                                                                         *)
(* All of it runs on the main thread (vlib_smp_unsafe_warning), so each   *)
(* exported function is one atomic action.  Inside an action, an entry is *)
(* followed through the sequence of mfib_entry_lock / _unlock calls the   *)
(* function makes, as a handle with its reference count; an unlock that   *)
(* drops the count to zero frees the entry, and any later touch of the   *)
(* handle is recorded as a use after free.                                *)
(*                                                                         *)
(* An entry's per-source state (mfib_entry.c, not part of this file) is   *)
(* abstracted to the source's flags, paths and stale mark: a source stays *)
(* on an entry while it has flags or paths, and an entry with no source   *)
(* left is removed from the table.  The protocol switch (IP4/IP6) is one  *)
(* table.  A new table holds the default route, prefix (0,0)/0, added    *)
(* by the IP4/IP6 table code at creation under its own source and        *)
(* deleted again when the table is destroyed.                             *)
(*                                                                         *)
(* Prefixes form a tree (Parent); the cover of an entry is the most       *)
(* specific entry above it.  Every entry is modelled as tracking its      *)
(* cover (mfib_entry_cover.c): the file's part is to notify, on insert   *)
(* and on remove, the entries whose cover may have changed.               *)
(***************************************************************************)
EXTENDS Naturals, FiniteSets

CONSTANTS
    Sources,     \* mfib_source_t values that use the table
    Prefixes,    \* (S,G) / (*,G) prefixes
    Paths,       \* fib_route_path_t values
    Flags,       \* mfib_entry_flags_t bits other than EXCLUSIVE
    EXCLUSIVE,   \* MFIB_ENTRY_FLAG_EXCLUSIVE
    NoEntry,     \* FIB_NODE_INDEX_INVALID: no entry for the prefix
    NoSrc,       \* the source has no state on the entry
    MaxLocks,    \* bound on a source's lock count
    MaxMarks,    \* bound on mark calls (mft_epoch)
    DefaultRoute, \* MFIB_SOURCE_DEFAULT_ROUTE, the source of the (*,*/0) entry
    DROP,        \* MFIB_ENTRY_FLAG_DROP, the default route's flag
    DefaultPrefix, \* (*,*/0)
    Parent,      \* prefix -> the next less specific prefix, (*,*/0) at the top
    Hosts        \* the host prefixes (S,G)/64, for which mfib_entry_is_host holds

ASSUME /\ {EXCLUSIVE, DROP} \cap Flags = {} /\ EXCLUSIVE # DROP
       /\ MaxLocks \in Nat /\ MaxMarks \in Nat /\ DefaultRoute \notin Sources
       /\ DefaultPrefix \in Prefixes /\ Parent \in [Prefixes \ {DefaultPrefix} -> Prefixes]
       /\ Hosts \subseteq Prefixes \ {DefaultPrefix}
       /\ \A p \in DOMAIN Parent : Parent[p] \notin Hosts

VARIABLES
    alive,       \* the table exists (created, not yet destroyed)
    locks,       \* mft_locks[source]
    total_locks, \* mft_locks[MFIB_TABLE_TOTAL_LOCKS]
    route_count, \* mft_total_route_counts
    entries,     \* prefix -> [lock, srcs] or NoEntry
    epoch,       \* mft_epoch
    resync,      \* MFIB_TABLE_FLAG_RESYNC in mft_flags
    uaf,         \* history: some entry handle was used after it was freed
    marking,     \* history: per source, a mark not yet followed by a sweep
    fresh,       \* history: per source, prefixes it (re)sourced since its last mark
    cover        \* prefix -> the prefix of the entry its entry tracks as cover

vars == << alive, locks, total_locks, route_count, entries, epoch, resync,
           uaf, marking, fresh, cover >>

AllSources == Sources \cup {DefaultRoute}
SrcState == [flags: SUBSET (Flags \cup {EXCLUSIVE, DROP}), paths: SUBSET Paths, stale: BOOLEAN]
Entry == [lock: Nat, srcs: [AllSources -> SrcState \cup {NoSrc}]]

Sourced(e, s) == e # NoEntry /\ e.srcs[s] # NoSrc
SourcedBy(s) == {p \in Prefixes : Sourced(entries[p], s)}

-----------------------------------------------------------------------------
(* Entry handles and the entry-level calls (mfib_entry.c).                 *)

\* Model representation, not code: a table slot keeps an entry's lock count
\* and sources; a handle adds the ghost flags that record a use after free.
Handle(e) == [lock |-> e.lock, srcs |-> e.srcs, freed |-> FALSE, bad |-> FALSE]
Stored(h) == [lock |-> h.lock, srcs |-> h.srcs]

mfib_entry_create(s, flags, paths) ==
    [lock |-> 0, freed |-> FALSE, bad |-> FALSE,
     srcs |-> [x \in AllSources |-> IF x = s THEN [flags |-> flags, paths |-> paths, stale |-> FALSE]
                                          ELSE NoSrc]]

mfib_entry_lock(h) == [h EXCEPT !.lock = @ + 1, !.bad = @ \/ h.freed]

mfib_entry_unlock(h) ==
    IF h.freed \/ h.lock = 0 THEN [h EXCEPT !.bad = TRUE]
    ELSE IF h.lock = 1 THEN [h EXCEPT !.lock = 0, !.freed = TRUE]
    ELSE [h EXCEPT !.lock = @ - 1]

NoMoreSources(h) == \A s \in AllSources : h.srcs[s] = NoSrc

\* the source's state, or an empty one if it has none yet
SrcOf(h, s) == IF h.srcs[s] = NoSrc THEN [flags |-> {}, paths |-> {}, stale |-> FALSE]
                                    ELSE h.srcs[s]

\* write the source's state back; a source with no flags and no paths goes
SetSrc(h, s, r) ==
    [h EXCEPT !.srcs[s] = IF r.flags = {} /\ r.paths = {} THEN NoSrc ELSE r,
              !.bad = @ \/ h.freed]

mfib_entry_update(h, s, flags) == SetSrc(h, s, [SrcOf(h, s) EXCEPT !.flags = flags, !.stale = FALSE])
mfib_entry_path_update(h, s, rpaths) == SetSrc(h, s, [SrcOf(h, s) EXCEPT !.paths = @ \cup rpaths, !.stale = FALSE])
mfib_entry_path_remove(h, s, rpaths) ==
    IF h.srcs[s] = NoSrc THEN h ELSE SetSrc(h, s, [h.srcs[s] EXCEPT !.paths = @ \ rpaths])
\* finds or creates the source and sets its flags; unlike an update it
\* never removes the source, even with no flags and no paths
mfib_entry_special_add(h, s, flags) ==
    [h EXCEPT !.srcs[s] = [SrcOf(h, s) EXCEPT !.flags = flags, !.stale = FALSE],
              !.bad = @ \/ h.freed]
\* mutant: delete drops every source's state, not only the caller's
EntryDeleteAll(h, s) == [h EXCEPT !.srcs = [x \in AllSources |-> NoSrc], !.bad = @ \/ h.freed]
mfib_entry_delete(h, s) == [h EXCEPT !.srcs[s] = NoSrc, !.bad = @ \/ h.freed]
mfib_entry_mark(e, s) == [e EXCEPT !.srcs[s].stale = TRUE]
mfib_entry_is_marked(e, s) == Sourced(e, s) /\ e.srcs[s].stale

-----------------------------------------------------------------------------
(* Covers.                                                                 *)

RECURSIVE Above(_)
\* the prefixes strictly less specific than p
Above(p) == IF p = DefaultPrefix THEN {} ELSE {Parent[p]} \cup Above(Parent[p])

\* mfib_table_get_less_specific_i in table ents: the longest-match lookup at
\* a mask one shorter than p's, so that (*,*/0) finds itself
\* the most specific of the prefixes cands that has an entry in ents
LongestMatch(ents, cands) ==
    LET found == {q \in cands : ents[q] # NoEntry}
    IN  IF found = {} THEN NoEntry ELSE CHOOSE q \in found : found \subseteq Above(q) \cup {q}

LessSpecificIn(ents, p) == LongestMatch(ents, Above(p) \cup ({p} \cap {DefaultPrefix}))


\* mfib_entry_cover_change_notify(c, new): every entry tracking c, other
\* than new itself, looks its cover up again in table ents
mfib_entry_cover_change_notify(cv, c, new, ents) ==
    [d \in Prefixes |-> IF cv[d] = c /\ d # new THEN LessSpecificIn(ents, d) ELSE cv[d]]

\* mfib_table_post_insert_actions for p, just linked into ents: the entries
\* under p's cover are told, unless p is its own cover (the default route
\* first added) or a host route, which can cover nothing
mfib_table_post_insert_actions(p, ents, cv) ==
    LET c == LessSpecificIn(ents, p)
    IN  IF c # p /\ p \notin Hosts THEN mfib_entry_cover_change_notify(cv, c, p, ents) ELSE cv

\* mutant: the removed entries' dependents are told before the unlink
NotifyBeforeUnlink(R, ents) ==
    [d \in Prefixes |-> IF d \in R THEN NoEntry
                        ELSE IF cover[d] \in R THEN LessSpecificIn(entries, d) ELSE cover[d]]

\* mfib_table_entry_remove for each entry of R: unlinked from the table,
\* then its dependents told (mfib_entry_cover_change_notify(e, INVALID)),
\* then unlocked, which ends its own tracking of its cover
CoverAfterRemove(R, ents) ==
    [d \in Prefixes |-> IF d \in R THEN NoEntry
                        ELSE IF cover[d] \in R THEN LessSpecificIn(ents, d) ELSE cover[d]]

-----------------------------------------------------------------------------
(* Table-level helpers.                                                    *)

mfib_table_lookup_exact_match(p) == entries[p]

\* Tail shared by every function that locks an existing entry, changes it,
\* removes it from the table if no source is left, and unlocks it:
\* mfib_table_entry_remove (count - 1, unlink, unlock) then mfib_entry_unlock.
\* Returns the prefix's new slot, whether it was removed, and the handle.
FinishLocked(h) ==
    LET rm == NoMoreSources(h)
        h2 == mfib_entry_unlock(IF rm THEN mfib_entry_unlock(h) ELSE h)
    IN  [slot |-> IF rm THEN NoEntry ELSE Stored(h2), removed |-> rm, bad |-> h2.bad]

\* mutant: delete without the "don't nobody go nowhere" lock
DeleteUnlocked(p, s) ==
    FinishLocked(mfib_entry_delete(Handle(entries[p]), s))

\* mfib_table_entry_delete_i on entry e: lock, mfib_entry_delete, remove
\* if last, unlock
DeleteI(e, s) == FinishLocked(mfib_entry_delete(mfib_entry_lock(Handle(e)), s))
mfib_table_entry_delete_i(p, s) == DeleteI(entries[p], s)

\* mutant: removal that forgets mft_total_route_counts--
ApplyResultsUncounted(r) ==
    LET ents == [p \in Prefixes |-> IF p \in DOMAIN r THEN r[p].slot ELSE entries[p]]
    IN  /\ entries' = ents
        /\ route_count' = route_count
        /\ cover' = CoverAfterRemove({p \in DOMAIN r : r[p].removed}, ents)
        /\ uaf' = (uaf \/ \E p \in DOMAIN r : r[p].bad)

\* Apply the per-prefix results r of one call's deletes and removals.
ApplyResults(r) ==
    LET ents == [p \in Prefixes |-> IF p \in DOMAIN r THEN r[p].slot ELSE entries[p]]
    IN  /\ entries' = ents
        /\ route_count' = route_count - Cardinality({p \in DOMAIN r : r[p].removed})
        /\ cover' = CoverAfterRemove({p \in DOMAIN r : r[p].removed}, ents)
        /\ uaf' = (uaf \/ \E p \in DOMAIN r : r[p].bad)

\* mfib_table_entry_insert of a just created entry h at p: lock it, count
\* it, link it, post-insert actions.  The new entry itself started tracking
\* its cover when it was created, before the link.
Insert(p, h) ==
    LET ents == [entries EXCEPT ![p] = Stored(mfib_entry_lock(h))]
    IN  /\ entries' = ents
        /\ route_count' = route_count + 1
        /\ cover' = mfib_table_post_insert_actions(p, ents,
                        [cover EXCEPT ![p] = LessSpecificIn(entries, p)])
        /\ UNCHANGED uaf

\* The callers' contract (not code of mfib_table.c): routes are added and
\* removed, and locks released, by a source while it holds a table lock.
Holds(s) == alive /\ locks[s] > 0

\* The ghost record of what source s sources: a refreshing call puts p in
\* fresh[s], a call that leaves s off p takes it out.
Track(s, p, refreshing) ==
    fresh' = [fresh EXCEPT ![s] =
                 IF Sourced(entries'[p], s) THEN (IF refreshing THEN @ \cup {p} ELSE @)
                                            ELSE @ \ {p}]

Init ==
    /\ alive = FALSE
    /\ locks = [s \in Sources |-> 0]
    /\ total_locks = 0
    /\ route_count = 0
    /\ entries = [p \in Prefixes |-> NoEntry]
    /\ epoch = 0
    /\ resync = FALSE
    /\ uaf = FALSE
    /\ marking = [s \in Sources |-> FALSE]
    /\ fresh = [s \in Sources |-> {}]
    /\ cover = [p \in Prefixes |-> NoEntry]

-----------------------------------------------------------------------------
(* Route operations.  A call on an absent prefix that the code ignores     *)
(* (update with no flags, path remove, delete) changes nothing and is a   *)
(* stuttering step.                                                        *)

mfib_table_entry_update(p, s, flags) ==
    /\ Holds(s)
    /\ \/ /\ entries[p] = NoEntry /\ flags # {}
          /\ Insert(p, mfib_entry_create(s, flags, {}))
       \/ /\ entries[p] # NoEntry
          /\ LET r == FinishLocked(mfib_entry_update(mfib_entry_lock(Handle(entries[p])), s, flags))
             IN  ApplyResults([x \in {p} |-> r])
    /\ Track(s, p, TRUE)
    /\ UNCHANGED << alive, locks, total_locks, epoch, resync, marking >>

\* mfib_table_entry_path_update / _paths_update: paths only ever added, so
\* an existing entry is updated without the lock/remove sequence
mfib_table_entry_paths_update_i(p, s, flags, rpaths) ==
    /\ Holds(s)
    /\ \/ /\ entries[p] = NoEntry
          /\ Insert(p, mfib_entry_path_update(mfib_entry_create(s, flags, {}), s, rpaths))
       \/ /\ entries[p] # NoEntry
          /\ entries' = [entries EXCEPT ![p] = Stored(mfib_entry_path_update(Handle(@), s, rpaths))]
          /\ UNCHANGED << route_count, uaf, cover >>
    /\ Track(s, p, TRUE)
    /\ UNCHANGED << alive, locks, total_locks, epoch, resync, marking >>

\* mfib_table_entry_path_remove / _paths_remove
mfib_table_entry_paths_remove_i(p, s, rpaths) ==
    /\ Holds(s)
    /\ entries[p] # NoEntry
    /\ LET r == FinishLocked(mfib_entry_path_remove(mfib_entry_lock(Handle(entries[p])), s, rpaths))
       IN  ApplyResults([x \in {p} |-> r])
    /\ Track(s, p, FALSE)
    /\ UNCHANGED << alive, locks, total_locks, epoch, resync, marking >>

\* a replicate index makes the entry exclusive
mfib_table_entry_special_add(p, s, flags, withRepi) ==
    LET f == IF withRepi THEN flags \cup {EXCLUSIVE} ELSE flags IN
    /\ Holds(s)
    /\ \/ /\ entries[p] = NoEntry
          /\ Insert(p, mfib_entry_create(s, f, {}))
       \/ /\ entries[p] # NoEntry
          /\ entries' = [entries EXCEPT ![p] = Stored(mfib_entry_special_add(Handle(@), s, f))]
          /\ UNCHANGED << route_count, uaf, cover >>
    /\ Track(s, p, TRUE)
    /\ UNCHANGED << alive, locks, total_locks, epoch, resync, marking >>

mfib_table_entry_delete(p, s) ==
    /\ Holds(s)
    /\ entries[p] # NoEntry
    /\ ApplyResults([x \in {p} |-> mfib_table_entry_delete_i(p, s)])
    /\ Track(s, p, FALSE)
    /\ UNCHANGED << alive, locks, total_locks, epoch, resync, marking >>

-----------------------------------------------------------------------------
(* Whole-table walks: collect the matching entries, then delete each.     *)

\* the walk of mfib_table_flush: s deleted from every entry it contributes to
FlushResults(s) == [p \in SourcedBy(s) |-> mfib_table_entry_delete_i(p, s)]

FlushEffect(s) ==
    /\ ApplyResults(FlushResults(s))
    /\ fresh' = [fresh EXCEPT ![s] = {}]

mfib_table_flush(s) ==
    /\ alive
    /\ FlushEffect(s)
    /\ UNCHANGED << alive, locks, total_locks, epoch, resync, marking >>

mfib_table_mark(s) ==
    /\ alive /\ epoch < MaxMarks
    /\ epoch' = epoch + 1
    /\ resync' = TRUE
    /\ entries' = [p \in Prefixes |-> IF Sourced(entries[p], s) THEN mfib_entry_mark(entries[p], s)
                                                               ELSE entries[p]]
    /\ marking' = [marking EXCEPT ![s] = TRUE]
    /\ fresh' = [fresh EXCEPT ![s] = {}]
    /\ UNCHANGED << alive, locks, total_locks, route_count, uaf, cover >>

\* mutant: the sweep callback collects sourced rather than marked entries
SweepSourced(s) == SourcedBy(s)

\* mfib_table_sweep_cb: the entries the source left marked
SweepMarked(s) == {p \in Prefixes : mfib_entry_is_marked(entries[p], s)}

mfib_table_sweep(s) ==
    LET hit == SweepMarked(s) IN
    /\ alive
    /\ resync' = FALSE
    /\ ApplyResults([p \in hit |-> mfib_table_entry_delete_i(p, s)])
    /\ marking' = [marking EXCEPT ![s] = FALSE]
    /\ UNCHANGED << alive, locks, total_locks, epoch, fresh >>

-----------------------------------------------------------------------------
(* Table locks.                                                            *)

mfib_table_lock(s) ==
    /\ alive /\ locks[s] < MaxLocks
    /\ locks' = [locks EXCEPT ![s] = @ + 1]
    /\ total_locks' = total_locks + 1
    /\ UNCHANGED << alive, route_count, entries, epoch, resync, uaf, marking, fresh, cover >>

\* the default route a new IP4/IP6 table is given
DefaultEntry == mfib_entry_create(DefaultRoute, {DROP}, {})

\* the IP4/IP6 find-or-create: a missing table is created, gets its default
\* route (an mfib_table_entry_update of (*,*/0) by DefaultRoute, whose post-
\* insert actions find the entry is its own cover), and is locked
mfib_table_find_or_create_and_lock(s) ==
    \/ mfib_table_lock(s)
    \/ /\ ~alive
       /\ alive' = TRUE
       /\ locks' = [x \in Sources |-> IF x = s THEN 1 ELSE 0]
       /\ total_locks' = 1
       /\ route_count' = 1
       /\ entries' = [p \in Prefixes |-> IF p = DefaultPrefix THEN Stored(mfib_entry_lock(DefaultEntry))
                                                             ELSE NoEntry]
       /\ cover' = [p \in Prefixes |-> NoEntry]
       /\ epoch' = 0
       /\ resync' = FALSE
       /\ marking' = [x \in Sources |-> FALSE]
       /\ fresh' = [x \in Sources |-> {}]
       /\ UNCHANGED uaf

NoResults == [p \in {} |-> NoEntry]

\* mfib_table_destroy, i.e. ip4/ip6_mfib_table_destroy: the default route's
\* source is deleted from what the results r left at (*,*/0) (a delete of
\* an absent entry does nothing); the code then asserts that the route
\* count is zero and frees the table
Destroyed(r) ==
    LET d == DefaultPrefix
        before == IF d \in DOMAIN r THEN r[d] ELSE [slot |-> entries[d], removed |-> FALSE, bad |-> FALSE]
        rd == DeleteI(before.slot, DefaultRoute)
    IN  [p \in DOMAIN r \cup {d} |->
            IF p # d THEN r[p]
            ELSE IF before.slot = NoEntry THEN before
            ELSE [rd EXCEPT !.bad = @ \/ before.bad]]

\* mutant: the source's routes are flushed only with the last lock of all
UnlockFlushOnTotal(s) ==
    LET l == locks[s] - 1
        t == total_locks - 1
        r == IF t = 0 THEN FlushResults(s) ELSE NoResults
    IN  /\ Holds(s)
        /\ locks' = [locks EXCEPT ![s] = l]
        /\ total_locks' = t
        /\ ApplyResults(IF t = 0 THEN Destroyed(r) ELSE r)
        /\ fresh' = IF t = 0 THEN [fresh EXCEPT ![s] = {}] ELSE fresh
        /\ alive' = (t # 0)
        /\ UNCHANGED << epoch, resync, marking >>

\* mutant: unlock by a source that holds no lock (mft_locks[source] wraps)
UnlockNoContract(s) ==
    LET l == locks[s] - 1
        t == total_locks - 1
        r == IF l = 0 THEN FlushResults(s) ELSE NoResults
    IN  /\ alive
        /\ locks' = [locks EXCEPT ![s] = l]
        /\ total_locks' = t
        /\ ApplyResults(IF t = 0 THEN Destroyed(r) ELSE r)
        /\ fresh' = IF l = 0 THEN [fresh EXCEPT ![s] = {}] ELSE fresh
        /\ alive' = (t # 0)
        /\ UNCHANGED << epoch, resync, marking >>

\* the last lock of a source flushes its routes; the last lock of all
\* destroys the table
mfib_table_unlock(s) ==
    LET l == locks[s] - 1
        t == total_locks - 1
        r == IF l = 0 THEN FlushResults(s) ELSE NoResults
    IN  /\ Holds(s)
        /\ locks' = [locks EXCEPT ![s] = l]
        /\ total_locks' = t
        /\ ApplyResults(IF t = 0 THEN Destroyed(r) ELSE r)
        /\ fresh' = IF l = 0 THEN [fresh EXCEPT ![s] = {}] ELSE fresh
        /\ alive' = (t # 0)
        /\ UNCHANGED << epoch, resync, marking >>

-----------------------------------------------------------------------------
FlagSets == SUBSET Flags
PathSets == SUBSET Paths \ {{}}

Next ==
    \/ \E s \in Sources :
          \/ mfib_table_find_or_create_and_lock(s)
          \/ mfib_table_unlock(s)
          \/ mfib_table_flush(s)
          \/ mfib_table_mark(s)
          \/ mfib_table_sweep(s)
    \/ \E p \in Prefixes, s \in Sources :
          \/ \E f \in FlagSets : mfib_table_entry_update(p, s, f)
          \/ \E f \in FlagSets, rp \in PathSets : mfib_table_entry_paths_update_i(p, s, f, rp)
          \/ \E rp \in PathSets : mfib_table_entry_paths_remove_i(p, s, rp)
          \/ \E f \in FlagSets, r \in BOOLEAN : mfib_table_entry_special_add(p, s, f, r)
          \/ mfib_table_entry_delete(p, s)

Spec == Init /\ [][Next]_vars

-----------------------------------------------------------------------------
TypeOK ==
    /\ alive \in BOOLEAN /\ resync \in BOOLEAN /\ uaf \in BOOLEAN
    /\ locks \in [Sources -> 0 .. MaxLocks] /\ total_locks \in Nat
    /\ route_count \in Nat /\ epoch \in 0 .. MaxMarks
    /\ entries \in [Prefixes -> Entry \cup {NoEntry}]
    /\ marking \in [Sources -> BOOLEAN] /\ fresh \in [Sources -> SUBSET Prefixes]
    /\ cover \in [Prefixes -> Prefixes \cup {NoEntry}]

(***************************************************************************)
(* mft_total_route_counts, kept by hand in mfib_table_entry_insert and    *)
(* _remove, equals the number of entries in the table after any sequence *)
(* of updates, path changes, deletes, flushes and sweeps.                 *)
(***************************************************************************)
RouteCountAccurate ==
    route_count = Cardinality({p \in Prefixes : entries[p] # NoEntry})

(***************************************************************************)
(* The "don't nobody go nowhere" locking: no function touches an entry    *)
(* after its last lock is gone, an entry in the table is held by exactly  *)
(* the table's one lock between calls, and no entry is left in the table  *)
(* once its last source has gone.                                         *)
(***************************************************************************)
EntryRefsSound ==
    /\ ~uaf
    /\ \A p \in Prefixes :
          entries[p] # NoEntry => entries[p].lock = 1 /\ \E s \in AllSources : Sourced(entries[p], s)

(***************************************************************************)
(* Mark and sweep: outside a mark..sweep window, a source contributes to  *)
(* exactly the prefixes it has added or updated since its last mark (and  *)
(* not removed since): the sweep removes every stale contribution and     *)
(* nothing refreshed, and a flush leaves the source nothing.              *)
(***************************************************************************)
ResyncExact ==
    \A s \in Sources : alive /\ ~marking[s] => SourcedBy(s) = fresh[s]

(***************************************************************************)
(* When the last lock of any source is released the table is destroyed,   *)
(* and by then every source's routes have been flushed: once the default *)
(* route is deleted no route is left behind in a destroyed table, which  *)
(* is what ip4/ip6_mfib_table_destroy asserts of the route count.         *)
(***************************************************************************)
TableDestroyedEmpty ==
    ~alive => \A p \in Prefixes : entries[p] = NoEntry

(***************************************************************************)
(* Refinement: the table implements MFibRoutes.  Each source sees only    *)
(* which prefixes it contributes to, and a step of the table changes no  *)
(* source's contribution but the caller's, except that a source's last    *)
(* unlock removes all of its routes and the last unlock of all destroys   *)
(* the table.  Entry sharing between sources, the temporary entry locks   *)
(* and the flush/sweep walks must all be invisible at this level.         *)
(***************************************************************************)
(***************************************************************************)
(* Cover tracking: between calls, every entry other than the default      *)
(* route tracks as its cover the most specific entry above it in the      *)
(* table.  An insert beneath an existing entry and above others moves    *)
(* those others to it (post-insert notify, skipped for host routes), and *)
(* a removal, also of several entries in one flush or sweep walk, moves   *)
(* its dependents up to what is left (unlink, then notify).               *)
(***************************************************************************)
CoverAccurate ==
    \A p \in Prefixes \ {DefaultPrefix} :
        entries[p] # NoEntry => cover[p] = LessSpecificIn(entries, p)

Routes == INSTANCE MFibRoutes WITH
            exists <- alive,
            users  <- {s \in Sources : locks[s] > 0},
            routes <- [p \in Prefixes |-> {s \in Sources : Sourced(entries[p], s)}]

RoutesRefined == Routes!Spec
=============================================================================
