--------------------------- MODULE BTreeNodeStore ---------------------------
(***************************************************************************)
(* The paged B+-tree node store of zawgl-core (repository/index/store):    *)
(* BTreeNodeStore (mod.rs) on top of NodeRecordPool and its free-cell      *)
(* iterator (pool.rs).                                                     *)
(*                                                                         *)
(* A node record holds NB_CELL cell slots.  A logical cell whose key or    *)
(* posting list does not fit in one slot is cut into fragments: the first  *)
(* stays in the node's slot and the others are chained, through node_ptr   *)
(* and overflow_cell_ptr, in slots of "overflow storage" records handed    *)
(* out by the free-cell iterator.  Every store operation runs with a fresh *)
(* pool: loads are cached, changes are buffered until save_all, but        *)
(* create_node_record and the two header slots (root pointer, head of the  *)
(* free-cell list) are written through at once.                            *)
(*                                                                         *)
(* A store operation is single-threaded (&mut self), so each one is one    *)
(* atomic step here; its loops are the recursive operators below, applied  *)
(* to a threaded record s = [recs, pool, hdr, ok].                         *)
(***************************************************************************)
EXTENDS Naturals, Sequences, FiniteSets, SequencesExt, FiniteSetsExt, TLC

CONSTANTS
    NB_CELL,      \* cell slots per node record
    KEY_SIZE,     \* payload bytes per cell
    Keys,         \* keys (byte sequences) the index may store
    Ptrs,         \* vertex ids a posting list may hold
    ChildIds,     \* child node ids an interior cell may point to
    MaxCells,     \* most logical cells the B-tree keeps in a node
    MaxListLen,   \* longest posting list
    MaxRecords,   \* bound on the records the records manager hands out
    NodeChoices,  \* logical nodes the B-tree may ask the store to create
    Edits,        \* kinds of in-memory edit the B-tree makes before a save
    IOMayFail     \* whether a records-manager save may return an IO error

NODE_PTR_SIZE == 8

ASSUME /\ NB_CELL \in Nat \ {0}
       /\ KEY_SIZE >= 2 + NODE_PTR_SIZE
       /\ MaxCells <= NB_CELL
       /\ Edits \subseteq {"remove", "add", "append", "unroot", "link"}
       /\ IOMayFail \in BOOLEAN

VARIABLES
    disk,      \* the records manager's records; record id i is disk[i]
    header,    \* the reserved header payload: [root, free]
    expected,  \* observation: the logical node last handed to create/save
    written,   \* observation: the node id the last operation wrote
    aborted    \* observation: the last operation returned None

vars == <<disk, header, expected, written, aborted>>

Slots == 0..(NB_CELL - 1)

(* Pointers packed in one IS_LIST_PTR cell: create_cell and
   update_cell_data_ptrs close a fragment once
   data_ptr_offset + NODE_PTR_SIZE >= KEY_SIZE (mod.rs 197, 316). *)
PtrsPerCell == Min({k \in 1..KEY_SIZE : 2 + NODE_PTR_SIZE * k + NODE_PTR_SIZE >= KEY_SIZE})

(***************************************************************************)
(* Records.  A cell's payload is kept as what a reader gets back from it:  *)
(* the key bytes before the NUL terminator, or the counted pointer list.   *)
(***************************************************************************)
EmptyCell == [active |-> FALSE, overflow |-> FALSE, listptr |-> FALSE,
              node_ptr |-> 0, ocell |-> 0, data |-> <<>>]

NewRecord == [storage |-> FALSE, leaf |-> FALSE, root |-> FALSE,
              has_next |-> FALSE, ptr |-> 0, cells |-> [i \in Slots |-> EmptyCell]]

\* chain_with_cell_location: the cell now points at loc.
Chain(cell, loc) == [cell EXCEPT !.node_ptr = loc[1], !.ocell = loc[2]]

\* is_full of an overflow storage record: no inactive slot is left.
IsFull(rec) == \A i \in Slots : rec.cells[i].active

\* A key fragment shorter than KEY_SIZE ends at its NUL; a list cell's
\* payload starts with the 16-bit count, whose high byte is 0 (append_key).
KeyOf(cell) == IF cell.listptr THEN <<>> ELSE cell.data

\* append_list_ptr: a list cell's payload is the count and that many
\* pointers; the pointers are the cell's data.
AppendListPtr(cell) == cell.data

(***************************************************************************)
(* NodeRecordPool (pool.rs).  A record is read through the pool (pool     *)
(* first, records manager second); s.ok turns FALSE when the operation    *)
(* returns None.                                                          *)
(***************************************************************************)
Loadable(s, id) == id \in 1..Len(s.recs)

LoadNodeRecord(s, id) == IF id \in DOMAIN s.pool THEN s.pool[id] ELSE s.recs[id]

PutNodeRecord(s, id, rec) == [s EXCEPT !.pool = (id :> rec) @@ @]

Fail(s) == [s EXCEPT !.ok = FALSE]

\* is_empty_records_set: the records manager holds no record yet.
IsEmptyRecordsSet(s) == Len(s.recs) = 0

\* get_first_free_list_node_ptr: bytes [8, 16) of the header payload.
GetFirstFreeListNodePtr(s) == s.hdr.free

\* create_node_record: the records manager writes the record at once.
CreateNodeRecord(s, rec) ==
    LET id == Len(s.recs) + 1
    IN  [s |-> [s EXCEPT !.recs = Append(@, rec), !.pool = (id :> rec) @@ @],
         id |-> id]

(* save_all_node_records walks the pool's HashMap in no fixed order and
   stops at the first save that fails: the records saved before it can be
   any subset of the pool, and only the whole pool means success. *)
SavedSets(s) == IF IOMayFail THEN SUBSET DOMAIN s.pool ELSE {DOMAIN s.pool}

SaveNodeRecords(s, saved) ==
    [i \in 1..Len(s.recs) |-> IF i \in saved THEN s.pool[i] ELSE s.recs[i]]

StorageRecord == [NewRecord EXCEPT !.storage = TRUE]

\* The new overflow storage record c.id becomes the head of the free list.
PublishHead(c) == [s |-> [c.s EXCEPT !.hdr.free = c.id], id |-> c.id]

(* Mutant: a new overflow storage record made while the head pointer is 0
   is not published in the header. *)
RECURSIVE LoadOrCreateUnpublished(_)
LoadOrCreateUnpublished(s) ==
    IF IsEmptyRecordsSet(s) THEN PublishHead(CreateNodeRecord(s, StorageRecord))
    ELSE IF GetFirstFreeListNodePtr(s) = 0 THEN CreateNodeRecord(s, StorageRecord)
    ELSE IF IsFull(LoadNodeRecord(s, GetFirstFreeListNodePtr(s)))
    THEN LoadOrCreateUnpublished(
             [s EXCEPT !.hdr.free = LoadNodeRecord(s, GetFirstFreeListNodePtr(s)).ptr])
    ELSE [s |-> s, id |-> GetFirstFreeListNodePtr(s)]

(* FreeCellIterator::load_or_create_free_cells_overflow_node: a full head
   is unlinked (the header takes its next pointer) and the search starts
   again; an empty header gets a new overflow storage record. *)
RECURSIVE LoadOrCreateFreeCellsOverflowNode(_)
LoadOrCreateFreeCellsOverflowNode(s) ==
    IF IsEmptyRecordsSet(s) \/ GetFirstFreeListNodePtr(s) = 0
    THEN PublishHead(CreateNodeRecord(s, StorageRecord))
    ELSE IF IsFull(LoadNodeRecord(s, GetFirstFreeListNodePtr(s)))
    THEN LoadOrCreateFreeCellsOverflowNode(
             [s EXCEPT !.hdr.free = LoadNodeRecord(s, GetFirstFreeListNodePtr(s)).ptr])
    ELSE [s |-> s, id |-> GetFirstFreeListNodePtr(s)]

(* FreeCellIterator::next and the write of insert_cell_in_free_slot: the
   first inactive slot of the head h.id; none left makes next() None. *)
PutInFirstFreeSlot(h, cell) ==
    LET rec  == LoadNodeRecord(h.s, h.id)
        free == {i \in Slots : ~rec.cells[i].active}
    IN  IF free = {}
        THEN [s |-> Fail(h.s), loc |-> <<0, 0>>]
        ELSE [s   |-> PutNodeRecord(h.s, h.id, [rec EXCEPT !.cells[Min(free)] = cell]),
              loc |-> <<h.id, Min(free)>>]

(* Mutants of the slot search of FreeCellIterator::next: the is_active test
   dropped (slot 0 is always taken), and the index counted one too far. *)
PutInSlotZero(h, cell) ==
    [s   |-> PutNodeRecord(h.s, h.id, [LoadNodeRecord(h.s, h.id) EXCEPT !.cells[0] = cell]),
     loc |-> <<h.id, 0>>]
InsertCellInAnySlot(s, cell) == PutInSlotZero(LoadOrCreateFreeCellsOverflowNode(s), cell)
PastFreeSlot(p) == [p EXCEPT !.loc[2] = @ + 1]
InsertCellPastFreeSlot(s, cell) ==
    PastFreeSlot(PutInFirstFreeSlot(LoadOrCreateFreeCellsOverflowNode(s), cell))

\* insert_cell_in_free_slot: the iterator's location, then the write.
InsertCellInFreeSlot(s, cell) ==
    PutInFirstFreeSlot(LoadOrCreateFreeCellsOverflowNode(s), cell)

(* disable_cell_records walks from loc while the node id is not 0, along
   get_next_cell_location whatever has_overflow says.  The cell it marks
   inactive is a copy of the slot (pool.rs 103), so no record changes. *)
DisableCellRecords(s, loc) == s

(***************************************************************************)
(* Writing cells (mod.rs create_cell, create_overflow_cells, create).     *)
(* A logical cell is [key, child, ptrs]: child 0 stands for None.         *)
(***************************************************************************)
\* seq cut in pieces of n, the last one possibly shorter.
Fragments(seq, n) ==
    [i \in 1..((Len(seq) + n - 1) \div n) |->
        SubSeq(seq, (i - 1) * n + 1, IF i * n < Len(seq) THEN i * n ELSE Len(seq))]

NewActive == [EmptyCell EXCEPT !.active = TRUE]

\* The records create_cell builds: key fragments, then list fragments.
CellRecords(cell) ==
    [i \in DOMAIN Fragments(cell.key, KEY_SIZE) |->
        [NewActive EXCEPT !.data = Fragments(cell.key, KEY_SIZE)[i]]]
    \o [i \in DOMAIN Fragments(cell.ptrs, PtrsPerCell) |->
        [NewActive EXCEPT !.listptr = TRUE,
                          !.data = Fragments(cell.ptrs, PtrsPerCell)[i]]]

(* create_overflow_cells: each record is chained to the location of the
   one inserted before it, then inserted in a free slot. *)
RECURSIVE CreateOverflowCells(_, _, _), CreateOverflowCellsFrom(_, _)
CreateOverflowCells(s, reverse_cell_records, prev_cell_loc) ==
    IF reverse_cell_records = <<>>
    THEN [s |-> s, loc |-> prev_cell_loc]
    ELSE CreateOverflowCellsFrom(
             InsertCellInFreeSlot(s, Chain(Head(reverse_cell_records), prev_cell_loc)),
             Tail(reverse_cell_records))
CreateOverflowCellsFrom(ins, rest) == CreateOverflowCells(ins.s, rest, ins.loc)

\* The first record, chained to where create_overflow_cells put the second.
ChainMain(ovf, first) == [s |-> ovf.s, main |-> Chain(first, ovf.loc)]

\* has_overflow on every record but the last (or, as a mutant, on all).
Flagged(rs) == [i \in DOMAIN rs |-> [rs[i] EXCEPT !.overflow = (i < Len(rs))]]
FlaggedAll(rs) == [i \in DOMAIN rs |-> [rs[i] EXCEPT !.overflow = TRUE]]

(* Mutant: has_overflow set on the tail record too. *)
CreateCellFlagTail(s, cell) ==
    LET rs == CellRecords(cell)
    IN  CASE Len(rs) > 1 -> ChainMain(CreateOverflowCells(s, Reverse(Tail(FlaggedAll(rs))),
                                                          <<cell.child, 0>>), FlaggedAll(rs)[1])
          [] Len(rs) = 1 /\ cell.child # 0 -> [s |-> s, main |-> [rs[1] EXCEPT !.node_ptr = cell.child]]
          [] Len(rs) = 1 -> [s |-> s, main |-> rs[1]]
          [] OTHER -> [s |-> Fail(s), main |-> EmptyCell]

(* create_cell: all records but the last get has_overflow; the non-first
   ones are inserted last-first, the tail chained to (child, 0), and the
   first is returned chained to the second.  A lone record carries the
   child itself.  No record at all (empty key, no list) makes create fail. *)
CreateCell(s, cell) ==
    LET rs == CellRecords(cell)
    IN  CASE Len(rs) > 1 -> ChainMain(CreateOverflowCells(s, Reverse(Tail(Flagged(rs))),
                                                          <<cell.child, 0>>), Flagged(rs)[1])
          [] Len(rs) = 1 /\ cell.child # 0 -> [s |-> s, main |-> [rs[1] EXCEPT !.node_ptr = cell.child]]
          [] Len(rs) = 1 -> [s |-> s, main |-> rs[1]]
          [] OTHER -> [s |-> Fail(s), main |-> EmptyCell]

\* The loop of create over the node's cells, collecting the first records.
RECURSIVE CreateCells(_, _, _), CreateCellsFrom(_, _, _)
CreateCells(s, cells, mains) ==
    IF cells = <<>> THEN [s |-> s, mains |-> mains]
    ELSE CreateCellsFrom(CreateCell(s, Head(cells)), Tail(cells), mains)
CreateCellsFrom(c, rest, mains) == CreateCells(c.s, rest, Append(mains, c.main))

NodeRecordOf(node, mains) ==
    [NewRecord EXCEPT !.leaf = node.leaf, !.root = node.root,
                      !.has_next = node.next # 0, !.ptr = node.next,
                      !.cells = [i \in Slots |-> IF i < Len(mains) THEN mains[i + 1]
                                                                  ELSE EmptyCell]]

StartOp == [recs |-> disk, pool |-> <<>>, hdr |-> header, ok |-> TRUE]

(* The records and header an operation leaves: everything on success;
   on None the pool is dropped, and only what was written through stays,
   with what save_all_node_records saved before an IO error. *)
Commit(s) ==
    \E saved \in SavedSets(s) :
        /\ disk' = IF s.ok THEN SaveNodeRecords(s, saved) ELSE s.recs
        /\ header' = s.hdr
        /\ aborted' = ~(s.ok /\ saved = DOMAIN s.pool)

\* create publishes a root's new id in the header.
SetRootNodePtr(nr, node) == IF node.root THEN [nr.s EXCEPT !.hdr.root = nr.id] ELSE nr.s

(* BTreeNodeStore::create: the cells first (their overflow records take
   free slots), then the node record, then the root pointer, then
   save_all.  The new id is the next record id. *)
CreateNodeWith(cc, node) ==
    IF ~cc.s.ok THEN cc.s
    ELSE SetRootNodePtr(CreateNodeRecord(cc.s, NodeRecordOf(node, cc.mains)), node)

CreateOp(node) == CreateNodeWith(CreateCells(StartOp, node.cells, <<>>), node)

CommitCreate(s, node) ==
    /\ Len(s.recs) <= MaxRecords
    /\ Commit(s)
    /\ expected' = IF aborted' THEN expected ELSE (Len(s.recs) :> node) @@ expected
    /\ written' = Len(s.recs)

Create(node) ==
    /\ Len(disk) > 0
    /\ CommitCreate(CreateOp(node), node)

(* load_or_create_root_node on an empty store: a leaf root with no cell. *)
RootNode == [leaf |-> TRUE, root |-> TRUE, next |-> 0, cells |-> <<>>]

\* BTreeNodeStore::is_empty: no record on disk yet.
IsEmpty == Len(disk) = 0

LoadOrCreateRootNode ==
    /\ IsEmpty
    /\ Commit(CreateOp(RootNode))
    /\ expected' = IF aborted' THEN expected ELSE (1 :> RootNode)
    /\ written' = 1

(***************************************************************************)
(* Reading cells (mod.rs load_overflow_cell_records, retrieve_node).     *)
(***************************************************************************)
(* The loop of load_overflow_cell_records (lines 272-285) inside the record
   cur it loaded first: curr_node_id follows the chain, but the reload at
   line 282 compares it with the value just copied into it, so cur is never
   replaced.  A cell that points at its own slot index stops the walk
   before it is taken.  More than NB_CELL steps inside one record mean the
   walk is going round a cycle: the result is then "hang". *)
RECURSIVE OverflowWalk(_, _, _)
OverflowWalk(cur, curr_overflow_cell_id, steps) ==
    LET overflow_cell == cur.cells[curr_overflow_cell_id]
    IN  IF steps > NB_CELL THEN [ok |-> TRUE, hang |-> TRUE, cells |-> <<>>]
        ELSE IF overflow_cell.overflow /\ curr_overflow_cell_id = overflow_cell.ocell
        THEN [ok |-> TRUE, hang |-> FALSE, cells |-> <<>>]
        ELSE IF ~overflow_cell.overflow
        THEN [ok |-> TRUE, hang |-> FALSE, cells |-> <<overflow_cell>>]
        ELSE LET rest == OverflowWalk(cur, overflow_cell.ocell, steps + 1)
             IN  [rest EXCEPT !.cells = <<overflow_cell>> \o @]

(* load_overflow_cell_records: no record is read when the root cell has no
   overflow; loading its node_ptr fails for an id the manager never gave. *)
LoadOverflowCellRecords(s, root_cell_record) ==
    CASE ~root_cell_record.overflow -> [ok |-> TRUE, hang |-> FALSE, cells |-> <<>>]
      [] ~Loadable(s, root_cell_record.node_ptr) -> [ok |-> FALSE, hang |-> FALSE, cells |-> <<>>]
      [] OTHER -> OverflowWalk(LoadNodeRecord(s, root_cell_record.node_ptr),
                               root_cell_record.ocell, 0)

(* retrieve_cell with retrieve_overflow_cells: the key is the root cell's
   fragment followed by the non-list overflow fragments; any IS_LIST_PTR
   cell makes a leaf cell whose list is the concatenated list fragments;
   otherwise the child is the last overflow cell's node_ptr, or the root
   cell's own. *)
CellOf(cell_record, ocs) ==
    LET lists == SelectSeq(ocs, LAMBDA c : c.listptr)
        keys  == SelectSeq(ocs, LAMBDA c : ~c.listptr)
    IN  [key   |-> KeyOf(cell_record) \o FlattenSeq([i \in DOMAIN keys |-> KeyOf(keys[i])]),
         child |-> IF lists # <<>> THEN 0
                   ELSE IF ocs # <<>> THEN Last(ocs).node_ptr ELSE cell_record.node_ptr,
         ptrs  |-> FlattenSeq([i \in DOMAIN lists |-> AppendListPtr(lists[i])])]

RetrieveCell(s, cell_record) ==
    CellOf(cell_record, LoadOverflowCellRecords(s, cell_record).cells)

ActiveCells(rec) == SelectSeq([i \in 1..NB_CELL |-> rec.cells[i - 1]], LAMBDA c : c.active)

\* A chain read that returned (no None, no endless loop).
Readable(r) == r.ok /\ ~r.hang

\* retrieve_node reads every active slot; None if a chain cannot be loaded.
RetrieveOk(s, nid) ==
    /\ Loadable(s, nid)
    /\ \A i \in DOMAIN ActiveCells(LoadNodeRecord(s, nid)) :
          Readable(LoadOverflowCellRecords(s, ActiveCells(LoadNodeRecord(s, nid))[i]))

RetrieveNode(s, nid) ==
    LET node == LoadNodeRecord(s, nid)
    IN  [leaf  |-> node.leaf, root |-> node.root,
         next  |-> IF node.has_next THEN node.ptr ELSE 0,
         cells |-> [i \in DOMAIN ActiveCells(node) |-> RetrieveCell(s, ActiveCells(node)[i])]]

DiskView == [recs |-> disk, pool |-> <<>>, hdr |-> header, ok |-> TRUE]

(***************************************************************************)
(* Saving a node (mod.rs save and the phases it calls).                   *)
(***************************************************************************)
\* select_root_node: a non-root node loses its ROOT flag; a root is
\* published in the header at once.
SelectRootNode(s, node, id) ==
    CASE ~Loadable(s, id) -> Fail(s)
      [] ~node.root -> PutNodeRecord(s, id, [LoadNodeRecord(s, id) EXCEPT !.root = FALSE])
      [] OTHER -> [s EXCEPT !.hdr.root = id]

OldCtx(i) == [old_cell_id |-> i, is_added |-> FALSE]
AddedCtx == [old_cell_id |-> 0, is_added |-> TRUE]

\* One context per slot of the record's active prefix.
InitialContexts(rec) ==
    LET n == IF IsFull(rec) THEN NB_CELL ELSE Min({i \in Slots : ~rec.cells[i].active})
    IN  [k \in 1..n |-> OldCtx(k - 1)]

(* The replay of the node's change log (make_cells_change_log 391-403): a
   remove drops the context at its index and remembers an old slot; an add
   inserts an "added" context.  An index out of range panics. *)
RECURSIVE ReplayChangeLog(_, _, _)
ReplayChangeLog(ctx, log, del) ==
    IF log = <<>> THEN [ok |-> TRUE, ctx |-> ctx, del |-> del]
    ELSE LET e == Head(log)
         IN  CASE e.op = "remove" /\ e.index < Len(ctx) ->
                    ReplayChangeLog(RemoveAt(ctx, e.index + 1), Tail(log),
                        IF ctx[e.index + 1].is_added THEN del
                        ELSE del \cup {ctx[e.index + 1].old_cell_id})
               [] e.op = "add" /\ e.index <= Len(ctx) ->
                    ReplayChangeLog(InsertAt(ctx, e.index + 1, AddedCtx), Tail(log), del)
               [] OTHER -> [ok |-> FALSE, ctx |-> ctx, del |-> del]

\* The removed old slots are set inactive in the main record.
SetInactive(s, id, del) ==
    PutNodeRecord(s, id, [LoadNodeRecord(s, id) EXCEPT !.cells =
        [i \in Slots |-> IF i \in del THEN [@[i] EXCEPT !.active = FALSE] ELSE @[i]]])

\* The result r of the replay applied to the record: slots, then chains.
ApplyChangeLog(s, id, r) ==
    IF ~r.ok THEN [s |-> Fail(s), ctx |-> <<>>]
    ELSE [s   |-> FoldSet(LAMBDA i, acc : DisableCellRecords(acc, <<id, i>>),
                          SetInactive(s, id, r.del), r.del),
          ctx |-> r.ctx]

(* make_cells_change_log: replay the log, set the removed slots inactive in
   the main record, and disable their overflow chains. *)
MakeCellsChangeLog(s, log, id) ==
    ApplyChangeLog(s, id, ReplayChangeLog(InitialContexts(LoadNodeRecord(s, id)), log, {}))

(* move_old_cell_records: the surviving old cells move to their new index;
   every other slot keeps what it held. *)
MoveOldCellRecords(s, id, ctx) ==
    LET rec == LoadNodeRecord(s, id)
    IN  PutNodeRecord(s, id, [rec EXCEPT !.cells =
            [k \in Slots |-> IF k < Len(ctx) /\ ~ctx[k + 1].is_added
                             THEN rec.cells[ctx[k + 1].old_cell_id] ELSE rec.cells[k]]])

(* update_overflow_cells: the records are written one after the other from
   the slot prev_cell_record points at, each time moving to the slot the
   record just written points at; the walk stops after a record without
   overflow (or with node_ptr 0) and returns where it stopped. *)
RECURSIVE UpdateOverflowCellsFrom(_, _, _)
UpdateOverflowCellsFrom(s, cell_records, loc) ==
    IF cell_records = <<>> THEN [s |-> s, loc |-> loc]
    ELSE LET cell == Head(cell_records)
             s1   == PutNodeRecord(s, loc[1],
                        [LoadNodeRecord(s, loc[1]) EXCEPT !.cells[loc[2]] = cell])
         IN  CASE cell.node_ptr # 0 /\ cell.overflow /\ loc[1] # cell.node_ptr
                    /\ ~Loadable(s1, cell.node_ptr) -> [s |-> Fail(s1), loc |-> loc]
               [] cell.node_ptr = 0 \/ ~cell.overflow -> [s |-> s1, loc |-> loc]
               [] OTHER -> UpdateOverflowCellsFrom(s1, Tail(cell_records),
                                                   <<cell.node_ptr, cell.ocell>>)

UpdateOverflowCells(s, cell_records, prev_cell_record) ==
    IF ~Loadable(s, prev_cell_record.node_ptr)
    THEN [s |-> Fail(s), loc |-> <<0, 0>>]
    ELSE UpdateOverflowCellsFrom(s, cell_records,
                                 <<prev_cell_record.node_ptr, prev_cell_record.ocell>>)

\* The last updated cell is chained to the first created one (cr.loc).
LinkCreated(loc, cr) ==
    PutNodeRecord(cr.s, loc[1], [LoadNodeRecord(cr.s, loc[1]) EXCEPT !.cells[loc[2]] =
                                    Chain([@ EXCEPT !.overflow = TRUE], cr.loc)])

\* List cells left over after the update are disabled from loc on.
DisableUnused(s, loc, left) == IF left > 0 THEN DisableCellRecords(s, loc) ELSE s

\* After update_overflow_cells: create the extra cells, link, disable.
FinishListUpdate(upd, cells_to_create, left) ==
    IF ~upd.s.ok THEN upd.s
    ELSE DisableUnused(IF cells_to_create = <<>> THEN upd.s
                       ELSE LinkCreated(upd.loc, CreateOverflowCells(upd.s,
                                            Reverse(cells_to_create), <<0, 0>>)),
                       upd.loc, left)

(* update_cell_data_ptrs on the chain r it has read: the new list is cut in
   fragments; fragment j is written into the j-th list cell popped from the
   END of the chain's list cells, and into new cells once they run out.  A
   full fragment pops the next cell before the loop knows whether one is
   needed.  The updated cells are reversed and rewritten from the last key
   cell on; new cells are chained behind the last rewritten one. *)
UpdateListCells(s, root_cell_record, r, data_ptrs) ==
    LET lists == SelectSeq(r.cells, LAMBDA c : c.listptr)
        keys  == SelectSeq(r.cells, LAMBDA c : ~c.listptr)
        prev  == IF keys = <<>> THEN root_cell_record ELSE Last(keys)
        n     == Len(lists)
        frags == Fragments(data_ptrs, PtrsPerCell)
        m     == Len(frags)
        full  == Cardinality({j \in DOMAIN frags : Len(frags[j]) = PtrsPerCell})
        u     == IF m < n THEN m ELSE n
        left  == IF n < 1 + full THEN 0 ELSE n - 1 - full
        cells_to_update == [j \in 1..u |-> [lists[n - j + 1] EXCEPT !.data = frags[j]]]
        cells_to_create == [j \in 1..(m - u) |->
                              [NewActive EXCEPT !.listptr = TRUE, !.data = frags[u + j]]]
    IN  IF ~Readable(r) \/ n = 0 THEN Fail(s)
        ELSE FinishListUpdate(UpdateOverflowCells(s, Reverse(cells_to_update), prev),
                              cells_to_create, left)

UpdateCellDataPtrs(s, root_cell_record, data_ptrs) ==
    UpdateListCells(s, root_cell_record, LoadOverflowCellRecords(s, root_cell_record), data_ptrs)

(* update_node_record_cells_data_ptr: for every surviving old cell whose
   list changed, rewrite its list from the main record as it stood after
   the move (one clone, taken before the loop). *)
UpdateNodeRecordCellsDataPtr(s, id, ctx, node, changed) ==
    LET main == LoadNodeRecord(s, id)
        RECURSIVE Loop(_, _)
        Loop(acc, k) ==
            IF k >= Len(ctx) \/ ~acc.ok THEN acc
            ELSE Loop(IF ~ctx[k + 1].is_added /\ k \in changed
                      THEN UpdateCellDataPtrs(acc, main.cells[k], node.cells[k + 1].ptrs)
                      ELSE acc, k + 1)
    IN  Loop(s, 0)

\* create_new_records: every added cell is written by create_cell into its slot.
CreateNewRecords(s, id, ctx, node) ==
    LET PlaceCell(c, k) ==
            PutNodeRecord(c.s, id, [LoadNodeRecord(c.s, id) EXCEPT !.cells[k] = c.main])
        RECURSIVE Loop(_, _)
        Loop(acc, k) ==
            IF k >= Len(ctx) \/ ~acc.ok THEN acc
            ELSE IF ctx[k + 1].is_added
            THEN Loop(PlaceCell(CreateCell(acc, node.cells[k + 1]), k), k + 1)
            ELSE Loop(acc, k + 1)
    IN  Loop(s, 0)

\* The cell phases of save, once the change log mc is replayed.
SaveCells(mc, node, id, changed) ==
    IF ~mc.s.ok THEN mc.s
    ELSE CreateNewRecords(UpdateNodeRecordCellsDataPtr(MoveOldCellRecords(mc.s, id, mc.ctx),
                                                       id, mc.ctx, node, changed),
                          id, mc.ctx, node)

(* BTreeNodeStore::save: the phases in code order, then save_all.  The leaf
   flag and the next pointer of the record are left as they are. *)
SaveFromRoot(s1, node, id, log, changed) ==
    IF ~s1.ok THEN s1 ELSE SaveCells(MakeCellsChangeLog(s1, log, id), node, id, changed)

SaveOp(node, id, log, changed) ==
    SaveFromRoot(SelectRootNode(StartOp, node, id), node, id, log, changed)

(***************************************************************************)
(* The B-tree above the store (not in the tree) is the environment: it    *)
(* retrieves a node, edits it in memory and saves it, or creates a node.  *)
(***************************************************************************)
LeafCells == [key : Keys, child : {0}, ptrs : {<<p>> : p \in Ptrs}]
InteriorCells == [key : Keys, child : ChildIds, ptrs : {<<>>}]
CellsFor(leaf) == IF leaf THEN LeafCells ELSE InteriorCells

(* The edits and the change log or list-change flag each leaves on the
   node: remove(i), add(i), a pointer appended to a leaf cell's list, the
   root demoted by a root split, a new sibling pointer after a leaf split. *)
EditsOf(R) ==
    LET n == Len(R.cells)
    IN  (IF "remove" \notin Edits THEN {} ELSE
            {[node |-> [R EXCEPT !.cells = RemoveAt(@, i + 1)],
              log |-> <<[op |-> "remove", index |-> i]>>, changed |-> {}] : i \in 0..(n - 1)})
        \cup
        (IF "add" \notin Edits \/ n >= MaxCells THEN {} ELSE
            {[node |-> [R EXCEPT !.cells = InsertAt(@, i + 1, c)],
              log |-> <<[op |-> "add", index |-> i]>>, changed |-> {}] :
                i \in 0..n, c \in CellsFor(R.leaf)})
        \cup
        (IF "append" \notin Edits THEN {} ELSE
            {[node |-> [R EXCEPT !.cells[i + 1].ptrs = Append(@, p)],
              log |-> <<>>, changed |-> {i}] :
                i \in {j \in 0..(n - 1) : R.cells[j + 1].ptrs # <<>>
                                          /\ Len(R.cells[j + 1].ptrs) < MaxListLen},
                p \in Ptrs})
        \cup
        (IF "unroot" \notin Edits \/ ~R.root THEN {} ELSE
            {[node |-> [R EXCEPT !.root = FALSE], log |-> <<>>, changed |-> {}]})
        \cup
        (IF "link" \notin Edits \/ ~R.leaf THEN {} ELSE
            {[node |-> [R EXCEPT !.next = j], log |-> <<>>, changed |-> {}] :
                j \in ChildIds \ {R.next}})

CommitSave(s, id, node) ==
    /\ Len(s.recs) <= MaxRecords
    /\ Commit(s)
    /\ expected' = IF aborted' THEN expected ELSE [expected EXCEPT ![id] = node]
    /\ written' = id

Save(id, e) == CommitSave(SaveOp(e.node, id, e.log, e.changed), id, e.node)

Init ==
    /\ disk = <<>>
    /\ header = [root |-> 0, free |-> 0]
    /\ expected = <<>>
    /\ written = 0
    /\ aborted = FALSE

Next ==
    \/ LoadOrCreateRootNode
    \/ \E node \in NodeChoices : Create(node)
    \/ \E id \in DOMAIN expected :
          /\ RetrieveOk(DiskView, id)
          /\ \E e \in EditsOf(RetrieveNode(DiskView, id)) : Save(id, e)

Spec == Init /\ [][Next]_vars

(***************************************************************************)
(* Properties.                                                            *)
(***************************************************************************)
BTreeIds == {i \in DOMAIN disk : ~disk[i].storage}

Bytes == UNION {Range(k) : k \in Keys}
\* A list cell holds vertex ids, any other cell key bytes.
CellType == [active : BOOLEAN, overflow : BOOLEAN, listptr : {FALSE},
             node_ptr : 0..MaxRecords \cup ChildIds, ocell : Slots, data : Seq(Bytes)]
            \cup [active : BOOLEAN, overflow : BOOLEAN, listptr : {TRUE},
                  node_ptr : 0..MaxRecords \cup ChildIds, ocell : Slots, data : Seq(Ptrs)]
RecordType == [storage : BOOLEAN, leaf : BOOLEAN, root : BOOLEAN, has_next : BOOLEAN,
               ptr : 0..MaxRecords \cup ChildIds, cells : [Slots -> CellType]]

\* Records, header pointers and observations have their types; every cell
\* location the iterator hands out names a slot of a record.
TypeOK ==
    /\ disk \in Seq(RecordType)
    /\ Len(disk) <= MaxRecords
    /\ header \in [root : 0..Len(disk), free : 0..Len(disk)]
    /\ DOMAIN expected \subseteq BTreeIds
    /\ written \in 0..Len(disk)
    /\ aborted \in BOOLEAN

\* The nodes the store hands back are the nodes it was given (spec.md 4.3,
\* scenario 3): retrieve_node after create or save returns the same cells,
\* keys, lists, children, flags and sibling pointer.
NodesRoundTrip ==
    \A id \in DOMAIN expected :
        /\ RetrieveOk(DiskView, id)
        /\ RetrieveNode(DiskView, id) = expected[id]

\* The slots of the chain that starts at loc, followed record by record;
\* cut one step after it must have repeated a slot.
RECURSIVE ChainLocs(_, _)
ChainLocs(loc, steps) ==
    IF ~(loc[1] \in DOMAIN disk) \/ steps > Len(disk) * NB_CELL THEN <<loc>>
    ELSE LET c == disk[loc[1]].cells[loc[2]]
         IN  <<loc>> \o (IF c.overflow THEN ChainLocs(<<c.node_ptr, c.ocell>>, steps + 1)
                                       ELSE <<>>)

ChainOf(id, i) ==
    LET c == disk[id].cells[i]
    IN  IF c.active /\ c.overflow THEN ChainLocs(<<c.node_ptr, c.ocell>>, 0) ELSE <<>>

\* Every overflow chain of a B-tree node's active cell visits each slot at
\* most once, lies in overflow storage records, holds only active cells
\* and ends in a cell without HAS_OVERFLOW (spec.md 3, 8): create_cell,
\* update_overflow_cells and the free-cell iterator keep it so.
ChainsWellFormed ==
    \A id \in BTreeIds, i \in Slots :
        LET L == ChainOf(id, i)
        IN  /\ IsInjective(L)
            /\ \A k \in DOMAIN L :
                  /\ L[k][1] \in DOMAIN disk
                  /\ disk[L[k][1]].storage
                  /\ disk[L[k][1]].cells[L[k][2]].active
            /\ L # <<>> => ~disk[Last(L)[1]].cells[Last(L)[2]].overflow

\* The records on the free-cell list, from the header's head pointer.
RECURSIVE FreeChain(_, _)
FreeChain(id, steps) ==
    IF id = 0 \/ ~(id \in DOMAIN disk) \/ steps > Len(disk) THEN <<id>>
    ELSE <<id>> \o FreeChain(disk[id].ptr, steps + 1)

\* The free-cell list ends at 0 without a repeat and holds only overflow
\* storage records; the head is 0 only while no storage record exists
\* (spec.md 3, 8): load_or_create_free_cells_overflow_node unlinks full
\* heads and publishes new ones.
FreeListWellFormed ==
    LET L == FreeChain(header.free, 0)
    IN  /\ Last(L) = 0
        /\ IsInjective(L)
        /\ \A k \in 1..(Len(L) - 1) : disk[L[k]].storage
        /\ (header.free = 0) <=> (\A i \in DOMAIN disk : ~disk[i].storage)

\* The slots a node owns: its record's active cells and their chains.
OwnedSlots(id) ==
    {<<id, i>> : i \in {j \in Slots : disk[id].cells[j].active}}
    \cup UNION {Range(ChainOf(id, i)) : i \in Slots}

SlotValue(d, loc) == IF loc[1] \in DOMAIN d THEN d[loc[1]].cells[loc[2]] ELSE EmptyCell

\* An operation on one node never writes a slot another node owns: the
\* chains of different nodes share overflow storage records, and create or
\* save must write only the node it was given and slots that were free.
OtherNodesUntouched ==
    [][\A id \in (BTreeIds \cap DOMAIN expected) \ {written'} :
          \A loc \in OwnedSlots(id) : SlotValue(disk', loc) = SlotValue(disk, loc)]_vars

\* What retrieve_node gives back for a node: {} for None.
ReadBack(id) == IF RetrieveOk(DiskView, id) THEN {RetrieveNode(DiskView, id)} ELSE {}

\* An index operation that returns None leaves every node the B-tree holds
\* reading back as before (spec.md 4.4, 6: an IO error aborts the
\* operation and the pool is dropped without save_all, so partial writes
\* never reach disk).  create_node_record, set_root_node_ptr and the
\* free-list head write through, and save_all_node_records may fail after
\* saving part of the pool.
AbortKeepsNodes ==
    [][aborted' => \A id \in DOMAIN expected : ReadBack(id)' = ReadBack(id)]_vars

\* Every active slot of an overflow storage record belongs to the chain of
\* a live cell of some B-tree node (spec.md 4.1, 4.4): removing a cell or
\* shortening a list disables its overflow records (disable_cell_records),
\* so their slots go back to the free-cell iterator.
NoOrphanCells ==
    \A id \in DOMAIN disk, i \in Slots :
        disk[id].storage /\ disk[id].cells[i].active =>
            \E n \in BTreeIds : <<id, i>> \in OwnedSlots(n)


\* Invariant (remove saves, move_old_cell_records and disable_cell_records):
\* after any sequence of saves, every node reads back as it was saved and
\* every active storage slot belongs to some node.
RemoveKeepsStore == NodesRoundTrip /\ NoOrphanCells

=============================================================================
