----------------------------- MODULE TxDispatch -----------------------------
(***************************************************************************)
(* handle_graph_request of one-graph-tx-handler (src/lib.rs): the request *)
(* dispatch over the session-status automaton, with many connections in   *)
(* parallel (spec.md 5).  Each client is a connection served by its own   *)
(* thread; it sends the tx_contexts of Requests[c] one after the other,    *)
(* each after the previous one returned.                                  *)
(*                                                                         *)
(* tx_handler.lock() takes the handler's lock, and the guard tx_lock lives *)
(* to the end of the call.  The lock is re-entrant (the WaitForCurrentTx   *)
(* branch calls handle_graph_request again with the guard held, and its    *)
(* result is borrowed as a RefCell): a thread already holding it takes it  *)
(* again, any other thread waits.  A client holds it while depth[c] > 0.  *)
(*                                                                         *)
(* TxHandler itself (tx_handler.rs) is not in the source tree.  Its        *)
(* get_session_status, acquire_session_lock and release_session_lock are   *)
(* modelled from spec.md 5: the handler remembers the session of the open  *)
(* transaction; a request of that session continues or commits it, a      *)
(* request of another session waits for it, a request with a session when *)
(* none is open opens one; the session lock is held from the opening to   *)
(* the commit, and acquiring it waits while it is held.                    *)
(***************************************************************************)
EXTENDS Naturals, Sequences

CONSTANTS
    Clients,     \* connections, one thread each
    Sessions,    \* session ids
    Requests,    \* Requests[c]: the tx_context of each request c sends
    NoTxContext, \* tx_context = None
    NoSession    \* the handler has no open transaction

TxContexts == {NoTxContext} \cup [session_id : Sessions, commit : BOOLEAN]

ASSUME /\ NoTxContext \notin [session_id : Sessions, commit : BOOLEAN]
       /\ NoSession \notin Sessions
       /\ \A c \in Clients : Requests[c] \in Seq(TxContexts)

VARIABLES
    pc,           \* per client: where its thread is in handle_graph_request
    sent,         \* per client: the requests it has sent
    depth,        \* per client: frames of handle_graph_request, each with its tx_lock guard
    current,      \* TxHandler: the session of the open transaction, or NoSession
    sessionLocked \* TxHandler: the session lock is held

vars == <<pc, sent, depth, current, sessionLocked>>

Ctx(c) == Requests[c][sent[c]]

TxLockFree == \A d \in Clients : depth[d] = 0

-----------------------------------------------------------------------------
(* TxHandler::get_session_status (spec.md 5, not in the tree). *)
SessionStatus(ctx) ==
    IF ctx = NoTxContext THEN "NoTx"
    ELSE IF current = NoSession THEN "OpenNewTx"
    ELSE IF current # ctx.session_id THEN "WaitForCurrentTx"
    ELSE IF ctx.commit THEN "CommitCurrentTx"
    ELSE "ContinueCurrentTx"

(* Where each status leads (the match arms, lines 25-48). *)
Arm == [NoTx |-> "run", OpenNewTx |-> "open", ContinueCurrentTx |-> "run",
        CommitCurrentTx |-> "commit", WaitForCurrentTx |-> "wait"]

-----------------------------------------------------------------------------
Init ==
    /\ pc = [c \in Clients |-> "idle"]
    /\ sent = [c \in Clients |-> 0]
    /\ depth = [c \in Clients |-> 0]
    /\ current = NoSession
    /\ sessionLocked = FALSE

(* The client sends its next request; its thread calls the handler. *)
Send(c) ==
    /\ pc[c] = "idle"
    /\ sent[c] < Len(Requests[c])
    /\ sent' = [sent EXCEPT ![c] = @ + 1]
    /\ pc' = [pc EXCEPT ![c] = "lock"]
    /\ UNCHANGED <<depth, current, sessionLocked>>

(* let tx_lock = tx_handler.lock(): free, or already this thread's. *)
Lock(c) ==
    /\ pc[c] = "lock"
    /\ depth[c] > 0 \/ TxLockFree
    /\ depth' = [depth EXCEPT ![c] = @ + 1]
    /\ pc' = [pc EXCEPT ![c] = "status"]
    /\ UNCHANGED <<sent, current, sessionLocked>>

(* get_session_status; a request that opens a transaction makes its       *)
(* session the current one.                                                *)
GetSessionStatus(c) ==
    /\ pc[c] = "status"
    /\ current' = IF SessionStatus(Ctx(c)) = "OpenNewTx" THEN Ctx(c).session_id
                   ELSE current
    /\ pc' = [pc EXCEPT ![c] = Arm[SessionStatus(Ctx(c))]]
    /\ UNCHANGED <<sent, depth, sessionLocked>>

(* acquire_session_lock in the OpenNewTx arm (line 27), then open_graph_tx *)
(* and handle_graph_request_tx.                                            *)
AcquireToOpen(c) ==
    /\ pc[c] = "open"
    /\ ~sessionLocked
    /\ sessionLocked' = TRUE
    /\ pc' = [pc EXCEPT ![c] = "return"]
    /\ UNCHANGED <<sent, depth, current>>

(* acquire_session_lock in the WaitForCurrentTx arm (line 38), then the   *)
(* recursive call with the same tx_context, the guard still held.         *)
AcquireToRetry(c) ==
    /\ pc[c] = "wait"
    /\ ~sessionLocked
    /\ sessionLocked' = TRUE
    /\ pc' = [pc EXCEPT ![c] = "lock"]
    /\ UNCHANGED <<sent, depth, current>>

(* ContinueCurrentTx and NoTx: the request handler runs the query under   *)
(* its RwLock, which no other request contends while tx_lock is held.     *)
RunRequest(c) ==
    /\ pc[c] = "run"
    /\ pc' = [pc EXCEPT ![c] = "return"]
    /\ UNCHANGED <<sent, depth, current, sessionLocked>>

(* CommitCurrentTx: commit_tx, then release_session_lock, which ends the  *)
(* handler's current transaction.                                          *)
CommitCurrentTx(c) ==
    /\ pc[c] = "commit"
    /\ sessionLocked' = FALSE
    /\ current' = NoSession
    /\ pc' = [pc EXCEPT ![c] = "return"]
    /\ UNCHANGED <<sent, depth>>

(* The frames return and drop their guards: the lock is free again. *)
Return(c) ==
    /\ pc[c] = "return"
    /\ depth' = [depth EXCEPT ![c] = 0]
    /\ pc' = [pc EXCEPT ![c] = "idle"]
    /\ UNCHANGED <<sent, current, sessionLocked>>

Handle(c) ==
    \/ Lock(c) \/ GetSessionStatus(c) \/ AcquireToOpen(c) \/ AcquireToRetry(c)
    \/ RunRequest(c) \/ CommitCurrentTx(c) \/ Return(c)

Next == \E c \in Clients : Send(c) \/ Handle(c)

(* Every thread that can step eventually does (the OS schedules every     *)
(* thread and a freed lock is eventually granted), and a client with an   *)
(* open transaction eventually sends the rest of its requests.            *)
Fairness == \A c \in Clients : WF_vars(Handle(c)) /\ WF_vars(Send(c))

Spec == Init /\ [][Next]_vars /\ Fairness

-----------------------------------------------------------------------------
TypeOK ==
    /\ pc \in [Clients -> {"idle", "lock", "status", "open", "wait", "run", "commit", "return"}]
    /\ \A c \in Clients : sent[c] \in 0 .. Len(Requests[c])
    /\ depth \in [Clients -> Nat]
    /\ current \in Sessions \cup {NoSession}
    /\ sessionLocked \in BOOLEAN

(* Liveness (spec.md 5: WaitForCurrentTx must yield so that the other     *)
(* sessions progress): every request a client sends is eventually         *)
(* answered, provided the clients finish their transactions.              *)
RequestsComplete ==
    \A c \in Clients : pc[c] # "idle" ~> pc[c] = "idle"
=============================================================================
