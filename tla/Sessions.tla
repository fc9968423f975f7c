------------------------------ MODULE Sessions ------------------------------
(***************************************************************************)
(* The database as the services use it: a pool of connections, each with a    *)
(* PostgreSQL session, lent to one request at a time. A service asks for a     *)
(* connection, sends BEGIN, statements, and COMMIT or ROLLBACK, and returns    *)
(* the connection. Nothing closes a transaction that a service leaves open:    *)
(* it goes back to the pool with its locks and its uncommitted writes, and      *)
(* the next user of the connection works inside it, until the pool closes a     *)
(* connection that is idle for too long. A statement that fails aborts its      *)
(* transaction, whose COMMIT is then a ROLLBACK that reports no error.          *)
(*                                                                         *)
(* Rows are named and hold values; isolation is READ COMMITTED: a statement     *)
(* sees what is committed when it runs, and the writes of its own session.      *)
(***************************************************************************)
EXTENDS Naturals, TLC

CONSTANTS
    Connections,
    Requests,
    MaxArrivals     \* bound: requests that arrive in a behaviour

ASSUME ConnectionsAssumption == "none" \notin Connections

VARIABLES
    committed,      \* committed[row]
    session,        \* session[c]: its transaction, uncommitted writes and row locks
    request,        \* request[r]: what is asked, on which connection, what comes next
    arrivals

sessionVars == <<committed, session, request, arrivals>>

Closed == [tx |-> "none", own |-> <<>>, locked |-> {}]
Idle == [at |-> "idle", kind |-> "none", row |-> "none", value |-> "none",
         on |-> "none", next |-> "none", seen |-> "none"]
Asked(kind, row, value, c, next) ==
    [at |-> "read", kind |-> kind, row |-> row, value |-> value, on |-> c, next |-> next, seen |-> "none"]

SessionsInit ==
    /\ session = [c \in Connections |-> Closed]
    /\ request = [r \in Requests |-> Idle]
    /\ arrivals = 0

Active == {r \in Requests : request[r].at # "idle"}
Unlent == {c \in Connections : \A r \in Requests : request[r].on # c}
Free(c, row) == \A d \in Connections \ {c} : row \notin session[d].locked
Over(own, row) == IF row \in DOMAIN own THEN own[row] ELSE committed[row]
View(c, row) == Over(session[c].own, row)

(* Statements, as what they make of a session. BEGIN inside a transaction only  *)
(* warns.                                                                    *)
Begun(s) == IF s.tx = "none" THEN [s EXCEPT !.tx = "open"] ELSE s
Lock(s, row) == [s EXCEPT !.locked = @ \cup {row}]
With(own, row, v) == [x \in DOMAIN own \cup {row} |-> IF x = row THEN v ELSE own[x]]
Write(s, row, v) == [Lock(s, row) EXCEPT !.own = With(@, row, v)]
Fail(s) == [s EXCEPT !.tx = "aborted"]
Committed(s) == IF s.tx = "open" THEN [row \in DOMAIN committed |-> Over(s.own, row)] ELSE committed

(* A request takes a connection and begins.                                   *)
Arrive(r, kind, row, value, next) ==
    /\ request[r].at = "idle" /\ arrivals < MaxArrivals
    /\ arrivals' = arrivals + 1
    /\ \E c \in Unlent :
        /\ session' = [session EXCEPT ![c] = Begun(@)]
        /\ request' = [request EXCEPT ![r] = Asked(kind, row, value, c, next)]
    /\ UNCHANGED committed

(* Request r is at a step whose statement does not wait for a lock.            *)
At(r, step) == request[r].at = step /\ Free(request[r].on, request[r].next)

(* The step turns the session into s and leads to the next one, whose          *)
(* statement needs row next.                                                  *)
Continue(r, s, step, next, seen) ==
    /\ session' = [session EXCEPT ![request[r].on] = s]
    /\ request' = [request EXCEPT ![r].at = step, ![r].next = next, ![r].seen = seen]
    /\ UNCHANGED <<committed, arrivals>>

Answer(r) == request' = [request EXCEPT ![r] = Idle] /\ UNCHANGED arrivals
Commit(r, s) ==
    /\ committed' = Committed(s)
    /\ session' = [session EXCEPT ![request[r].on] = Closed]
Rollback(r) ==
    /\ session' = [session EXCEPT ![request[r].on] = Closed]
    /\ UNCHANGED committed

(* A refusal that returns before COMMIT or ROLLBACK.                           *)
LeaveOpen(r, s) ==
    /\ session' = [session EXCEPT ![request[r].on] = s]
    /\ UNCHANGED committed

(* A statement of its own, without BEGIN, on a connection of the pool.          *)
Autocommit(c, row, v) ==
    /\ Free(c, row)
    /\ IF session[c].tx = "none"
       THEN committed' = [committed EXCEPT ![row] = v] /\ UNCHANGED session
       ELSE session' = [session EXCEPT ![c] = Write(@, row, v)] /\ UNCHANGED committed

(* A statement fails and the service's catch rolls back: it may be cancelled      *)
(* because it waits for a row lock (statement_timeout), or fail for itself.       *)
Caught(r) == r \in Active /\ Rollback(r) /\ Answer(r)
Timeout(r) == ~Free(request[r].on, request[r].next) /\ Caught(r)

(* idleTimeoutMillis: an idle connection is closed, its transaction undone.     *)
CloseIdle(c) ==
    /\ c \in Unlent /\ session[c].tx # "none"
    /\ session' = [session EXCEPT ![c] = Closed]
    /\ UNCHANGED <<committed, request, arrivals>>
=============================================================================
