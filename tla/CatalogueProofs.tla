-------------------------- MODULE CatalogueProofs --------------------------
(***************************************************************************)
(* For any products, documents, connections, requests and requirements:    *)
(* what the market shows is what its documents say, a completed job has    *)
(* its report, and a publication makes one shipment.                       *)
(*                                                                         *)
(* The invariant follows the transactions rather than the tables. A row    *)
(* that a transaction has changed it holds locked, so two open             *)
(* transactions never hold the same row (Locking); what each of them would *)
(* commit is, whoever commits it, a state the tables may be in             *)
(* (ProductsInv, MarketInv, ReportInv); and a transaction that a refused   *)
(* request left open on its connection holds nothing of a product and,     *)
(* while requests of the market do not overlap, none of its documents, so  *)
(* the request that is lent the connection next commits nothing of its     *)
(* predecessor.                                                            *)
(***************************************************************************)
EXTENDS Catalogue, TLAPS

ProductKinds == {"create", "update", "status", "delete", "import"}
MarketKinds == {"upload", "mapping", "approve", "remove", "touch", "report"}

(* A product as it is kept, and what one transaction may make of it.            *)
IsProduct(x) == x = [status |-> x.status, shipments |-> x.shipments] /\ x.shipments \in Nat
Becomes(old, new) ==
    new.shipments > old.shipments =>
        /\ new.shipments = old.shipments + 1
        /\ new.status = "active"
        /\ old.status = "active" => old.shipments = 0

IsSession(s) == s \in [tx : {s.tx}, own : {s.own}, locked : {s.locked}]
IsRequest(q) == q \in [at : {q.at}, kind : {q.kind}, row : {q.row}, value : {q.value},
                       on : {q.on}, next : {q.next}, seen : {q.seen}]

(* The steps at which a request's transaction holds changed products.            *)
HoldsProducts(q) == q.at = "commit" \/ (q.kind = "import" /\ q.at = "write")

(* What a request knows at each step.                                          *)
Knows(q) ==
    /\ q.on \in Connections
    /\ q.kind \in ProductKinds \cup MarketKinds
    /\ q.kind \in ProductKinds => q.at \in {"read", "write", "commit"}
    /\ q.kind \in MarketKinds => q.at \in {"read", "write", "score", "update", "enqueue"}
    /\ q.at = "enqueue" => q.kind = "report"
    /\ q.kind \in {"create", "update", "status", "delete"} => q.row \in Products
    /\ q.kind \in {"create", "update", "status", "delete"} /\ q.at = "write" => q.next = q.row
    /\ q.kind \in {"update", "status"} /\ q.at = "read" => q.next = q.row
    /\ q.kind \in {"create", "import"} => q.value \in {"draft", "active"}
    /\ q.kind = "import" /\ q.at = "write" => q.seen \subseteq Products /\ q.next \in q.seen
    /\ q.kind \in {"approve", "remove"} => q.row \in Documents
    /\ q.kind = "approve" /\ q.at = "write" => q.next = q.row
    /\ q.kind = "remove" => q.at # "write"
    /\ q.kind = "remove" /\ q.at = "read" => q.next = q.row
    /\ q.kind \in MarketKinds /\ q.at = "write" => q.next \in Documents
    /\ q.at = "update" => q.next = market
    /\ q.kind = "report" => q.at # "write"

Shapes ==
    /\ committed = [row \in Rows |-> committed[row]]
    /\ session = [c \in Connections |-> session[c]]
    /\ request = [r \in Requests |-> request[r]]
    /\ \A c \in Connections : IsSession(session[c])
    /\ \A r \in Requests : IsRequest(request[r]) /\ (request[r].at = "idle" => request[r] = Idle)

(* Locks keep the transactions apart.                                          *)
Locking ==
    /\ \A c \in Connections : DOMAIN session[c].own \subseteq session[c].locked
    /\ \A c, d \in Connections : c # d => session[c].locked \cap session[d].locked = {}
    /\ \A q, r \in Active : q # r => request[q].on # request[r].on

(* The products in a transaction.                                              *)
OwnProducts(s) == Products \cap DOMAIN s.own
(* The documents that a transaction sees.                                       *)
DocsIn(s) == [d \in Documents |-> Over(s.own, d)]
ProductsInv ==
    /\ \A p \in Products : IsProduct(committed[p])
    /\ \A c \in Connections : \A p \in OwnProducts(session[c]) :
           IsProduct(session[c].own[p]) /\ Becomes(committed[p], session[c].own[p])
    /\ \A c \in Unlent : OwnProducts(session[c]) = {}
    /\ \A r \in Active :
        /\ ~HoldsProducts(request[r]) => OwnProducts(session[request[r].on]) = {}
        /\ request[r].kind = "import" /\ request[r].at = "write" =>
               request[r].seen \cap DOMAIN session[request[r].on].own = {}
        /\ request[r].kind = "status" /\ request[r].at = "write" =>
               /\ request[r].row \in session[request[r].on].locked
               /\ request[r].seen = committed[request[r].row]
               /\ <<request[r].seen.status, request[r].value>> \in validTransitions

(* The score in a transaction. Until it has counted the documents a request of     *)
(* the market may have changed them in its transaction.                          *)
Unchanging(q) == q.kind \in ProductKinds \/ q.at \in {"read", "enqueue"} \/ q.kind = "report"
Agrees(s) ==
    /\ Documents \cap DOMAIN s.own = {}
    /\ market \in DOMAIN s.own => s.own[market] = committed[market]
MarketInv ==
    ~overlapped =>
        /\ committed[market] = Score(committed)
        /\ \A q, r \in Active : request[q].kind \in MarketKinds /\ request[r].kind \in MarketKinds => q = r
        /\ \A c \in Unlent : Agrees(session[c])
        /\ \A r \in Active :
            /\ Unchanging(request[r]) => Agrees(session[request[r].on])
            /\ request[r].at = "update" => request[r].seen = Score(DocsSeen(r))

(* The report and its job.                                                     *)
ReportInv ==
    /\ \A q, r \in Active : request[q].kind = "report" /\ request[r].kind = "report" => q = r
    /\ ~strayed =>
        /\ \A c \in Connections : {job, report} \cap DOMAIN session[c].own = {}
        /\ committed[job] = "completed" => committed[report] = "completed"
        /\ worker = "stored" => committed[report] = "completed"
        /\ \A r \in Active : request[r].kind = "report" /\ request[r].at # "enqueue" => committed[report] = "none"

KnowsInv == \A r \in Active : Knows(request[r])

IInv == Shapes /\ KnowsInv /\ Locking /\ ProductsInv /\ MarketInv /\ ReportInv

-----------------------------------------------------------------------------
\* What a write makes of a session.
LEMMA WriteIs ==
    ASSUME NEW s, IsSession(s), NEW row, NEW v
    PROVE  /\ IsSession(Write(s, row, v))
           /\ Write(s, row, v).tx = s.tx
           /\ Write(s, row, v).locked = s.locked \cup {row}
           /\ DOMAIN Write(s, row, v).own = DOMAIN s.own \cup {row}
           /\ Write(s, row, v).own[row] = v
           /\ \A x \in DOMAIN s.own \ {row} : Write(s, row, v).own[x] = s.own[x]
  <1>1. Lock(s, row) = [tx |-> s.tx, own |-> s.own, locked |-> s.locked \cup {row}]
    BY DEF Lock, IsSession
  <1>2. Write(s, row, v) = [tx |-> s.tx, own |-> With(s.own, row, v), locked |-> s.locked \cup {row}]
    BY <1>1 DEF Write
  <1> QED
    BY <1>2 DEF IsSession, With

\* The score depends on nothing but the documents.
LEMMA SameScore ==
    ASSUME NEW f, NEW g, \A d \in Documents : f[d] = g[d]
    PROVE  Score(f) = Score(g)
  <1>1. \A code : OfCode(f, code) = OfCode(g, code)
    BY DEF OfCode
  <1>2. \A code : \A d \in OfCode(f, code) : d \in Documents
    BY DEF OfCode
  <1>3. Done(f) = Done(g)
    BY <1>1, <1>2 DEF Done
  <1> QED
    BY <1>3 DEF Score

(* A step that turns the session of request r into s and the request into q,       *)
(* and what must be so for it to keep the invariant when it commits nothing.       *)
Moves(r, s, q) ==
    /\ session' = [session EXCEPT ![request[r].on] = s]
    /\ request' = [request EXCEPT ![r] = q]

Sound(r, s, q) ==
    /\ IsSession(s) /\ IsRequest(q)
    /\ \/ q = Idle
       \/ Knows(q) /\ q.on = request[r].on /\ q.kind = request[r].kind /\ request[r].at # "enqueue"
    /\ \A x \in s.locked : x \in session[request[r].on].locked \/ Free(request[r].on, x)
    /\ DOMAIN s.own \subseteq s.locked
    /\ \A p \in OwnProducts(s) : IsProduct(s.own[p]) /\ Becomes(committed[p], s.own[p])
    /\ q = Idle \/ ~HoldsProducts(q) => OwnProducts(s) = {}
    /\ q.kind = "import" /\ q.at = "write" => q.seen \cap DOMAIN s.own = {}
    /\ q.kind = "status" /\ q.at = "write" =>
           /\ q.row \in s.locked
           /\ q.seen = committed[q.row]
           /\ <<q.seen.status, q.value>> \in validTransitions
    /\ ~overlapped =>
           /\ q = Idle \/ Unchanging(q) => Agrees(s)
           /\ q.at = "update" => q.seen = Score(DocsIn(s))
    /\ \A x \in DOMAIN s.own : x \in DOMAIN session[request[r].on].own \/ x \notin {job, report}

LEMMA Stays ==
    ASSUME IInv, NEW r \in Active, NEW s, NEW q, Moves(r, s, q), Sound(r, s, q),
           UNCHANGED <<committed, marketVars>>
    PROVE  IInv'
  <1> DEFINE c == request[r].on
  <1>1. c \in Connections /\ r \in Requests
    BY DEF IInv, KnowsInv, Knows, Active
  <1>2. q.at = "idle" <=> q = Idle
    BY DEF Sound, Knows, Idle, ProductKinds, MarketKinds
  <1>3. /\ session'[c] = s /\ request'[r] = q
        /\ \A d \in Connections \ {c} : session'[d] = session[d]
        /\ \A t \in Requests \ {r} : request'[t] = request[t]
    BY <1>1 DEF IInv, Shapes, Moves
  <1>4. Shapes'
    BY <1>1, <1>2, <1>3 DEF IInv, Shapes, IsSession, IsRequest, Idle, Moves, Sound
  <1>5. \A t : t \in Active' <=> t \in Active /\ (t = r => q # Idle)
    BY <1>2, <1>3 DEF Active
  <1>6. \A t \in Active \ {r} : request[t].on # c /\ request[t].on \in Connections
    BY DEF IInv, Locking, KnowsInv, Knows
  <1>7. ASSUME NEW d \in Unlent' PROVE (d \in Unlent /\ d # c) \/ (d = c /\ q = Idle)
    <2>1. d \in Connections /\ \A t \in Requests : request'[t].on # d
      BY DEF Unlent
    <2>2. q.on # d
      BY <1>1, <1>3, <2>1
    <2>3. CASE d = c
      BY <2>2, <2>3 DEF Sound
    <2>4. CASE d # c
      BY <1>1, <1>3, <2>1, <2>4 DEF Unlent
    <2> QED
      BY <2>3, <2>4
  <1>8. KnowsInv'
    BY <1>3, <1>5 DEF IInv, KnowsInv, Active, Knows, Sound
  <1>9. Locking'
    BY <1>3, <1>5, <1>6 DEF IInv, Locking, Free, Active, Sound
  <1>10. ProductsInv'
    BY <1>3, <1>5, <1>6, <1>7 DEF IInv, ProductsInv, OwnProducts, Active, Unlent, HoldsProducts, Becomes, IsProduct, Sound
  <1>11. MarketInv'
    BY <1>3, <1>5, <1>6, <1>7 DEF IInv, MarketInv, Agrees, Active, Unlent, Unchanging, DocsSeen, DocsIn, View, Over, marketVars, Sound
  <1>12. ReportInv'
    BY <1>1, <1>3, <1>5 DEF IInv, ReportInv, Active, marketVars, Sound
  <1> QED
    BY <1>4, <1>8, <1>9, <1>10, <1>11, <1>12 DEF IInv

\* What the step keeps that commits the transaction s of request r.
LEMMA Commits ==
    ASSUME IInv, NEW r \in Active, NEW c, c = request[r].on, NEW s, NEW q,
           committed' = Committed(s),
           session' = [session EXCEPT ![c] = Closed],
           request' = [request EXCEPT ![r] = q],
           UNCHANGED marketVars,
           IsRequest(q),
           \/ q = Idle
           \/ Knows(q) /\ q.on = c /\ q.kind = request[r].kind /\ q.at = "enqueue",
           \A x \in DOMAIN s.own : x \in session[c].locked \/ Free(c, x) \/ x = report,
           \A p \in OwnProducts(s) : IsProduct(s.own[p]) /\ Becomes(committed[p], s.own[p]),
           ~overlapped =>
               \/ Agrees(s)
               \/ /\ request[r].kind \in MarketKinds
                  /\ market \in DOMAIN s.own
                  /\ s.own[market] = Score(DocsIn(s)),
           ~strayed =>
               /\ job \notin DOMAIN s.own
               /\ report \in DOMAIN s.own => request[r].kind = "report" /\ request[r].at # "enqueue"
    PROVE  IInv' /\ \A p \in Products : committed'[p] = committed[p] \/ Becomes(committed[p], committed'[p])
  <1>1. c \in Connections /\ r \in Requests
    BY DEF IInv, KnowsInv, Knows, Active
  <1>2. q.at = "idle" <=> q = Idle
    BY DEF Knows, Idle, ProductKinds, MarketKinds
  <1>3. /\ session'[c] = Closed /\ request'[r] = q
        /\ \A d \in Connections \ {c} : session'[d] = session[d]
        /\ \A t \in Requests \ {r} : request'[t] = request[t]
    BY <1>1 DEF IInv, Shapes
  <1>4. /\ Closed.own = <<>> /\ Closed.locked = {} /\ DOMAIN Closed.own = {}
        /\ IsSession(Closed)
    BY DEF Closed, IsSession
  <1>5. /\ committed' = [row \in Rows |-> committed'[row]]
        /\ \A row \in Rows : committed'[row] = committed[row] \/ (row \in DOMAIN s.own /\ committed'[row] = s.own[row])
        /\ committed' # committed => \A row \in Rows : committed'[row] = Over(s.own, row)
    BY DEF IInv, Shapes, Committed, Over
  <1>6. Shapes'
    BY <1>1, <1>2, <1>3, <1>4, <1>5 DEF IInv, Shapes, IsSession, IsRequest, Idle
  <1>7. \A t : t \in Active' <=> t \in Active /\ (t = r => q # Idle)
    BY <1>2, <1>3 DEF Active
  <1>8. \A t \in Active \ {r} : request[t].on # c /\ request[t].on \in Connections
    BY DEF IInv, Locking, KnowsInv, Knows
  <1>9. \A d \in Unlent' : d \in Unlent \/ d = c
    BY <1>1, <1>3 DEF Unlent
  <1>10. KnowsInv'
    BY <1>3, <1>7 DEF IInv, KnowsInv, Active, Knows
  <1>11. Locking'
    BY <1>3, <1>4, <1>7, <1>8 DEF IInv, Locking, Active
  \* What another transaction has locked is not committed.
  <1>12. \A d \in Connections \ {c} : \A x \in session[d].locked \cap Rows :
             x # report => x \notin DOMAIN s.own /\ committed'[x] = committed[x]
    BY <1>1, <1>5 DEF IInv, Locking, Free
  <1>13. \A p \in Products : /\ p \in Rows /\ p # report
                             /\ committed'[p] = committed[p] \/ Becomes(committed[p], committed'[p])
                             /\ IsProduct(committed'[p])
    BY <1>5, RowsAssumption DEF Rows, OwnProducts, IInv, ProductsInv
  <1>14. ProductsInv'
    <2>1. \A d \in Connections : \A p \in OwnProducts(session[d])' :
              d # c /\ p \in session[d].locked /\ session'[d] = session[d] /\ committed'[p] = committed[p]
      BY <1>3, <1>4, <1>12, <1>13 DEF OwnProducts, IInv, Locking
    <2>2. \A d \in Connections : \A p \in OwnProducts(session[d])' :
              IsProduct(session'[d].own[p]) /\ Becomes(committed'[p], session'[d].own[p])
      BY <2>1, <1>3 DEF OwnProducts, IInv, ProductsInv
    <2>3. \A d \in Unlent' : OwnProducts(session[d])' = {}
      BY <1>3, <1>4, <1>9 DEF OwnProducts, IInv, ProductsInv, Unlent
    <2>4. ASSUME NEW t \in Active'
          PROVE  /\ ~HoldsProducts(request'[t]) => OwnProducts(session'[request'[t].on]) = {}
                 /\ request'[t].kind = "import" /\ request'[t].at = "write" =>
                        request'[t].seen \cap DOMAIN session'[request'[t].on].own = {}
                 /\ request'[t].kind = "status" /\ request'[t].at = "write" =>
                        /\ request'[t].row \in session'[request'[t].on].locked
                        /\ request'[t].seen = committed'[request'[t].row]
                        /\ <<request'[t].seen.status, request'[t].value>> \in validTransitions
      <3>1. CASE t = r
        BY <1>1, <1>3, <1>4, <1>7, <3>1 DEF OwnProducts
      <3>2. CASE t # r
        <4>1. /\ t \in Active /\ request'[t] = request[t]
              /\ session'[request[t].on] = session[request[t].on] /\ request[t].on \in Connections \ {c}
          BY <1>3, <1>7, <1>8, <3>2 DEF Active
        <4>2. request[t].kind = "status" => request[t].row \in Products
          BY <4>1 DEF IInv, KnowsInv, Knows
        <4> QED
          BY <1>12, <1>13, <4>1, <4>2 DEF OwnProducts, IInv, ProductsInv
      <3> QED
        BY <3>1, <3>2
    <2> QED
      BY <1>13, <2>2, <2>3, <2>4 DEF ProductsInv, OwnProducts, HoldsProducts, IsProduct, Becomes
  <1>15. MarketInv'
    <2> SUFFICES ASSUME ~overlapped PROVE MarketInv'
      BY DEF MarketInv, marketVars
    <2>1. market \in Rows /\ market # report /\ \A d \in Documents : d \in Rows /\ d # report
      BY RowsAssumption DEF Rows, market, report
    <2>2. CASE Agrees(s) \/ committed' = committed
      <3>1. committed'[market] = committed[market] /\ \A d \in Documents : committed'[d] = committed[d]
        BY <1>5, <2>1, <2>2 DEF Agrees
      <3>2. Score(committed') = Score(committed)
        BY <3>1, SameScore
      <3>3. \A d \in Unlent' : Agrees(session[d])'
        BY <1>3, <1>4, <1>9, <3>1 DEF Agrees, IInv, MarketInv, Unlent
      <3>4. \A t \in Active' : /\ (Unchanging(request[t]) => Agrees(session[request[t].on]))'
                               /\ request'[t].at = "update" => request'[t].seen = Score(DocsSeen(t)')
        <4> TAKE t \in Active'
        <4>1. CASE t = r
          BY <1>1, <1>3, <1>4, <1>7, <4>1 DEF Agrees
        <4>2. CASE t # r
          BY <1>3, <1>7, <1>8, <4>2, <3>1 DEF Agrees, IInv, MarketInv, Active, Unchanging, DocsSeen, View, Over
        <4> QED
          BY <4>1, <4>2
      <3>9. \A t, u \in Active' : request'[t].kind \in MarketKinds /\ request'[u].kind \in MarketKinds => t = u
        BY <1>3, <1>7 DEF IInv, MarketInv, Active
      <3> QED
        BY <3>1, <3>2, <3>3, <3>4, <3>9 DEF IInv, MarketInv
    <2>3. CASE ~Agrees(s) /\ committed' # committed
      <3>1. \A d \in Connections \ {c} : market \notin DOMAIN session[d].own
        BY <1>12, <2>1, <2>3 DEF IInv, Locking
      <3> DEFINE docs == DocsIn(s)
      <3>2. committed'[market] = Score(docs) /\ \A d \in Documents : committed'[d] = docs[d]
        BY <1>5, <2>1, <2>3 DEF Over, DocsIn
      <3>3. Score(committed') = Score(docs)
        BY <3>2, SameScore
      <3>4. \A t \in Active' : t # r => request[t].kind \in ProductKinds /\ request[t].at # "update"
        BY <1>7, <2>3 DEF IInv, MarketInv, KnowsInv, Knows
      <3>5. \A d \in Unlent' : Agrees(session[d])'
        BY <1>3, <1>4, <1>9, <3>1 DEF Agrees, IInv, MarketInv, Unlent
      <3>6. \A t \in Active' : /\ (Unchanging(request[t]) => Agrees(session[request[t].on]))'
                               /\ request'[t].at # "update"
        <4> TAKE t \in Active'
        <4>1. CASE t = r
          BY <1>1, <1>3, <1>4, <1>7, <4>1 DEF Agrees
        <4>2. CASE t # r
          BY <1>3, <1>7, <1>8, <4>2, <3>1, <3>4 DEF Agrees, IInv, MarketInv, Active, Unchanging
        <4> QED
          BY <4>1, <4>2
      <3>9. \A t, u \in Active' : request'[t].kind \in MarketKinds /\ request'[u].kind \in MarketKinds => t = u
        BY <1>3, <1>7 DEF IInv, MarketInv, Active
      <3> QED
        BY <3>2, <3>3, <3>5, <3>6, <3>9 DEF MarketInv
    <2> QED
      BY <2>2, <2>3
  <1>16. ReportInv'
    <2>1. {job, report} \subseteq Rows
      BY DEF Rows
    <2>2. ~strayed => /\ committed'[job] = committed[job]
                      /\ \/ committed'[report] = committed[report]
                         \/ committed[report] = "none" /\ request[r].kind = "report"
      BY <1>5, <2>1 DEF IInv, ReportInv
    <2> QED
      BY <1>1, <1>3, <1>4, <1>7, <2>2 DEF IInv, ReportInv, Active, marketVars
  <1> QED
    BY <1>6, <1>10, <1>11, <1>13, <1>14, <1>15, <1>16 DEF IInv

\* A request that arrives finds on its connection what a refused one may have left.
LEMMA Arrives ==
    ASSUME IInv, NEW r \in Requests, NEW kind, NEW row, NEW value, NEW next,
           Arrive(r, kind, row, value, next),
           \A c \in Connections : Knows(Asked(kind, row, value, c, next)),
           UNCHANGED <<worker, strayed>>,
           ~overlapped' => ~overlapped /\ (kind \in ProductKinds \/ Active = {}),
           kind = "report" => committed[report] = "none" /\ \A q \in Requests : request[q].kind # "report"
    PROVE  IInv' /\ UNCHANGED committed
  <1>1. PICK c \in Unlent :
            /\ session' = [session EXCEPT ![c] = Begun(@)]
            /\ request' = [request EXCEPT ![r] = Asked(kind, row, value, c, next)]
    BY DEF Arrive
  <1> DEFINE q == request'[r]
  <1>2. c \in Connections /\ r \notin Active /\ UNCHANGED committed
    BY DEF Arrive, Active, Unlent
  <1>3. /\ q = Asked(kind, row, value, c, next)
        /\ \A t \in Requests \ {r} : request'[t] = request[t]
        /\ Knows(q) /\ q.at = "read" /\ q.kind = kind /\ q.on = c /\ IsRequest(q)
    BY <1>1, <1>2 DEF IInv, Shapes, Asked, IsRequest
  <1>4. /\ \A d \in Connections : session'[d].own = session[d].own /\ session'[d].locked = session[d].locked
        /\ session' = [d \in Connections |-> session'[d]]
        /\ \A d \in Connections : IsSession(session'[d])
    BY <1>1, <1>2 DEF IInv, Shapes, IsSession, Begun
  <1>5. Active' = Active \cup {r} /\ Unlent' = Unlent \ {c}
    <2>1. request[r] = Idle /\ \A d \in Connections : request[r].on # d
      BY <1>2, ConnectionsAssumption DEF IInv, Shapes, Active, Idle
    <2> QED
      BY <1>2, <1>3, <2>1 DEF Active, Unlent
  <1>6. \A t \in Active : t # r /\ request[t].on # c /\ request[t].on \in Connections
    BY <1>2 DEF IInv, KnowsInv, Knows, Unlent, Active
  <1>7. Shapes'
    BY <1>1, <1>2, <1>3, <1>4 DEF IInv, Shapes, IsRequest, IsSession
  <1>8. KnowsInv'
    <2>1. \A t \in Active : request'[t] = request[t]
      BY <1>3, <1>6 DEF Active
    <2> QED
      BY <1>3, <1>5, <2>1 DEF IInv, KnowsInv, Knows
  <1>9. Locking'
    BY <1>3, <1>4, <1>5, <1>6 DEF IInv, Locking, Active
  <1>10. ProductsInv'
    BY <1>2, <1>3, <1>4, <1>5, <1>6 DEF IInv, ProductsInv, OwnProducts, Active, HoldsProducts, Becomes, IsProduct, Unlent
  <1>11. MarketInv'
    <2> SUFFICES ASSUME ~overlapped' PROVE MarketInv'
      BY DEF MarketInv
    <2>1. ~overlapped /\ (kind \in ProductKinds \/ Active = {})
      OBVIOUS
    <2>2. \A d \in Connections : (Agrees(session[d]))' <=> Agrees(session[d])
      BY <1>2, <1>4 DEF Agrees
    <2>3. \A t \in Active : request'[t] = request[t] /\ (DocsSeen(t))' = DocsSeen(t)
      BY <1>2, <1>3, <1>4, <1>6 DEF Active, DocsSeen, View, Over
    <2>4. Agrees(session[c])
      BY <2>1 DEF IInv, MarketInv
    <2>5. committed'[market] = Score(committed')
      BY <1>2, <2>1 DEF IInv, MarketInv
    <2>6. \A t, u \in Active' : request'[t].kind \in MarketKinds /\ request'[u].kind \in MarketKinds => t = u
      BY <1>3, <1>5, <2>1, <2>3 DEF IInv, MarketInv, ProductKinds, MarketKinds
    <2>7. \A d \in Unlent' : (Agrees(session[d]))'
      BY <1>5, <2>1, <2>2 DEF IInv, MarketInv, Unlent
    <2>8. \A t \in Active' : /\ (Unchanging(request[t]) => Agrees(session[request[t].on]))'
                             /\ request'[t].at = "update" => request'[t].seen = Score(DocsSeen(t)')
      BY <1>2, <1>3, <1>5, <1>6, <2>1, <2>2, <2>3, <2>4 DEF IInv, MarketInv, Unchanging
    <2> QED
      BY <2>5, <2>6, <2>7, <2>8 DEF MarketInv
  <1>12. ReportInv'
    BY <1>2, <1>3, <1>4, <1>5 DEF IInv, ReportInv, Active
  <1> QED
    BY <1>2, <1>7, <1>8, <1>9, <1>10, <1>11, <1>12 DEF IInv

\* The pool closes a connection that holds an open transaction.
LEMMA Closes ==
    ASSUME IInv, NEW c \in Connections, CloseIdle(c), UNCHANGED marketVars
    PROVE  IInv' /\ UNCHANGED committed
  <1>1. /\ c \in Unlent /\ UNCHANGED <<committed, request, worker, overlapped, strayed>>
        /\ session' = [session EXCEPT ![c] = Closed]
    BY DEF CloseIdle, marketVars
  <1>2. Closed.locked = {} /\ DOMAIN Closed.own = {} /\ IsSession(Closed)
    BY DEF Closed, IsSession
  <1>3. /\ session'[c] = Closed
        /\ \A d \in Connections \ {c} : session'[d] = session[d]
    BY <1>1 DEF IInv, Shapes
  <1>4. Active' = Active /\ Unlent' = Unlent /\ \A r \in Active : request[r].on \in Connections \ {c}
    BY <1>1 DEF Active, Unlent, IInv, KnowsInv, Knows
  <1>5. Shapes' /\ KnowsInv' /\ Locking'
    <2>1. Shapes'
      BY <1>1, <1>2, <1>3 DEF IInv, Shapes, IsSession, IsRequest
    <2>2. KnowsInv'
      BY <1>1, <1>4 DEF IInv, KnowsInv
    <2>3. Locking'
      BY <1>1, <1>2, <1>3, <1>4 DEF IInv, Locking
    <2> QED
      BY <2>1, <2>2, <2>3
  <1>6. ProductsInv'
    BY <1>1, <1>2, <1>3, <1>4 DEF IInv, ProductsInv, OwnProducts, HoldsProducts, Becomes, IsProduct, Unlent
  <1>7. MarketInv'
    BY <1>1, <1>2, <1>3, <1>4 DEF IInv, MarketInv, Agrees, Unlent, Unchanging, DocsSeen, View, Over
  <1>8. ReportInv'
    BY <1>1, <1>2, <1>3, <1>4 DEF IInv, ReportInv
  <1> QED
    BY <1>1, <1>5, <1>6, <1>7, <1>8 DEF IInv

\* What a statement keeps that writes the row of the report or of its job, and commits it or
\* leaves it to the transaction that is open on its connection.
LEMMA AutocommitKeeps ==
    ASSUME IInv, NEW c \in Unlent, NEW row \in {job, report}, NEW v, Free(c, row),
           \/ committed' = [committed EXCEPT ![row] = v] /\ UNCHANGED session
           \/ session' = [session EXCEPT ![c] = Write(@, row, v)] /\ UNCHANGED committed,
           request' = [r \in Requests |-> request'[r]],
           \A r \in Requests : request'[r] = request[r] \/ (request'[r] = Idle /\ request[r].at = "enqueue"),
           UNCHANGED overlapped
    PROVE  /\ Shapes' /\ KnowsInv' /\ Locking' /\ ProductsInv' /\ MarketInv'
           /\ \A p \in Products : committed'[p] = committed[p]
  <1>1. /\ row \in Rows /\ row # market /\ row \notin Documents /\ row \notin Products
        /\ market \in Rows /\ c \in Connections
    BY RowsAssumption DEF Rows, market, job, report, Unlent
  <1>2. /\ \A x \in Rows \ {row} : committed'[x] = committed[x]
        /\ committed' = [x \in Rows |-> committed'[x]]
    BY <1>1 DEF IInv, Shapes
  <1>3. /\ \A d \in Connections \ {c} : session'[d] = session[d]
        /\ session' = [d \in Connections |-> session'[d]]
    BY <1>1 DEF IInv, Shapes
  <1>4. session'[c] = session[c] \/ session'[c] = Write(session[c], row, v)
    BY <1>1 DEF IInv, Shapes
  <1>5. /\ IsSession(session'[c])
        /\ session'[c].locked \subseteq session[c].locked \cup {row}
        /\ session[c].locked \subseteq session'[c].locked
        /\ DOMAIN session'[c].own \subseteq session'[c].locked
        /\ \A x \in DOMAIN session'[c].own \ {row} :
               x \in DOMAIN session[c].own /\ session'[c].own[x] = session[c].own[x]
    BY <1>1, <1>4, WriteIs DEF IInv, Shapes, Locking
  <1>6. /\ Active' \subseteq Active /\ \A r \in Active' : request'[r] = request[r]
        /\ \A r \in Active : request[r].on \in Connections \ {c}
    BY DEF Active, Idle, Unlent, IInv, KnowsInv, Knows
  <1>7. Shapes' /\ KnowsInv' /\ Locking'
    <2>1. Shapes'
      BY <1>1, <1>2, <1>3, <1>5 DEF IInv, Shapes, IsSession, IsRequest, Idle
    <2>2. KnowsInv'
      BY <1>6 DEF IInv, KnowsInv, Knows
    <2>3. Locking'
      BY <1>1, <1>3, <1>5, <1>6 DEF IInv, Locking, Free
    <2> QED
      BY <2>1, <2>2, <2>3
  \* A connection that is free now was free before, or its request has just answered.
  <1>8. \A d \in Unlent' : d \in Unlent \/ \E r \in Active : request[r].on = d /\ request[r].at = "enqueue"
    BY DEF Unlent, Active
  <1>9. \A d \in Unlent' : OwnProducts(session[d]) = {} /\ (~overlapped => Agrees(session[d]))
    BY <1>8 DEF IInv, ProductsInv, MarketInv, HoldsProducts, Unchanging
  <1>10. \A d \in Connections :
            /\ (OwnProducts(session[d]))' = OwnProducts(session[d])
            /\ \A x \in DOMAIN session[d].own \ {row} : session'[d].own[x] = session[d].own[x]
            /\ DOMAIN session'[d].own \subseteq DOMAIN session[d].own \cup {row}
            /\ session[d].locked \subseteq session'[d].locked
    BY <1>1, <1>3, <1>4, <1>5, WriteIs DEF OwnProducts, IInv, Shapes
  <1>11. \A p \in Products : committed'[p] = committed[p]
    BY <1>1, <1>2 DEF Rows
  <1>12. ProductsInv'
    <2>1. \A r \in Active : request[r].kind = "import" /\ request[r].at = "write" => request[r].seen \subseteq Products
      BY DEF IInv, KnowsInv, Knows
    <2>2. \A r \in Active : request[r].kind = "status" => request[r].row \in Products
      BY DEF IInv, KnowsInv, Knows
    <2>3. /\ \A p \in Products : IsProduct(committed'[p])
          /\ \A d \in Connections : \A p \in (OwnProducts(session[d]))' :
                 IsProduct(session'[d].own[p]) /\ Becomes(committed'[p], session'[d].own[p])
          /\ \A d \in Unlent' : (OwnProducts(session[d]))' = {}
      BY <1>1, <1>9, <1>10, <1>11 DEF OwnProducts, IInv, ProductsInv, Unlent
    <2>4. ASSUME NEW r \in Active'
          PROVE  /\ ~HoldsProducts(request[r])' => (OwnProducts(session[request[r].on]))' = {}
                 /\ request'[r].kind = "import" /\ request'[r].at = "write" =>
                        request'[r].seen \cap DOMAIN session'[request'[r].on].own = {}
                 /\ request'[r].kind = "status" /\ request'[r].at = "write" =>
                        /\ request'[r].row \in session'[request'[r].on].locked
                        /\ request'[r].seen = committed'[request'[r].row]
                        /\ <<request'[r].seen.status, request'[r].value>> \in validTransitions
      <3>1. r \in Active /\ request'[r] = request[r] /\ request[r].on \in Connections
        BY <1>6
      <3>2. ~HoldsProducts(request[r])' => (OwnProducts(session[request[r].on]))' = {}
        <4>1. (OwnProducts(session[request[r].on]))' = OwnProducts(session[request[r].on])
          BY <3>1, <1>10 DEF OwnProducts
        <4> QED
          BY <3>1, <4>1 DEF IInv, ProductsInv, HoldsProducts
      <3>3. request[r].kind = "import" /\ request[r].at = "write" =>
                request[r].seen \cap DOMAIN session'[request[r].on].own = {}
        BY <3>1, <1>1, <1>10, <2>1 DEF IInv, ProductsInv
      <3>4. request[r].kind = "status" /\ request[r].at = "write" =>
                        /\ request[r].row \in session'[request[r].on].locked
                        /\ request[r].seen = committed'[request[r].row]
                        /\ <<request[r].seen.status, request[r].value>> \in validTransitions
        BY <3>1, <1>10, <1>11, <2>2 DEF IInv, ProductsInv
      <3> QED
        BY <3>1, <3>2, <3>3, <3>4
    <2> QED
      BY <2>3, <2>4 DEF ProductsInv
  <1>13. MarketInv'
    <2> SUFFICES ASSUME ~overlapped PROVE MarketInv'
      BY DEF MarketInv
    <2>1. committed'[market] = committed[market] /\ \A d \in Documents : committed'[d] = committed[d]
      BY <1>1, <1>2 DEF Rows
    <2>2. Score(committed') = Score(committed)
      BY <2>1, SameScore
    <2>3. \A d \in Connections : Agrees(session[d]) => (Agrees(session[d]))'
      BY <1>1, <1>10, <2>1 DEF Agrees
    <2>4. \A r \in Active' : \A d \in Documents : Over(session[request[r].on].own, d)' = Over(session[request[r].on].own, d)
      BY <1>1, <1>3, <1>6, <2>1 DEF Over
    <2>5. \A r \in Active' : DocsSeen(r)' = DocsSeen(r)
      BY <1>6, <2>4 DEF DocsSeen, View
    <2>6. \A d \in Unlent' : (Agrees(session[d]))'
      BY <1>9, <2>3 DEF Unlent
    <2>7. \A r \in Active' : /\ (Unchanging(request[r]) => Agrees(session[request[r].on]))'
                             /\ request'[r].at = "update" => request'[r].seen = Score(DocsSeen(r)')
      BY <1>6, <2>3, <2>5 DEF IInv, MarketInv, Unchanging
    <2>8. \A r, t \in Active' : request'[r].kind \in MarketKinds /\ request'[t].kind \in MarketKinds => r = t
      BY <1>6 DEF IInv, MarketInv
    <2> QED
      BY <2>1, <2>2, <2>6, <2>7, <2>8 DEF IInv, MarketInv
  <1> QED
    BY <1>7, <1>11, <1>12, <1>13

\* A statement about the report or its job, outside a transaction, on any free connection.
LEMMA Autocommits ==
    ASSUME IInv, NEW c \in Unlent, NEW row \in {job, report}, NEW v, Autocommit(c, row, v),
           request' = [r \in Requests |-> request'[r]],
           \A r \in Requests : request'[r] = request[r] \/ (request'[r] = Idle /\ request[r].at = "enqueue"),
           UNCHANGED overlapped, ~strayed' => ~strayed /\ session[c].tx = "none"
    PROVE  /\ Shapes' /\ KnowsInv' /\ Locking' /\ ProductsInv' /\ MarketInv'
           /\ \A p \in Products : committed'[p] = committed[p]
           /\ ~strayed' => ~strayed /\ committed' = [committed EXCEPT ![row] = v] /\ UNCHANGED session
  <1>2. CASE session[c].tx = "none"
    <2>1. committed' = [committed EXCEPT ![row] = v] /\ UNCHANGED session /\ Free(c, row)
      BY <1>2 DEF Autocommit
    <2> QED
      BY <2>1, AutocommitKeeps
  <1>3. CASE session[c].tx # "none"
    <2>1. session' = [session EXCEPT ![c] = Write(@, row, v)] /\ UNCHANGED committed /\ strayed' /\ Free(c, row)
      BY <1>3 DEF Autocommit
    <2> QED
      BY <2>1, AutocommitKeeps
  <1> QED
    BY <1>2, <1>3

-----------------------------------------------------------------------------
(* What a step may do to the products that are committed.                       *)
Published == \A p \in Products : committed'[p] = committed[p] \/ Becomes(committed[p], committed'[p])

(* The request a step of r leads to.                                           *)
After(r, step, next, seen) ==
    [at |-> step, kind |-> request[r].kind, row |-> request[r].row, value |-> request[r].value,
     on |-> request[r].on, next |-> next, seen |-> seen]

LEMMA RequestExcept ==
    ASSUME NEW q, IsRequest(q), NEW step, NEW nx, NEW seen
    PROVE  [q EXCEPT !.at = step, !.next = nx, !.seen = seen] =
           [at |-> step, kind |-> q.kind, row |-> q.row, value |-> q.value, on |-> q.on,
            next |-> nx, seen |-> seen]
  <1> DEFINE x == [q EXCEPT !.at = step, !.next = nx, !.seen = seen]
  <1>1. x \in [at : {step}, kind : {q.kind}, row : {q.row}, value : {q.value}, on : {q.on},
              next : {nx}, seen : {seen}]
    BY DEF IsRequest
  <1> HIDE DEF x
  <1>2. x = [at |-> step, kind |-> q.kind, row |-> q.row, value |-> q.value, on |-> q.on,
             next |-> nx, seen |-> seen]
    BY <1>1
  <1> QED
    BY <1>2 DEF x

LEMMA ContinueIs ==
    ASSUME IInv, NEW r \in Active, NEW s, NEW step, NEW next, NEW seen, Continue(r, s, step, next, seen)
    PROVE  /\ Moves(r, s, After(r, step, next, seen))
           /\ IsRequest(After(r, step, next, seen))
           /\ UNCHANGED committed
  <1>1. r \in Requests /\ IsRequest(request[r])
    BY DEF Active, IInv, Shapes
  <1>2. [request[r] EXCEPT !.at = step, !.next = next, !.seen = seen] = After(r, step, next, seen)
    BY <1>1, RequestExcept DEF After
  <1> QED
    BY <1>1, <1>2 DEF Moves, Continue, IInv, Shapes, IsRequest, After

\* A request that rolls back, whatever it was doing.
LEMMA RollsBack ==
    ASSUME IInv, NEW r \in Active, Rollback(r), Answer(r), UNCHANGED marketVars
    PROVE  IInv' /\ Published
  <1>1. /\ IsSession(Closed) /\ Closed.locked = {} /\ DOMAIN Closed.own = {} /\ OwnProducts(Closed) = {}
        /\ Agrees(Closed)
    BY DEF Closed, IsSession, OwnProducts, Agrees
  <1>2. IsRequest(Idle) /\ Idle.kind = "none" /\ Idle.at = "idle"
    BY DEF IsRequest, Idle
  <1>3. Moves(r, Closed, Idle) /\ UNCHANGED committed
    BY DEF Rollback, Answer, Moves
  <1>4. Sound(r, Closed, Idle)
    BY <1>1, <1>2 DEF Sound
  <1>5. IInv'
    BY <1>3, <1>4, Stays
  <1> QED
    BY <1>3, <1>5 DEF Published

(* A session that a request of the products may have on connection c.            *)
LegalOn(c, s) ==
    /\ IsSession(s)
    /\ \A x \in s.locked : x \in session[c].locked \/ Free(c, x)
    /\ DOMAIN s.own \subseteq s.locked
    /\ \A p \in OwnProducts(s) : IsProduct(s.own[p]) /\ Becomes(committed[p], s.own[p])
    /\ \A x \in DOMAIN s.own \ Products : x \in DOMAIN session[c].own /\ s.own[x] = session[c].own[x]

LEMMA LegalSessions ==
    ASSUME IInv, NEW c \in Connections
    PROVE  /\ LegalOn(c, session[c])
           /\ \A s, p : LegalOn(c, s) /\ Free(c, p) =>
                 LegalOn(c, Lock(s, p)) /\ Lock(s, p).own = s.own /\ p \in Lock(s, p).locked
           /\ \A s : LegalOn(c, s) => LegalOn(c, Fail(s)) /\ Fail(s).own = s.own
           /\ \A s : \A p \in Products : \A v :
                 LegalOn(c, s) /\ Free(c, p) /\ IsProduct(v) /\ Becomes(committed[p], v) =>
                     LegalOn(c, Write(s, p, v)) /\ DOMAIN Write(s, p, v).own = DOMAIN s.own \cup {p}
  <1>1. LegalOn(c, session[c])
    BY DEF IInv, Shapes, Locking, ProductsInv, LegalOn, OwnProducts
  <1>2. ASSUME NEW s, NEW p, LegalOn(c, s), Free(c, p)
        PROVE  LegalOn(c, Lock(s, p)) /\ Lock(s, p).own = s.own /\ p \in Lock(s, p).locked
    <2>1. Lock(s, p) = [tx |-> s.tx, own |-> s.own, locked |-> s.locked \cup {p}]
      BY <1>2 DEF LegalOn, Lock, IsSession
    <2> QED
      BY <1>2, <2>1 DEF LegalOn, IsSession, OwnProducts
  <1>3. ASSUME NEW s, LegalOn(c, s) PROVE LegalOn(c, Fail(s)) /\ Fail(s).own = s.own
    <2>1. Fail(s) = [tx |-> "aborted", own |-> s.own, locked |-> s.locked]
      BY <1>3 DEF LegalOn, Fail, IsSession
    <2> QED
      BY <1>3, <2>1 DEF LegalOn, IsSession, OwnProducts
  <1>4. ASSUME NEW s, NEW p \in Products, NEW v,
               LegalOn(c, s), Free(c, p), IsProduct(v), Becomes(committed[p], v)
        PROVE  LegalOn(c, Write(s, p, v)) /\ DOMAIN Write(s, p, v).own = DOMAIN s.own \cup {p}
    BY <1>4, WriteIs DEF LegalOn, OwnProducts
  <1> QED
    BY <1>1, <1>2, <1>3, <1>4

\* A request of the products that goes on.
LEMMA ProductGoesOn ==
    ASSUME IInv, NEW r \in Active, request[r].kind \in ProductKinds, UNCHANGED marketVars,
           NEW s, NEW step, NEW next, NEW seen, Continue(r, s, step, next, seen),
           LegalOn(request[r].on, s), Knows(After(r, step, next, seen)),
           HoldsProducts(After(r, step, next, seen)) \/ OwnProducts(s) = {},
           request[r].kind = "import" /\ step = "write" => seen \cap DOMAIN s.own = {},
           request[r].kind = "status" /\ step = "write" =>
               /\ request[r].row \in s.locked
               /\ seen = committed[request[r].row]
               /\ <<seen.status, request[r].value>> \in validTransitions
    PROVE  IInv' /\ Published
  <1> DEFINE q == After(r, step, next, seen)
             c == request[r].on
  <1>1. Moves(r, s, q) /\ IsRequest(q) /\ UNCHANGED committed
    BY ContinueIs
  <1>2. /\ q.on = c /\ q.kind = request[r].kind /\ q.at = step /\ q.row = request[r].row
        /\ q.value = request[r].value /\ q.seen = seen
    BY DEF After
  <1>3. request[r].at # "enqueue" /\ step # "update" /\ step # "idle" /\ c \in Connections
    BY <1>2 DEF IInv, KnowsInv, Knows, ProductKinds, MarketKinds
  <1>4. market \notin Products /\ job \notin Products /\ report \notin Products /\ Documents \cap Products = {}
    BY RowsAssumption
  <1>5. ~overlapped => Agrees(s)
    <2>1. ~overlapped => Agrees(session[c])
      BY DEF IInv, MarketInv, Unchanging
    <2> QED
      BY <1>4, <2>1 DEF LegalOn, Agrees
  <1>6. q # Idle
    BY <1>2, <1>3 DEF Idle
  <1>7. \A x \in DOMAIN s.own : x \in DOMAIN session[c].own \/ x \notin {job, report}
    BY <1>4 DEF LegalOn
  <1>8. Knows(q) /\ (HoldsProducts(q) \/ OwnProducts(s) = {})
    OBVIOUS
  <1> HIDE DEF q
  <1>9. Sound(r, s, q)
    <2>1. q.kind = "import" /\ q.at = "write" => q.seen \cap DOMAIN s.own = {}
      BY <1>2
    <2>2. q.kind = "status" /\ q.at = "write" =>
              /\ q.row \in s.locked
              /\ q.seen = committed[q.row]
              /\ <<q.seen.status, q.value>> \in validTransitions
      BY <1>2
    <2>3. q.at # "update"
      BY <1>2, <1>3
    <2> QED
      BY <1>1, <1>2, <1>3, <1>5, <1>6, <1>7, <1>8, <2>1, <2>2, <2>3 DEF Sound, LegalOn
  <1>10. IInv'
    BY <1>1, <1>9, Stays
  <1> QED
    BY <1>1, <1>10 DEF Published

\* A request of the products that leaves its transaction open has changed no product in it.
LEMMA ProductLeaves ==
    ASSUME IInv, NEW r \in Active, request[r].kind \in ProductKinds, UNCHANGED marketVars,
           NEW s, LeaveOpen(r, s), Answer(r), LegalOn(request[r].on, s), OwnProducts(s) = {}
    PROVE  IInv' /\ Published
  <1> DEFINE c == request[r].on
  <1>1. Moves(r, s, Idle) /\ UNCHANGED committed
    BY DEF LeaveOpen, Answer, Moves
  <1>2. IsRequest(Idle) /\ Idle.kind = "none" /\ Idle.at = "idle"
    BY DEF IsRequest, Idle
  <1>3. market \notin Products /\ job \notin Products /\ report \notin Products /\ Documents \cap Products = {}
    BY RowsAssumption
  <1>4. ~overlapped => Agrees(s)
    <2>1. ~overlapped => Agrees(session[c])
      BY DEF IInv, MarketInv, Unchanging
    <2> QED
      BY <1>3, <2>1 DEF LegalOn, Agrees
  <1>5. \A x \in DOMAIN s.own : x \in DOMAIN session[c].own \/ x \notin {job, report}
    BY <1>3 DEF LegalOn
  <1>6. Sound(r, s, Idle)
    BY <1>2, <1>4, <1>5 DEF Sound, LegalOn
  <1>7. IInv'
    BY <1>1, <1>6, Stays
  <1> QED
    BY <1>1, <1>7 DEF Published

\* A request of the products that commits.
LEMMA ProductCommits ==
    ASSUME IInv, NEW r \in Active, request[r].kind \in ProductKinds, UNCHANGED marketVars,
           Commit(r, SessionOf(r)), Answer(r)
    PROVE  IInv' /\ Published
  <1> DEFINE c == request[r].on
             s == session[c]
  <1>1. /\ committed' = Committed(s)
        /\ session' = [session EXCEPT ![c] = Closed]
        /\ request' = [request EXCEPT ![r] = Idle]
    BY DEF Commit, Answer, SessionOf
  <1>2. IsRequest(Idle)
    BY DEF IsRequest, Idle
  <1>3. c \in Connections
    BY DEF IInv, KnowsInv, Knows
  <1>4. \A x \in DOMAIN s.own : x \in session[c].locked \/ Free(c, x) \/ x = report
    BY <1>3 DEF IInv, Locking
  <1>5. \A p \in OwnProducts(s) : IsProduct(s.own[p]) /\ Becomes(committed[p], s.own[p])
    BY <1>3 DEF IInv, ProductsInv
  <1>6. ~overlapped => Agrees(s)
    BY DEF IInv, MarketInv, Unchanging
  <1>7. ~strayed => job \notin DOMAIN s.own /\ report \notin DOMAIN s.own
    BY <1>3 DEF IInv, ReportInv
  <1> HIDE DEF c, s
  <1> QED
    BY <1>1, <1>2, <1>4, <1>5, <1>6, <1>7, Commits DEF c, Published

\* What creating a shipment and linking the evidence make of a session.
LEMMA ShipmentSessions ==
    ASSUME IInv, NEW c \in Connections, NEW s, LegalOn(c, s), NEW p \in Products, Free(c, p),
           NEW product, IsProduct(product), Becomes(committed[p], product),
           Becomes(committed[p], [product EXCEPT !.shipments = @ + 1])
    PROVE  \A t \in createShipmentFromProduct(s, p, product) :
               LegalOn(c, t) /\ DOMAIN t.own \subseteq DOMAIN s.own \cup {p}
  <1>1. IsProduct([product EXCEPT !.shipments = @ + 1])
    BY DEF IsProduct
  <1> QED
    BY <1>1, LegalSessions DEF createShipmentFromProduct

LEMMA EvidenceSessions ==
    ASSUME IInv, NEW c \in Connections, NEW s, LegalOn(c, s)
    PROVE  \A t \in linkProductEvidence(s) : LegalOn(c, t) /\ t.own = s.own
  BY LegalSessions DEF linkProductEvidence

\* What a step of a request of the products starts from.
LEMMA ProductAt ==
    ASSUME IInv, NEW r \in Active, request[r].kind \in ProductKinds
    PROVE  /\ Knows(request[r]) /\ request[r].on \in Connections
           /\ LegalOn(request[r].on, SessionOf(r))
           /\ ~HoldsProducts(request[r]) =>
                  /\ OwnProducts(SessionOf(r)) = {}
                  /\ \A p \in Products : Seen(r, p) = committed[p] /\ IsProduct(committed[p])
  BY LegalSessions DEF IInv, KnowsInv, Knows, ProductsInv, SessionOf, Seen, View, Over, OwnProducts

\* createProduct.
LEMMA CreateStep ==
    ASSUME IInv, NEW r \in Requests, createProduct(r), UNCHANGED marketVars
    PROVE  IInv' /\ Published
  <1> DEFINE c == request[r].on
             p == request[r].row
             product == Product(request[r].value, 0)
  <1>1. /\ r \in Active /\ request[r].kind = "create" /\ request[r].kind \in ProductKinds
        /\ request[r].at \in {"read", "write", "commit"}
    BY DEF createProduct, At, Active, ProductKinds
  <1>2. p \in Products /\ c \in Connections /\ request[r].value \in {"draft", "active"}
    BY <1>1, ProductAt DEF Knows
  <1>3. CASE request[r].at = "read"
    <2>1. CASE Rollback(r) /\ Answer(r)
      BY <1>1, <2>1, RollsBack
    <2>2. CASE Continue(r, SessionOf(r), "write", p, "none")
      <3>1. Knows(After(r, "write", p, "none"))
        BY <1>1, <1>2, <1>3, ProductAt DEF Knows, After, ProductKinds, MarketKinds
      <3> QED
        BY <1>1, <1>3, <2>2, <3>1, ProductAt, ProductGoesOn DEF HoldsProducts
    <2> QED
      BY <1>3, <2>1, <2>2 DEF createProduct, At, Chosen
  <1>4. CASE request[r].at = "write"
    <2>1. CASE Rollback(r) /\ Answer(r)
      BY <1>1, <2>1, RollsBack
    <2>2. CASE ~(Rollback(r) /\ Answer(r))
      <3>1. Seen(r, p) = NoProduct /\ At(r, "write") /\ request[r].next = p /\ Free(c, p)
        <4>1. Seen(r, p) = NoProduct /\ At(r, "write")
          BY <1>4, <2>2 DEF createProduct, At, Chosen
        <4> QED
          BY <1>1, <1>4, <4>1, ProductAt DEF Knows, At
      <3>2. committed[p] = NoProduct
        BY <1>1, <1>2, <1>4, <3>1, ProductAt DEF HoldsProducts
      <3>3. /\ IsProduct(product) /\ product.status = request[r].value
            /\ Becomes(committed[p], product)
            /\ product.status # "draft" => Becomes(committed[p], [product EXCEPT !.shipments = @ + 1])
        BY <1>2, <3>2 DEF Product, NoProduct, IsProduct, Becomes
      <3>4. PICK s \in linkProductEvidence(Write(SessionOf(r), p, product)) :
               IF product.status = "draft" THEN Continue(r, s, "commit", "none", "none")
               ELSE IF s.tx = "aborted" THEN Rollback(r) /\ Answer(r)
               ELSE \E t \in createShipmentFromProduct(s, p, product) :
                         Continue(r, t, "commit", "none", "none")
        BY <1>4, <2>2 DEF createProduct, At, Chosen
      <3>5. LegalOn(c, s)
        BY <1>1, <1>2, <3>1, <3>3, <3>4, ProductAt, LegalSessions, EvidenceSessions
      <3>6. Knows(After(r, "commit", "none", "none")) /\ HoldsProducts(After(r, "commit", "none", "none"))
        BY <1>1, <1>2, ProductAt DEF Knows, After, ProductKinds, MarketKinds, HoldsProducts
      <3>7. PICK t : LegalOn(c, t) /\ Continue(r, t, "commit", "none", "none")
        <4>1. CASE product.status = "draft"
          BY <3>4, <3>5, <4>1
        <4>2. CASE product.status # "draft"
          BY <1>2, <2>2, <3>1, <3>3, <3>4, <3>5, <4>2, ShipmentSessions
        <4> QED
          BY <4>1, <4>2
      <3> QED
        BY <1>1, <3>6, <3>7, ProductGoesOn
    <2> QED
      BY <2>1, <2>2
  <1>5. CASE request[r].at = "commit"
    BY <1>1, <1>5, ProductCommits DEF createProduct, At
  <1> QED
    BY <1>1, <1>3, <1>4, <1>5

\* A request that has written and is ready to commit.
LEMMA ProductWritten ==
    ASSUME IInv, NEW r \in Active, request[r].kind \in ProductKinds, UNCHANGED marketVars,
           NEW s, Continue(r, s, "commit", "none", "none"), LegalOn(request[r].on, s)
    PROVE  IInv' /\ Published
  <1>1. Knows(After(r, "commit", "none", "none")) /\ HoldsProducts(After(r, "commit", "none", "none"))
    BY ProductAt DEF Knows, After, ProductKinds, MarketKinds, HoldsProducts
  <1> QED
    BY <1>1, ProductGoesOn

\* updateProduct.
LEMMA UpdateStep ==
    ASSUME IInv, NEW r \in Requests, updateProduct(r), UNCHANGED marketVars
    PROVE  IInv' /\ Published
  <1> DEFINE c == request[r].on
             p == request[r].row
  <1>1. /\ r \in Active /\ request[r].kind = "update" /\ request[r].kind \in ProductKinds
        /\ request[r].at \in {"read", "write", "commit"}
    BY DEF updateProduct, At, Active, ProductKinds
  <1>2. p \in Products /\ c \in Connections
    BY <1>1, ProductAt DEF Knows
  <1>3. CASE request[r].at = "read"
    <2>1. request[r].next = p /\ Free(c, p) /\ OwnProducts(SessionOf(r)) = {}
      BY <1>1, <1>3, ProductAt DEF Knows, At, updateProduct, HoldsProducts
    <2>2. CASE LeaveOpen(r, SessionOf(r)) /\ Answer(r)
      BY <1>1, <2>1, <2>2, ProductAt, ProductLeaves
    <2>3. CASE Continue(r, Lock(SessionOf(r), p), "write", p, "none")
      <3>1. Knows(After(r, "write", p, "none"))
        BY <1>1, <1>2, ProductAt DEF Knows, After, ProductKinds, MarketKinds
      <3>2. LegalOn(c, Lock(SessionOf(r), p)) /\ OwnProducts(Lock(SessionOf(r), p)) = {}
        BY <1>1, <1>2, <2>1, ProductAt, LegalSessions DEF OwnProducts
      <3> QED
        BY <1>1, <2>3, <3>1, <3>2, ProductGoesOn
    <2> QED
      BY <1>3, <2>2, <2>3 DEF updateProduct, At, Chosen
  <1>4. CASE request[r].at = "write"
    <2> DEFINE product == Seen(r, p)
    <2>1. request[r].next = p /\ Free(c, p)
      BY <1>1, <1>4, ProductAt DEF Knows, At, updateProduct
    <2>2. product = committed[p] /\ IsProduct(product)
      BY <1>1, <1>2, <1>4, ProductAt DEF HoldsProducts
    <2>3. /\ Becomes(committed[p], product)
          /\ product.status = "active" /\ product.shipments = 0 =>
                 Becomes(committed[p], [product EXCEPT !.shipments = @ + 1])
      BY <2>2 DEF IsProduct, Becomes
    <2>4. PICK s \in linkProductEvidence(Write(SessionOf(r), p, product)) :
              IF product.status # "active" THEN Continue(r, s, "commit", "none", "none")
              ELSE IF s.tx = "aborted" THEN Rollback(r) /\ Answer(r)
              ELSE \E t \in syncShipmentFromProduct(s, p, product) :
                        Continue(r, t, "commit", "none", "none")
      BY <1>4 DEF updateProduct, At, Chosen
    <2> HIDE DEF product
    <2>5. LegalOn(c, s)
      BY <1>1, <1>2, <2>1, <2>2, <2>3, <2>4, ProductAt, LegalSessions, EvidenceSessions
    <2>6. CASE product.status # "active"
      BY <1>1, <2>4, <2>5, <2>6, ProductWritten
    <2>7. CASE product.status = "active" /\ s.tx = "aborted"
      BY <1>1, <2>4, <2>7, RollsBack
    <2>8. CASE product.status = "active" /\ s.tx # "aborted"
      <3>1. PICK t \in syncShipmentFromProduct(s, p, product) : Continue(r, t, "commit", "none", "none")
        BY <2>4, <2>8
      <3>2. LegalOn(c, t)
        BY <1>2, <2>1, <2>2, <2>3, <2>5, <2>8, <3>1, ShipmentSessions DEF syncShipmentFromProduct
      <3> QED
        BY <1>1, <3>1, <3>2, ProductWritten
    <2> QED
      BY <2>6, <2>7, <2>8
  <1>5. CASE request[r].at = "commit"
    BY <1>1, <1>5, ProductCommits DEF updateProduct, At
  <1> QED
    BY <1>1, <1>3, <1>4, <1>5

\* updateProductStatus: the row is locked from the read to the commit.
LEMMA StatusStep ==
    ASSUME IInv, NEW r \in Requests, updateProductStatus(r), UNCHANGED marketVars
    PROVE  IInv' /\ Published
  <1> DEFINE c == request[r].on
             p == request[r].row
  <1>1. /\ r \in Active /\ request[r].kind = "status" /\ request[r].kind \in ProductKinds
        /\ request[r].at \in {"read", "write", "commit"}
    BY DEF updateProductStatus, At, Active, ProductKinds
  <1>2. p \in Products /\ c \in Connections
    BY <1>1, ProductAt DEF Knows
  <1>3. CASE request[r].at = "read"
    <2>1. /\ request[r].next = p /\ Free(c, p) /\ OwnProducts(SessionOf(r)) = {}
          /\ Seen(r, p) = committed[p]
      BY <1>1, <1>2, <1>3, ProductAt DEF Knows, At, updateProductStatus, HoldsProducts
    <2>2. /\ LegalOn(c, lockProduct(r)) /\ OwnProducts(lockProduct(r)) = {}
          /\ p \in lockProduct(r).locked
      BY <1>1, <1>2, <2>1, ProductAt, LegalSessions DEF OwnProducts, lockProduct, Chosen
    <2>3. CASE LeaveOpen(r, SessionOf(r)) /\ Answer(r)
      BY <1>1, <2>1, <2>3, ProductAt, ProductLeaves
    <2>4. CASE LeaveOpen(r, lockProduct(r)) /\ Answer(r)
      BY <1>1, <2>2, <2>4, ProductLeaves
    <2>5. CASE /\ Continue(r, lockProduct(r), "write", p, Seen(r, p))
               /\ <<Seen(r, p).status, request[r].value>> \in validTransitions
      <3>1. Knows(After(r, "write", p, Seen(r, p)))
        BY <1>1, <1>2, ProductAt DEF Knows, After, ProductKinds, MarketKinds
      <3> QED
        BY <1>1, <2>1, <2>2, <2>5, <3>1, ProductGoesOn
    <2> QED
      BY <1>3, <2>3, <2>4, <2>5 DEF updateProductStatus, At, Chosen
  <1>4. CASE request[r].at = "write"
    <2> DEFINE seen == request[r].seen
               product == [seen EXCEPT !.status = request[r].value]
    <2>1. request[r].next = p /\ Free(c, p)
      BY <1>1, <1>4, ProductAt DEF Knows, At, updateProductStatus
    <2>2. /\ seen = committed[p] /\ IsProduct(seen)
          /\ <<seen.status, request[r].value>> \in validTransitions
      BY <1>1, <1>2, <1>4 DEF IInv, ProductsInv
    <2>3. /\ IsProduct(product) /\ product.status = request[r].value
          /\ Becomes(committed[p], product)
          /\ product.status = "active" => Becomes(committed[p], [product EXCEPT !.shipments = @ + 1])
      BY <2>2 DEF IsProduct, Becomes, validTransitions
    <2>4. PICK s \in IF product.status = "active"
                     THEN createShipmentFromProduct(SessionOf(r), p, product)
                     ELSE {Write(SessionOf(r), p, product)} :
              Continue(r, s, "commit", "none", "none")
      BY <1>4 DEF updateProductStatus, At, Chosen
    <2> HIDE DEF product
    <2>5. LegalOn(c, s)
      <3>1. CASE product.status = "active"
        BY <1>1, <1>2, <2>1, <2>3, <2>4, <3>1, ProductAt, ShipmentSessions
      <3>2. CASE product.status # "active"
        BY <1>1, <1>2, <2>1, <2>3, <2>4, <3>2, ProductAt, LegalSessions
      <3> QED
        BY <3>1, <3>2
    <2> QED
      BY <1>1, <2>4, <2>5, ProductWritten
  <1>5. CASE request[r].at = "commit"
    BY <1>1, <1>5, ProductCommits DEF updateProductStatus, At
  <1> QED
    BY <1>1, <1>3, <1>4, <1>5

\* deleteProduct.
LEMMA DeleteStep ==
    ASSUME IInv, NEW r \in Requests, deleteProduct(r), UNCHANGED marketVars
    PROVE  IInv' /\ Published
  <1> DEFINE c == request[r].on
             p == request[r].row
  <1>1. /\ r \in Active /\ request[r].kind = "delete" /\ request[r].kind \in ProductKinds
        /\ request[r].at \in {"read", "write", "commit"}
    BY DEF deleteProduct, At, Active, ProductKinds
  <1>2. p \in Products /\ c \in Connections
    BY <1>1, ProductAt DEF Knows
  <1>3. CASE request[r].at = "read"
    <2>1. CASE Rollback(r) /\ Answer(r)
      BY <1>1, <2>1, RollsBack
    <2>2. CASE Continue(r, SessionOf(r), "write", p, "none")
      <3>1. Knows(After(r, "write", p, "none"))
        BY <1>1, <1>2, ProductAt DEF Knows, After, ProductKinds, MarketKinds
      <3> QED
        BY <1>1, <1>3, <2>2, <3>1, ProductAt, ProductGoesOn DEF HoldsProducts
    <2> QED
      BY <1>3, <2>1, <2>2 DEF deleteProduct, At, Chosen
  <1>4. CASE request[r].at = "write"
    <2>1. request[r].next = p /\ Free(c, p) /\ IsProduct(committed[p])
      BY <1>1, <1>2, <1>4, ProductAt DEF Knows, At, deleteProduct, HoldsProducts
    <2>2. IsProduct(NoProduct) /\ Becomes(committed[p], NoProduct)
      BY <2>1 DEF IsProduct, Becomes, NoProduct, Product
    <2>3. Continue(r, Write(SessionOf(r), p, NoProduct), "commit", "none", "none")
      BY <1>4 DEF deleteProduct, At, Chosen
    <2>4. LegalOn(c, Write(SessionOf(r), p, NoProduct))
      BY <1>1, <1>2, <2>1, <2>2, ProductAt, LegalSessions
    <2> QED
      BY <1>1, <2>3, <2>4, ProductWritten
  <1>5. CASE request[r].at = "commit"
    BY <1>1, <1>5, ProductCommits DEF deleteProduct, At
  <1> QED
    BY <1>1, <1>3, <1>4, <1>5

\* bulkImport: a row that goes on leads to the next one or to the commit.
LEMMA ImportStep ==
    ASSUME IInv, NEW r \in Requests, bulkImport(r), UNCHANGED marketVars
    PROVE  IInv' /\ Published
  <1> DEFINE c == request[r].on
  <1>1. /\ r \in Active /\ request[r].kind = "import" /\ request[r].kind \in ProductKinds
        /\ request[r].at \in {"read", "write", "commit"}
    BY DEF bulkImport, At, Active, ProductKinds
  <1>2. c \in Connections /\ request[r].value \in {"draft", "active"}
    BY <1>1, ProductAt DEF Knows
  <1>3. CASE request[r].at = "read"
    <2>1. PICK q \in Products : Continue(r, SessionOf(r), "write", q, Products)
      BY <1>3 DEF bulkImport, At
    <2>2. Knows(After(r, "write", q, Products)) /\ HoldsProducts(After(r, "write", q, Products))
      BY <1>1, <1>2, ProductAt DEF Knows, After, ProductKinds, MarketKinds, HoldsProducts
    <2>3. Products \cap DOMAIN SessionOf(r).own = {}
      BY <1>1, <1>3, ProductAt DEF HoldsProducts, OwnProducts
    <2> QED
      BY <1>1, <2>1, <2>2, <2>3, ProductAt, ProductGoesOn
  <1>4. CASE request[r].at = "write"
    <2> DEFINE p == request[r].next
               product == Product(request[r].value, 0)
               rest == request[r].seen \ {p}
               s == SessionOf(r)
    <2>1. /\ p \in Products /\ rest \subseteq Products
          /\ request[r].seen \cap DOMAIN s.own = {} /\ p \notin DOMAIN s.own
      BY <1>1, <1>4, ProductAt DEF Knows, IInv, ProductsInv, SessionOf
    <2>2. ASSUME NEW t, LegalOn(c, t), DOMAIN t.own \subseteq DOMAIN s.own \cup {p},
                 IF rest = {} THEN Continue(r, t, "commit", "none", rest)
                 ELSE \E q \in rest : Continue(r, t, "write", q, rest)
          PROVE  IInv' /\ Published
      <3>1. CASE rest = {}
        <4>1. Knows(After(r, "commit", "none", rest)) /\ HoldsProducts(After(r, "commit", "none", rest))
          BY <1>1, <1>2, ProductAt DEF Knows, After, ProductKinds, MarketKinds, HoldsProducts
        <4> QED
          BY <1>1, <2>2, <3>1, <4>1, ProductGoesOn
      <3>2. CASE rest # {}
        <4>1. PICK q \in rest : Continue(r, t, "write", q, rest)
          BY <2>2, <3>2
        <4>2. Knows(After(r, "write", q, rest)) /\ HoldsProducts(After(r, "write", q, rest))
          BY <1>1, <1>2, <2>1, ProductAt DEF Knows, After, ProductKinds, MarketKinds, HoldsProducts
        <4>3. rest \cap DOMAIN t.own = {}
          BY <2>1, <2>2
        <4> QED
          BY <1>1, <2>2, <4>1, <4>2, <4>3, ProductGoesOn
      <3> QED
        BY <3>1, <3>2
    <2>3. LegalOn(c, s) /\ LegalOn(c, Fail(s)) /\ Fail(s).own = s.own
      BY <1>1, <1>2, ProductAt, LegalSessions
    <2>4. Free(c, p) /\ Seen(r, p) = NoProduct =>
              /\ IsProduct(product) /\ product.status = request[r].value
              /\ Becomes(committed[p], product)
              /\ product.status = "active" => Becomes(committed[p], [product EXCEPT !.shipments = @ + 1])
      <3>1. Seen(r, p) = committed[p]
        BY <2>1 DEF Seen, View, Over, SessionOf
      <3> QED
        BY <3>1 DEF Product, NoProduct, IsProduct, Becomes
    <2>5. PICK t :
            /\ \/ t = Fail(s) \/ t = s
               \/ Free(c, p) /\ Seen(r, p) = NoProduct /\ t = Write(s, p, product)
               \/ /\ Free(c, p) /\ Seen(r, p) = NoProduct /\ product.status = "active"
                  /\ t \in createShipmentFromProduct(s, p, product)
            /\ IF rest = {} THEN Continue(r, t, "commit", "none", rest)
               ELSE \E q \in rest : Continue(r, t, "write", q, rest)
      BY <1>4 DEF bulkImport, ImportRow, At
    <2> HIDE DEF product, s
    <2>6. LegalOn(c, t) /\ DOMAIN t.own \subseteq DOMAIN s.own \cup {p}
      BY <1>2, <2>1, <2>3, <2>4, <2>5, LegalSessions, ShipmentSessions
    <2> QED
      BY <2>2, <2>5, <2>6
  <1>5. CASE request[r].at = "commit"
    BY <1>1, <1>5, ProductCommits DEF bulkImport, At
  <1> QED
    BY <1>1, <1>3, <1>4, <1>5

-----------------------------------------------------------------------------
\* What a step of a request of the market starts from.
LEMMA MarketAt ==
    ASSUME IInv, NEW r \in Active, request[r].kind \in MarketKinds
    PROVE  /\ Knows(request[r]) /\ request[r].on \in Connections
           /\ IsSession(SessionAt(r)) /\ DOMAIN SessionAt(r).own \subseteq SessionAt(r).locked
           /\ OwnProducts(SessionAt(r)) = {}
           /\ ~HoldsProducts(request[r])
           /\ ~overlapped => /\ Unchanging(request[r]) => Agrees(SessionAt(r))
                             /\ request[r].at = "update" => request[r].seen = Score(DocsSeen(r))
           /\ ~strayed => job \notin DOMAIN SessionAt(r).own /\ report \notin DOMAIN SessionAt(r).own
  <1>1. Knows(request[r]) /\ request[r].on \in Connections
    BY DEF IInv, KnowsInv, Knows
  <1>2. ~HoldsProducts(request[r])
    BY <1>1 DEF Knows, HoldsProducts, MarketKinds
  <1> QED
    BY <1>1, <1>2 DEF IInv, Shapes, Locking, ProductsInv, MarketInv, ReportInv, SessionAt

\* A request of the market that goes on: it may have written a document.
LEMMA MarketGoesOn ==
    ASSUME IInv, NEW r \in Active, request[r].kind \in MarketKinds, request[r].at # "enqueue", Same,
           NEW s, NEW step, NEW next, NEW seen, Continue(r, s, step, next, seen),
           Knows(After(r, step, next, seen)), step # "enqueue",
           \/ s = SessionAt(r)
           \/ /\ ~Unchanging(After(r, step, next, seen)) /\ step # "update"
              /\ \E d \in Documents : \E v : Free(request[r].on, d) /\ s = Write(SessionAt(r), d, v),
           Unchanging(After(r, step, next, seen)) => Unchanging(request[r]),
           step = "update" => seen = Score(DocsSeen(r))
    PROVE  IInv' /\ Published
  <1>1. PICK q : q = After(r, step, next, seen)
    OBVIOUS
  <1>2. Moves(r, s, q) /\ IsRequest(q) /\ UNCHANGED <<committed, marketVars>>
    BY <1>1, ContinueIs DEF Same
  <1>3. /\ q.on = request[r].on /\ q.kind = request[r].kind /\ q.at = step /\ q.seen = seen
        /\ q.kind \notin {"import", "status"} /\ Knows(q)
    BY <1>1 DEF After, MarketKinds
  <1>4. step # "idle" /\ step # "commit"
    BY <1>3, MarketAt DEF Knows, MarketKinds
  <1>5. \A d \in Documents : d \notin Products /\ d # market /\ d # job /\ d # report
    BY RowsAssumption
  <1>6. /\ \A x \in s.locked : x \in session[request[r].on].locked \/ Free(request[r].on, x)
        /\ IsSession(s) /\ DOMAIN s.own \subseteq s.locked
        /\ OwnProducts(s) = {}
        /\ \A x \in DOMAIN s.own : x \in DOMAIN session[request[r].on].own \/ x \notin {job, report}
    BY <1>5, MarketAt, WriteIs DEF OwnProducts, SessionAt
  <1>7. ~overlapped =>
            /\ Unchanging(q) => Agrees(s)
            /\ q.at = "update" => q.seen = Score(DocsIn(s))
    BY <1>1, <1>3, MarketAt DEF SessionAt, DocsSeen, DocsIn, View
  <1>8. q # Idle
    BY <1>3, <1>4 DEF Idle
  <1>9. Sound(r, s, q)
    BY <1>2, <1>3, <1>6, <1>7, <1>8 DEF Sound
  <1>10. IInv'
    BY <1>2, <1>9, Stays
  <1> QED
    BY <1>2, <1>10 DEF Published

\* A request that leaves open what it, or a request before it on this connection, has written.
LEMMA MarketLeaves ==
    ASSUME IInv, NEW r \in Active, request[r].kind \in MarketKinds, Same,
           NEW s, LeaveOpen(r, s), Answer(r), IsSession(s), DOMAIN s.own \subseteq s.locked,
           \A x \in s.locked : x \in SessionAt(r).locked \/ Free(request[r].on, x),
           \A x \in DOMAIN s.own : x \in DOMAIN SessionAt(r).own \/ x = market,
           ~overlapped => Agrees(s)
    PROVE  IInv' /\ Published
  <1> DEFINE c == request[r].on
  <1>1. Moves(r, s, Idle) /\ UNCHANGED committed
    BY DEF LeaveOpen, Answer, Moves
  <1>2. IsRequest(Idle) /\ Idle.kind = "none" /\ Idle.at = "idle"
    BY DEF IsRequest, Idle
  <1>3. market \notin Products /\ market # job /\ market # report
    BY RowsAssumption DEF market, job, report
  <1>4. OwnProducts(s) = {}
    BY <1>3, MarketAt DEF OwnProducts
  <1>5. UNCHANGED <<committed, marketVars>>
    BY <1>1 DEF Same
  <1>6. Sound(r, s, Idle)
    BY <1>2, <1>3, <1>4 DEF Sound, SessionAt
  <1>7. IInv'
    BY <1>1, <1>5, <1>6, Stays
  <1> QED
    BY <1>1, <1>7 DEF Published

LEMMA Refuses ==
    ASSUME IInv, NEW r \in Active, request[r].kind \in MarketKinds, request[r].at = "read", Same, Refuse(r)
    PROVE  IInv' /\ Published
  BY MarketAt, MarketLeaves DEF Refuse, Unchanging

\* The session that has stored the score.
LEMMA ScoreWritten ==
    ASSUME IInv, NEW r \in Active, request[r].kind \in MarketKinds, At(r, "update")
    PROVE  /\ IsSession(updateScore(r))
           /\ DOMAIN updateScore(r).own \subseteq updateScore(r).locked
           /\ \A x \in updateScore(r).locked : x \in SessionAt(r).locked \/ Free(request[r].on, x)
           /\ DOMAIN updateScore(r).own = DOMAIN SessionAt(r).own \cup {market}
           /\ \A x \in DOMAIN SessionAt(r).own \ {market} : updateScore(r).own[x] = SessionAt(r).own[x]
           /\ updateScore(r).own[market] = request[r].seen
           /\ DocsIn(updateScore(r)) = DocsSeen(r)
  <1>1. request[r].next = market /\ Free(request[r].on, market)
    BY MarketAt DEF At, Knows
  <1>2. /\ IsSession(updateScore(r))
        /\ DOMAIN updateScore(r).own \subseteq updateScore(r).locked
        /\ \A x \in updateScore(r).locked : x \in SessionAt(r).locked \/ Free(request[r].on, x)
        /\ DOMAIN updateScore(r).own = DOMAIN SessionAt(r).own \cup {market}
        /\ \A x \in DOMAIN SessionAt(r).own \ {market} : updateScore(r).own[x] = SessionAt(r).own[x]
        /\ updateScore(r).own[market] = request[r].seen
    BY <1>1, MarketAt, WriteIs DEF updateScore
  <1>3. \A d \in Documents : d # market
    BY RowsAssumption
  <1>4. \A d \in Documents : Over(updateScore(r).own, d) = View(request[r].on, d)
    BY <1>2, <1>3 DEF Over, View, SessionAt
  <1> QED
    BY <1>2, <1>4 DEF DocsSeen, DocsIn

\* _recalculateMarketScore.
LEMMA Recalculates ==
    ASSUME IInv, NEW r \in Active, request[r].kind \in MarketKinds, recalculateMarketScore(r), Same
    PROVE  IInv' /\ Published
  <1> DEFINE c == request[r].on
             s == updateScore(r)
  <1>1. CASE countDocuments(r)
    <2>1. Continue(r, SessionAt(r), "update", market, Score(DocsSeen(r))) /\ request[r].at = "score"
      BY <1>1 DEF countDocuments, At
    <2>2. Knows(After(r, "update", market, Score(DocsSeen(r))))
      BY <2>1, MarketAt DEF Knows, After, ProductKinds, MarketKinds
    <2>3. Unchanging(After(r, "update", market, Score(DocsSeen(r)))) => Unchanging(request[r])
      BY DEF Unchanging, After
    <2> QED
      BY <2>1, <2>2, <2>3, MarketGoesOn
  <1>2. CASE At(r, "update") /\ Commit(r, s) /\ Answer(r)
    <2>1. /\ committed' = Committed(s)
          /\ session' = [session EXCEPT ![c] = Closed]
          /\ request' = [request EXCEPT ![r] = Idle]
          /\ IsRequest(Idle) /\ UNCHANGED marketVars
      BY <1>2 DEF Commit, Answer, IsRequest, Idle, Same
    <2>2. \A x \in DOMAIN s.own : x \in session[c].locked \/ Free(c, x) \/ x = report
      BY <1>2, ScoreWritten DEF SessionAt
    <2>3. market \notin Products /\ market # job /\ market # report
      BY RowsAssumption DEF market, job, report
    <2>4. OwnProducts(s) = {}
      BY <1>2, <2>3, ScoreWritten, MarketAt DEF OwnProducts
    <2>5. ~overlapped =>
              /\ market \in DOMAIN s.own
              /\ s.own[market] = Score(DocsIn(s))
      BY <1>2, ScoreWritten, MarketAt DEF At
    <2>6. ~strayed => job \notin DOMAIN s.own /\ report \notin DOMAIN s.own
      BY <1>2, <2>3, ScoreWritten, MarketAt
    <2> HIDE DEF s, c
    <2> QED
      BY <2>1, <2>2, <2>4, <2>5, <2>6, Commits DEF c, Published
  <1> QED
    BY <1>1, <1>2 DEF recalculateMarketScore

\* A request of the market that was found and is about to count.
LEMMA Recounts ==
    ASSUME IInv, NEW r \in Active, request[r].kind \in {"mapping", "touch", "report"},
           request[r].at = "read", Same, Continue(r, SessionAt(r), "score", "none", "none")
    PROVE  IInv' /\ Published
  <1>1. request[r].kind \in MarketKinds /\ request[r].at # "enqueue"
    BY DEF MarketKinds
  <1>2. Knows(After(r, "score", "none", "none"))
    BY <1>1, MarketAt DEF Knows, After, ProductKinds, MarketKinds
  <1>3. Unchanging(request[r])
    BY DEF Unchanging
  <1> QED
    BY <1>1, <1>2, <1>3, MarketGoesOn

\* A request of the market that has chosen the document it writes.
LEMMA Chooses ==
    ASSUME IInv, NEW r \in Active, request[r].kind \in {"upload", "mapping", "approve"},
           request[r].at = "read", Same, NEW d \in Documents, NEW seen,
           request[r].kind = "approve" => d = request[r].row,
           Continue(r, SessionAt(r), "write", d, seen)
    PROVE  IInv' /\ Published
  <1>1. request[r].kind \in MarketKinds /\ request[r].at # "enqueue"
    BY DEF MarketKinds
  <1>2. Knows(After(r, "write", d, seen)) /\ Unchanging(request[r])
    BY <1>1, MarketAt DEF Knows, After, ProductKinds, MarketKinds, Unchanging
  <1> QED
    BY <1>1, <1>2, MarketGoesOn

\* A request of the market that writes document d.
LEMMA WritesDocument ==
    ASSUME IInv, NEW r \in Active, request[r].kind \in {"upload", "mapping", "approve", "remove"},
           request[r].at \in {"read", "write"}, Same, NEW d \in Documents, Free(request[r].on, d), NEW v,
           Continue(r, Write(SessionAt(r), d, v), "score", "none", "none")
    PROVE  IInv' /\ Published
  <1>1. request[r].kind \in MarketKinds /\ request[r].at # "enqueue"
    BY DEF MarketKinds
  <1>2. Knows(After(r, "score", "none", "none")) /\ ~Unchanging(After(r, "score", "none", "none"))
    BY <1>1, MarketAt DEF Knows, After, ProductKinds, MarketKinds, Unchanging
  <1> QED
    BY <1>1, <1>2, MarketGoesOn

\* uploadDocument.
LEMMA UploadStep ==
    ASSUME IInv, NEW r \in Requests, uploadDocument(r), Same
    PROVE  IInv' /\ Published
  <1>1. /\ r \in Active /\ request[r].kind = "upload" /\ request[r].kind \in MarketKinds
    BY DEF uploadDocument, recalculateMarketScore, countDocuments, At, Active, MarketKinds
  <1>2. CASE recalculateMarketScore(r)
    BY <1>1, <1>2, Recalculates
  <1>3. CASE /\ At(r, "read")
             /\ LET found == OfCode(DocsSeen(r), request[r].row)
                IN \/ \E d \in found : Continue(r, SessionAt(r), "write", d, "none")
                   \/ /\ found = {}
                      /\ \E d \in Documents :
                           /\ CodeOf[d] = request[r].row /\ View(request[r].on, d) = NoDocument
                           /\ Free(request[r].on, d)
                           /\ Continue(r, SessionAt(r), "write", d, "none")
    <2>1. PICK d \in Documents : Continue(r, SessionAt(r), "write", d, "none") /\ request[r].at = "read"
      BY <1>3 DEF OfCode, At
    <2> QED
      BY <1>1, <2>1, Chooses
  <1>4. CASE /\ At(r, "write")
             /\ Continue(r, Write(SessionAt(r), request[r].next, Document(request[r].value, TRUE)),
                         "score", "none", "none")
    <2>1. request[r].next \in Documents /\ Free(request[r].on, request[r].next) /\ request[r].at = "write"
      BY <1>1, <1>4, MarketAt DEF At, Knows
    <2> QED
      BY <1>1, <1>4, <2>1, WritesDocument
  <1> QED
    BY <1>2, <1>3, <1>4 DEF uploadDocument

\* importDocumentMappings.
LEMMA MappingStep ==
    ASSUME IInv, NEW r \in Requests, importDocumentMappings(r), Same
    PROVE  IInv' /\ Published
  <1>1. /\ r \in Active /\ request[r].kind = "mapping" /\ request[r].kind \in MarketKinds
    BY DEF importDocumentMappings, resolveOrCreateImportDocument, recalculateMarketScore, countDocuments,
           At, Active, MarketKinds
  <1>2. CASE recalculateMarketScore(r)
    BY <1>1, <1>2, Recalculates
  <1>3. CASE At(r, "read") /\ Continue(r, SessionAt(r), "score", "none", "none")
    BY <1>1, <1>3, Recounts DEF At
  <1>4. CASE resolveOrCreateImportDocument(r)
    <2>1. CASE request[r].at = "read"
      <3>1. PICK d \in Documents : \E seen : Continue(r, SessionAt(r), "write", d, seen)
        BY <1>4, <2>1 DEF resolveOrCreateImportDocument, OfCode, At
      <3>2. PICK seen : Continue(r, SessionAt(r), "write", d, seen)
        BY <3>1
      <3> QED
        BY <1>1, <2>1, <3>2, Chooses
    <2>2. CASE request[r].at # "read"
      <3>1. /\ At(r, "write")
            /\ Continue(r, Write(SessionAt(r), request[r].next, request[r].seen), "score", "none", "none")
        BY <1>4, <2>2 DEF resolveOrCreateImportDocument, At
      <3>2. request[r].next \in Documents /\ Free(request[r].on, request[r].next) /\ request[r].at = "write"
        BY <1>1, <3>1, MarketAt DEF At, Knows
      <3> QED
        BY <1>1, <3>1, <3>2, WritesDocument
    <2> QED
      BY <2>1, <2>2
  <1> QED
    BY <1>2, <1>3, <1>4 DEF importDocumentMappings

\* approveDocument.
LEMMA ApproveStep ==
    ASSUME IInv, NEW r \in Requests, approveDocument(r), Same
    PROVE  IInv' /\ Published
  <1>1. /\ r \in Active /\ request[r].kind = "approve" /\ request[r].kind \in MarketKinds
    BY DEF approveDocument, recalculateMarketScore, countDocuments, At, Active, MarketKinds
  <1>2. request[r].row \in Documents
    BY <1>1, MarketAt DEF Knows
  <1>3. CASE recalculateMarketScore(r)
    BY <1>1, <1>3, Recalculates
  <1>4. CASE request[r].at = "read" /\ ~recalculateMarketScore(r)
    <2>1. Refuse(r) \/ Continue(r, SessionAt(r), "write", request[r].row, "none")
      BY <1>4 DEF approveDocument, At
    <2> QED
      BY <1>1, <1>2, <1>4, <2>1, Refuses, Chooses
  <1>5. CASE request[r].at # "read" /\ ~recalculateMarketScore(r)
    <2>1. PICK v : At(r, "write") /\ Continue(r, Write(SessionAt(r), request[r].row, v), "score", "none", "none")
      BY <1>5 DEF approveDocument, At
    <2>2. Free(request[r].on, request[r].row) /\ request[r].at = "write"
      BY <1>1, <2>1, MarketAt DEF At, Knows
    <2> QED
      BY <1>1, <1>2, <2>1, <2>2, WritesDocument
  <1> QED
    BY <1>3, <1>4, <1>5

\* removeDocument.
LEMMA RemoveStep ==
    ASSUME IInv, NEW r \in Requests, removeDocument(r), Same
    PROVE  IInv' /\ Published
  <1>1. /\ r \in Active /\ request[r].kind = "remove" /\ request[r].kind \in MarketKinds
    BY DEF removeDocument, recalculateMarketScore, countDocuments, At, Active, MarketKinds
  <1>2. CASE recalculateMarketScore(r)
    BY <1>1, <1>2, Recalculates
  <1>3. CASE ~recalculateMarketScore(r)
    <2>1. /\ At(r, "read")
          /\ \/ Refuse(r)
             \/ Continue(r, Write(SessionAt(r), request[r].row, Document("missing", FALSE)),
                         "score", "none", "none")
      BY <1>3 DEF removeDocument
    <2>2. request[r].row \in Documents /\ Free(request[r].on, request[r].row) /\ request[r].at = "read"
      BY <1>1, <2>1, MarketAt DEF At, Knows
    <2> QED
      BY <1>1, <2>1, <2>2, Refuses, WritesDocument
  <1> QED
    BY <1>2, <1>3

\* performRecommendationAction, the product scope, updateCarbonData.
LEMMA TouchStep ==
    ASSUME IInv, NEW r \in Requests, touchMarket(r), Same
    PROVE  IInv' /\ Published
  <1>1. /\ r \in Active /\ request[r].kind = "touch" /\ request[r].kind \in MarketKinds
    BY DEF touchMarket, performRecommendationAction, changeProductScope, updateCarbonData,
           recalculateMarketScore, countDocuments, At, Active, MarketKinds
  <1>2. CASE recalculateMarketScore(r)
    BY <1>1, <1>2, Recalculates
  <1>3. CASE ~recalculateMarketScore(r)
    <2>1. request[r].at = "read" /\ (Refuse(r) \/ Continue(r, SessionAt(r), "score", "none", "none"))
      BY <1>3 DEF touchMarket, performRecommendationAction, changeProductScope, updateCarbonData, At, Recount
    <2> QED
      BY <1>1, <2>1, Refuses, Recounts
  <1> QED
    BY <1>2, <1>3

\* generateComplianceReport: a market that is not ready leaves its score uncommitted; one that
\* is ready commits the score with the report.
LEMMA ReportStep ==
    ASSUME IInv, NEW r \in Requests, generateComplianceReport(r), Same
    PROVE  IInv' /\ Published
  <1>1. /\ r \in Active /\ request[r].kind = "report" /\ request[r].kind \in MarketKinds
    BY DEF generateComplianceReport, countDocuments, At, Active, MarketKinds
  <1>2. CASE At(r, "read") /\ Recount(r)
    BY <1>1, <1>2, Recounts DEF At, Recount
  <1>3. CASE countDocuments(r)
    BY <1>1, <1>3, Recalculates DEF recalculateMarketScore
  <1>4. CASE At(r, "update") /\ LeaveOpen(r, updateScore(r)) /\ Answer(r)
    <2> DEFINE s == updateScore(r)
    <2>1. ~overlapped => Agrees(s)
      <3> SUFFICES ASSUME ~overlapped PROVE Agrees(s)
        OBVIOUS
      <3>1. Agrees(SessionAt(r)) /\ request[r].seen = Score(DocsSeen(r)) /\ committed[market] = Score(committed)
        BY <1>1, <1>4, MarketAt DEF Unchanging, At, IInv, MarketInv
      <3>2. \A d \in Documents : DocsSeen(r)[d] = committed[d]
        BY <3>1 DEF Agrees, DocsSeen, View, Over, SessionAt
      <3>3. Score(DocsSeen(r)) = Score(committed)
        BY <3>2, SameScore
      <3>4. market \notin Documents
        BY RowsAssumption
      <3> QED
        BY <1>1, <1>4, <3>1, <3>3, <3>4, ScoreWritten DEF Agrees
    <2>2. /\ IsSession(s) /\ DOMAIN s.own \subseteq s.locked
          /\ \A x \in s.locked : x \in SessionAt(r).locked \/ Free(request[r].on, x)
          /\ \A x \in DOMAIN s.own : x \in DOMAIN SessionAt(r).own \/ x = market
      BY <1>1, <1>4, ScoreWritten
    <2> QED
      BY <1>1, <1>4, <2>1, <2>2, MarketLeaves
  <1>5. CASE /\ At(r, "update")
             /\ Commit(r, Write(updateScore(r), report, "processing"))
             /\ request' = [request EXCEPT ![r].at = "enqueue", ![r].next = "none"]
    <2>1. PICK s : s = Write(updateScore(r), report, "processing")
      OBVIOUS
    <2>2. PICK q : q = After(r, "enqueue", "none", request[r].seen)
      OBVIOUS
    <2>3. IsSession(updateScore(r))
      BY <1>1, <1>5, ScoreWritten
    <2>4. /\ DOMAIN s.own = DOMAIN updateScore(r).own \cup {report}
          /\ \A x \in DOMAIN updateScore(r).own \ {report} : s.own[x] = updateScore(r).own[x]
      BY <2>1, <2>3, WriteIs
    <2>5. /\ market \notin Products /\ report \notin Products /\ market # job /\ market # report /\ job # report
          /\ \A d \in Documents : d # report
      BY RowsAssumption DEF market, job, report
    <2>6. committed' = Committed(s) /\ session' = [session EXCEPT ![request[r].on] = Closed]
      BY <1>5, <2>1 DEF Commit
    <2>7. request' = [request EXCEPT ![r] = q] /\ IsRequest(q)
      <3>1. IsRequest(request[r])
        BY <1>1 DEF IInv, Shapes, Active
      <3>2. [request[r] EXCEPT !.at = "enqueue", !.next = "none", !.seen = request[r].seen] = q
        BY <2>2, <3>1, RequestExcept DEF After
      <3>3. [request[r] EXCEPT !.at = "enqueue", !.next = "none", !.seen = request[r].seen] =
            [request[r] EXCEPT !.at = "enqueue", !.next = "none"]
        BY <3>1 DEF IsRequest
      <3> QED
        BY <1>5, <2>2, <3>2, <3>3 DEF IsRequest, After
    <2>8. /\ Knows(q) /\ q.on = request[r].on /\ q.kind = request[r].kind /\ q.at = "enqueue"
          /\ request[r].at = "update"
      BY <1>1, <1>5, <2>2, MarketAt DEF Knows, After, ProductKinds, MarketKinds, At
    <2>9. \A x \in DOMAIN s.own : x \in session[request[r].on].locked \/ Free(request[r].on, x) \/ x = report
      BY <1>1, <1>5, <2>4, ScoreWritten DEF SessionAt
    <2>10. OwnProducts(s) = {}
      BY <1>1, <1>5, <2>4, <2>5, ScoreWritten, MarketAt DEF OwnProducts
    <2>11. ~overlapped =>
              /\ market \in DOMAIN s.own
              /\ s.own[market] = Score(DocsIn(s))
      <3>1. \A d \in Documents : DocsIn(s)[d] = DocsIn(updateScore(r))[d]
        BY <2>4, <2>5 DEF DocsIn, Over
      <3>2. Score(DocsIn(s)) = Score(DocsSeen(r))
        BY <1>1, <1>5, <3>1, ScoreWritten, SameScore
      <3> QED
        BY <1>1, <1>5, <2>4, <2>5, <2>8, <3>2, ScoreWritten, MarketAt
    <2>12. ~strayed => job \notin DOMAIN s.own
      BY <1>1, <1>5, <2>4, <2>5, ScoreWritten, MarketAt
    <2> QED
      BY <1>1, <2>6, <2>7, <2>8, <2>9, <2>10, <2>11, <2>12, Commits DEF Published, Same
  <1> QED
    BY <1>2, <1>3, <1>4, <1>5 DEF generateComplianceReport

-----------------------------------------------------------------------------
\* The enqueueing of the job, on any connection of the pool.
LEMMA EnqueueStep ==
    ASSUME IInv, NEW r \in Requests, enqueue(r)
    PROVE  IInv' /\ Published
  <1>1. r \in Active /\ request[r].at = "enqueue"
    BY DEF enqueue, At, Active
  <1>2. PICK c \in Unlent :
            /\ Autocommit(c, job, IF View(c, job) = "none" THEN "queued" ELSE View(c, job))
            /\ strayed' = (strayed \/ session[c].tx # "none")
    BY DEF enqueue
  <1>3. ~strayed' => ~strayed /\ session[c].tx = "none"
    BY <1>2
  <1>4. PICK v : v = IF View(c, job) = "none" THEN "queued" ELSE View(c, job)
    OBVIOUS
  <1>5. /\ request' = [request EXCEPT ![r] = Idle]
        /\ UNCHANGED <<worker, overlapped>>
    BY DEF enqueue, Answer
  <1>6. /\ request' = [t \in Requests |-> request'[t]]
        /\ \A t \in Requests : request'[t] = request[t] \/ (request'[t] = Idle /\ request[t].at = "enqueue")
        /\ Active' = Active \ {r} /\ \A t \in Active' : request'[t] = request[t]
    BY <1>1, <1>5 DEF IInv, Shapes, Active, Idle
  <1>7. /\ Shapes' /\ KnowsInv' /\ Locking' /\ ProductsInv' /\ MarketInv'
        /\ \A p \in Products : committed'[p] = committed[p]
        /\ ~strayed' => ~strayed /\ committed' = [committed EXCEPT ![job] = v] /\ UNCHANGED session
    BY <1>2, <1>3, <1>4, <1>5, <1>6, Autocommits
  <1>8. ReportInv'
    <2>1. \A t, u \in Active' : request'[t].kind = "report" /\ request'[u].kind = "report" => t = u
      BY <1>6 DEF IInv, ReportInv
    <2> SUFFICES ASSUME ~strayed'
                 PROVE  /\ \A d \in Connections : {job, report} \cap DOMAIN session'[d].own = {}
                        /\ committed'[job] = "completed" => committed'[report] = "completed"
                        /\ worker' = "stored" => committed'[report] = "completed"
                        /\ \A t \in Active' : request'[t].kind = "report" /\ request'[t].at # "enqueue"
                              => committed'[report] = "none"
      BY <2>1 DEF ReportInv
    <2>2. committed'[report] = committed[report] /\ committed'[job] = v /\ UNCHANGED session
      BY <1>7 DEF IInv, Shapes, Rows, report, job
    <2>3. v = "completed" => committed[job] = "completed"
      BY <1>4, <1>7 DEF View, Over, IInv, ReportInv, Unlent
    <2> QED
      BY <1>5, <1>6, <1>7, <2>2, <2>3 DEF IInv, ReportInv
  <1> QED
    BY <1>7, <1>8 DEF IInv, Published

\* The worker stores the report, or marks it as failed, and records the outcome of the job.
LEMMA WorkerStep ==
    ASSUME IInv, simulateComplianceReport \/ recordOutcome
    PROVE  IInv' /\ Published
  <1>1. PICK row \in {job, report}, v \in {"completed", "failed", "queued"} :
            /\ OnAnyConnection(row, v)
            /\ row = report => committed[job] = "queued" /\ committed[report] # "none" /\ worker = "idle"
            /\ row = report => worker' = IF v = "completed" THEN "stored" ELSE "failed"
            /\ row = job => worker' = "idle" /\ (v = "completed" => worker = "stored")
    BY DEF simulateComplianceReport, recordOutcome, job, report
  <1>2. PICK c \in Unlent : Autocommit(c, row, v) /\ strayed' = (strayed \/ session[c].tx # "none")
    BY <1>1 DEF OnAnyConnection
  <1>3. ~strayed' => ~strayed /\ session[c].tx = "none"
    BY <1>2
  <1>4. UNCHANGED <<request, overlapped>> /\ request' = [t \in Requests |-> request'[t]]
    BY <1>1 DEF OnAnyConnection, IInv, Shapes
  <1>5. /\ Shapes' /\ KnowsInv' /\ Locking' /\ ProductsInv' /\ MarketInv'
        /\ \A p \in Products : committed'[p] = committed[p]
        /\ ~strayed' => ~strayed /\ committed' = [committed EXCEPT ![row] = v] /\ UNCHANGED session
    BY <1>2, <1>3, <1>4, Autocommits
  <1>6. ReportInv'
    <2>1. Active' = Active
      BY <1>4 DEF Active
    <2>2. ~strayed' => /\ committed'[row] = v
                       /\ \A x \in {job, report} : x # row => committed'[x] = committed[x]
      BY <1>5 DEF IInv, Shapes, Rows
    <2>3. job # report
      BY DEF job, report
    <2> QED
      BY <1>1, <1>4, <1>5, <2>1, <2>2, <2>3 DEF IInv, ReportInv
  <1> QED
    BY <1>5, <1>6 DEF IInv, Published

\* The arrivals of requests.
LEMMA ArriveStep ==
    ASSUME IInv, NEW r \in Requests, (ProductArrives(r) /\ UNCHANGED marketVars) \/ MarketArrives(r)
    PROVE  IInv' /\ Published
  <1>1. CASE ProductArrives(r) /\ UNCHANGED marketVars
    <2>1. PICK kind \in ProductKinds : \E row, value, next :
              /\ Arrive(r, kind, row, value, next)
              /\ kind \in {"create", "update", "status", "delete"} => row \in Products
              /\ kind \in {"update", "status"} => next = row
              /\ kind \in {"create", "import"} => value \in {"draft", "active"}
      BY <1>1 DEF ProductArrives, ProductKinds
    <2>2. PICK row, value, next :
              /\ Arrive(r, kind, row, value, next)
              /\ kind \in {"create", "update", "status", "delete"} => row \in Products
              /\ kind \in {"update", "status"} => next = row
              /\ kind \in {"create", "import"} => value \in {"draft", "active"}
      BY <2>1
    <2>3. \A c \in Connections : Knows(Asked(kind, row, value, c, next))
      BY <2>2 DEF Knows, Asked, ProductKinds, MarketKinds
    <2>4. UNCHANGED <<worker, strayed, overlapped>> /\ kind # "report"
      BY <1>1 DEF marketVars, ProductKinds
    <2>5. ~overlapped' => ~overlapped /\ (kind \in ProductKinds \/ Active = {})
      BY <2>4
    <2> QED
      BY <2>2, <2>3, <2>4, <2>5, Arrives DEF Published
  <1>2. CASE MarketArrives(r)
    <2>1. PICK kind \in MarketKinds : \E row, value, next :
              /\ Arrive(r, kind, row, value, next)
              /\ kind \in {"approve", "remove"} => row \in Documents
              /\ kind = "remove" => next = row
              /\ kind = "report" =>
                     committed[report] = "none" /\ \A q \in Requests : request[q].kind # "report"
      BY <1>2 DEF MarketArrives, MarketKinds
    <2>2. PICK row, value, next :
              /\ Arrive(r, kind, row, value, next)
              /\ kind \in {"approve", "remove"} => row \in Documents
              /\ kind = "remove" => next = row
              /\ kind = "report" =>
                     committed[report] = "none" /\ \A q \in Requests : request[q].kind # "report"
      BY <2>1
    <2>3. \A c \in Connections : Knows(Asked(kind, row, value, c, next))
      BY <2>2 DEF Knows, Asked, ProductKinds, MarketKinds
    <2>4. UNCHANGED <<worker, strayed>> /\ overlapped' = (overlapped \/ Active # {})
      BY <1>2 DEF MarketArrives
    <2>5. ~overlapped' => ~overlapped /\ (kind \in ProductKinds \/ Active = {})
      BY <2>4
    <2> HIDE <2>4
    <2>6. UNCHANGED <<worker, strayed>>
      BY <2>4
    <2> QED
      BY <2>2, <2>3, <2>5, <2>6, Arrives DEF Published
  <1> QED
    BY <1>1, <1>2

-----------------------------------------------------------------------------
\* A market arrives with the score of its documents and no open transaction.
LEMMA InitInv == Init => IInv
  <1> SUFFICES ASSUME Init PROVE IInv
    OBVIOUS
  <1>1. PICK docs : committed = StoredAtFirst(docs)
    BY DEF Init
  <1>2. /\ session = [c \in Connections |-> Closed] /\ request = [r \in Requests |-> Idle]
        /\ worker = "idle"
    BY DEF Init, SessionsInit, MarketsInit
  <1>3. Active = {} /\ DOMAIN Closed.own = {} /\ Closed.locked = {} /\ IsSession(Closed) /\ IsRequest(Idle)
    BY <1>2 DEF Active, Idle, Closed, IsSession, IsRequest
  <1>4. \A c \in Connections : session[c] = Closed
    BY <1>2
  <1>5. /\ committed = [row \in Rows |-> committed[row]]
        /\ \A d \in Documents : committed[d] = docs[d]
        /\ \A p \in Products : committed[p] = NoProduct
        /\ committed[market] = Score(docs)
        /\ committed[job] = "none"
    BY <1>1, RowsAssumption DEF StoredAtFirst, Rows, market, report, job
  <1>6. Shapes /\ KnowsInv /\ Locking
    BY <1>2, <1>3, <1>4, <1>5 DEF Shapes, KnowsInv, Locking
  <1>7. ProductsInv
    BY <1>3, <1>4, <1>5 DEF ProductsInv, OwnProducts, IsProduct, NoProduct, Product, Unlent
  <1>8. MarketInv
    BY <1>3, <1>4, <1>5, SameScore DEF MarketInv, Agrees, Unlent
  <1>9. ReportInv
    BY <1>2, <1>3, <1>4, <1>5 DEF ReportInv
  <1> QED
    BY <1>6, <1>7, <1>8, <1>9 DEF IInv

\* Every step keeps the invariant, and changes what is committed of a product only as a
\* publication may.
LEMMA StepInv == IInv /\ [Next]_vars => IInv' /\ Published
  <1> SUFFICES ASSUME IInv, [Next]_vars PROVE IInv' /\ Published
    OBVIOUS
  <1>1. ASSUME NEW r \in Requests, ProductStep(r), UNCHANGED marketVars PROVE IInv' /\ Published
    BY <1>1, CreateStep, UpdateStep, StatusStep, DeleteStep, ImportStep DEF ProductStep
  <1>2. ASSUME NEW r \in Requests, MarketStep(r) PROVE IInv' /\ Published
    BY <1>2, UploadStep, MappingStep, ApproveStep, RemoveStep, TouchStep, ReportStep, EnqueueStep DEF MarketStep
  <1>3. ASSUME NEW r \in Requests, Caught(r), UNCHANGED marketVars PROVE IInv' /\ Published
    BY <1>3, RollsBack DEF Caught
  <1>4. ASSUME NEW r \in Requests, Step(r) PROVE IInv' /\ Published
    BY <1>1, <1>2, <1>3, <1>4 DEF Step, EnqueueFails, Timeout, Same
  <1>5. ASSUME NEW c \in Connections, CloseIdle(c), UNCHANGED marketVars PROVE IInv' /\ Published
    BY <1>5, Closes DEF Published
  <1>6. CASE UNCHANGED vars
    <2>1. UNCHANGED <<committed, session, request, worker, overlapped, strayed>>
      BY <1>6 DEF vars, sessionVars, marketVars
    <2>2. Active' = Active /\ Unlent' = Unlent
      BY <2>1 DEF Active, Unlent
    <2>3. Shapes' /\ KnowsInv' /\ Locking'
      BY <2>1, <2>2 DEF IInv, Shapes, IsSession, IsRequest, KnowsInv, Knows, Locking
    <2>4. ProductsInv'
      BY <2>1, <2>2 DEF IInv, ProductsInv, OwnProducts, IsProduct, Becomes, HoldsProducts
    <2>5. MarketInv'
      BY <2>1, <2>2 DEF IInv, MarketInv, Agrees, Unchanging, DocsSeen, View, Over
    <2>6. ReportInv'
      BY <2>1, <2>2 DEF IInv, ReportInv
    <2> QED
      BY <2>1, <2>3, <2>4, <2>5, <2>6 DEF IInv, Published
  <1> QED
    BY <1>3, <1>4, <1>5, <1>6, ArriveStep, WorkerStep DEF Next

LEMMA Invariance == Spec => []IInv
  BY InitInv, StepInv, PTL DEF Spec

\* The score of a market is that of its documents as long as no two requests of the market
\* overlapped, whatever refused requests left uncommitted (_recalculateMarketScore).
THEOREM ScoreFollowsDocuments == Spec => []ScoreMatchesAlone
  <1>1. IInv => ScoreMatchesAlone
    BY DEF IInv, MarketInv, ScoreMatchesAlone
  <1> QED
    BY <1>1, Invariance, PTL

\* A job that is completed has stored its report, unless a statement strayed into a
\* transaction that was left open (_simulateComplianceReport, jobQueue).
THEOREM CompletedIsStored == Spec => []DoneReportIsStored
  <1>1. IInv => DoneReportIsStored
    BY DEF IInv, ReportInv, DoneReportIsStored
  <1> QED
    BY <1>1, Invariance, PTL

\* Every publication makes one shipment: two publications, an update or an import beside
\* them do not give a published product a second one (updateProductStatus, updateProduct,
\* createProduct, bulkImport).
THEOREM OneShipmentPerPublication == Spec => ShipmentPerPublication
  <1>1. IInv /\ [Next]_vars =>
            [\A p \in Products : committed'[p].shipments > committed[p].shipments =>
                /\ committed'[p].shipments = committed[p].shipments + 1
                /\ committed'[p].status = "active"
                /\ committed[p].status = "active" => committed[p].shipments = 0]_committed
    <2> SUFFICES ASSUME IInv, Published, NEW p \in Products, committed'[p].shipments > committed[p].shipments
                 PROVE  /\ committed'[p].shipments = committed[p].shipments + 1
                        /\ committed'[p].status = "active"
                        /\ committed[p].status = "active" => committed[p].shipments = 0
      BY StepInv
    <2>1. IsProduct(committed[p])
      BY DEF IInv, ProductsInv
    <2> QED
      BY <2>1 DEF Published, Becomes, IsProduct
  <1> QED
    BY <1>1, Invariance, PTL DEF Spec, ShipmentPerPublication
=============================================================================
