--------------------------- MODULE MeterHierarchy ---------------------------
(***************************************************************************)
(* The meter hierarchy of one facility (createHierarchy and reconcile of   *)
(* services/weavenodeService.js): revisions of parent/child links between  *)
(* meters, appended per hierarchy reference, and the reconciliations of a  *)
(* parent meter with its children. The meters share company, facility and  *)
(* unit and the evidence is controlled, as the first statement requires.    *)
(*                                                                         *)
(* createHierarchy checks the link in two statements outside a transaction; *)
(* the transaction that appends it locks its own reference only.            *)
(***************************************************************************)
EXTENDS Integers, Sequences, FiniteSets, FiniteSetsExt

CONSTANTS
    Editors,       \* requests that append links
    Meters,        \* measurement points
    References,    \* hierarchy references
    Ends,          \* ends of effective intervals and reconciled periods: numbers
    Forever,       \* effective_to IS NULL: later than every time
    MaxRevisions,  \* bound: revisions appended in total
    MaxSnapshots   \* bound: reconciliation snapshots recorded

VARIABLES
    revisions,  \* revisions[h]: the links appended under reference h, in order
    pending,    \* pending[r]: the link a request is about to append, and its next check
    snapshots   \* reconciliation snapshots

hierarchyVars == <<revisions, pending, snapshots>>

(* Links the controls and the CHECK constraints let through.               *)
Links == {l \in [parent : Meters, child : Meters, from : Ends, to : Ends \cup {Forever}] :
            l.parent # l.child /\ l.from < l.to}

NoLink == [step |-> "none"]

HierarchyInit ==
    /\ revisions = [h \in References |-> <<>>]
    /\ pending = [r \in Editors |-> NoLink]
    /\ snapshots = {}

(* The query 'latest': the last revision of each reference in use.         *)
Used == {h \in References : revisions[h] # <<>>}
Latest(h) == revisions[h][Len(revisions[h])]

Appended == MapThenSumSet(LAMBDA h : Len(revisions[h]), References)

(* tstzrange(..., '[)') && tstzrange(..., '[)').                           *)
Overlap(a, b) == a.from < b.to /\ b.from < a.to

ChildConflict(h, link) ==
    \E g \in Used \ {h} : Latest(g).child = link.child /\ Overlap(Latest(g), link)

(* The recursive query 'descendants': what every set holds that is closed    *)
(* under the links and holds the meter's children.                          *)
Below(meter, links) ==
    {m \in Meters : \A closed \in SUBSET Meters :
        (\A l \in links : l.parent \in closed \cup {meter} => l.child \in closed) => m \in closed}

(* The parent is below the child over the latest links of the other          *)
(* references, whatever their intervals.                                    *)
Cycle_DirectOnly(h, link) ==
    \E g \in Used \ {h} : Latest(g).parent = link.child /\ Latest(g).child = link.parent

Cycle(h, link) == link.parent \in Below(link.child, {Latest(g) : g \in Used \ {h}})

-----------------------------------------------------------------------------
(* createHierarchy.                                                        *)

BeginCreate(r, h, link) ==
    /\ pending[r] = NoLink /\ Appended < MaxRevisions
    /\ ~ChildConflict(h, link)
    /\ pending' = [pending EXCEPT ![r] = [step |-> "cycle", reference |-> h, link |-> link]]
    /\ UNCHANGED <<revisions, snapshots>>

CheckCycle(r) ==
    /\ pending[r].step = "cycle"
    /\ ~Cycle(pending[r].reference, pending[r].link)
    /\ pending' = [pending EXCEPT ![r].step = "append"]
    /\ UNCHANGED <<revisions, snapshots>>

(* The request is refused, fails or loses its process.                     *)
EndCreate(r) ==
    /\ pending[r] # NoLink
    /\ pending' = [pending EXCEPT ![r] = NoLink]
    /\ UNCHANGED <<revisions, snapshots>>

(* MAX(revision) + 1 and INSERT under the reference's advisory lock.        *)
AppendLink(r) ==
    /\ pending[r].step = "append" /\ Appended < MaxRevisions
    /\ revisions' = [revisions EXCEPT ![pending[r].reference] = Append(@, pending[r].link)]
    /\ pending' = [pending EXCEPT ![r] = NoLink]
    /\ UNCHANGED snapshots

-----------------------------------------------------------------------------
(* reconcile: the children of a parent meter over a period, as its hierarchy *)
(* query returns them. For every reference that ever had this parent it       *)
(* takes the last revision that has, also when a later revision of the same   *)
(* reference has another parent; and a link whose interval only touches the   *)
(* period counts.                                                           *)

LastUnder(h, parent) ==
    {revisions[h][i] : i \in {j \in DOMAIN revisions[h] :
        /\ revisions[h][j].parent = parent
        /\ \A k \in (j + 1)..Len(revisions[h]) : revisions[h][k].parent # parent}}

FirstUnder(h, parent) ==
    {revisions[h][i] : i \in {j \in DOMAIN revisions[h] :
        /\ revisions[h][j].parent = parent
        /\ \A k \in 1..(j - 1) : revisions[h][k].parent # parent}}

Children_FirstRevision(parent, start, end) ==
    {l \in UNION {FirstUnder(h, parent) : h \in References} : l.from <= end /\ l.to >= start}

Children(parent, start, end) ==
    {l \in UNION {LastUnder(h, parent) : h \in References} : l.from <= end /\ l.to >= start}

(* The activities read next and the sums are left out: the snapshot is told  *)
(* apart by the links it counted. Taken again over the same data it is the    *)
(* same row (ON CONFLICT (company_id, payload_sha256) DO NOTHING).           *)
Reconcile(parent, start, end) ==
    /\ Cardinality(snapshots) < MaxSnapshots
    /\ Children(parent, start, end) # {}
    /\ snapshots' = snapshots \cup
         {[parent |-> parent, start |-> start, end |-> end, links |-> Children(parent, start, end)]}
    /\ UNCHANGED <<revisions, pending>>

-----------------------------------------------------------------------------
HierarchyNext ==
    \/ \E r \in Editors :
        \/ \E h \in References, l \in Links : BeginCreate(r, h, l)
        \/ CheckCycle(r) \/ AppendLink(r) \/ EndCreate(r)
    \/ \E m \in Meters : \E start, end \in Ends : start < end /\ Reconcile(m, start, end)

HierarchySpec == HierarchyInit /\ [][HierarchyNext]_hierarchyVars

-----------------------------------------------------------------------------
(* Properties.                                                             *)

(* "A child meter can have only one effective parent for an overlapping      *)
(* period": the latest links of two references never give a meter a parent    *)
(* for the same time.                                                       *)
OneParent ==
    \A g, h \in Used : g # h /\ Latest(g).child = Latest(h).child => ~Overlap(Latest(g), Latest(h))

(* "Meter hierarchy cannot contain a cycle": no meter is below itself.       *)
NoCycle == \A m \in Meters : m \notin Below(m, {Latest(h) : h \in Used})

Forest == OneParent /\ NoCycle

(* A reconciliation counts every meter whose latest link makes it a child of *)
(* the parent during the period.                                            *)
CountsEveryChild ==
    [][\A s \in snapshots' \ snapshots : \A h \in Used :
         Latest(h).parent = s.parent /\ Overlap(Latest(h), [from |-> s.start, to |-> s.end])
            => Latest(h) \in s.links]_hierarchyVars
=============================================================================
