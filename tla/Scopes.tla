------------------------------- MODULE Scopes --------------------------------
(***************************************************************************)
(* Named scopes: the tables `scopes` and `scope_areas`, the port calls on  *)
(* them (storage-sqlite), and create_scope of the application, which looks *)
(* a name up by one call and writes it by the next.                        *)
(***************************************************************************)
EXTENDS Naturals

CONSTANTS
  ScopeNames,
  Areas,        \* rectangles of a dimension
  Times,        \* readings of the clock, in no order
  Defining,     \* callers of create_scope
  MaxScopeId    \* bound on the ids handed out

VARIABLES
  scopes,       \* rows of scopes: id, name, creation time
  scopeAreas,   \* rows of scope_areas: <<scope id, area>>
  nextScopeId,  \* AUTOINCREMENT
  define        \* per caller: how far its create_scope is

scopeTables == <<scopes, scopeAreas, nextScopeId>>
scopeVars == <<scopeTables, define>>

NoDefine == [at |-> "idle"]

ScopesInit ==
  /\ scopes = {}
  /\ scopeAreas = {}
  /\ nextScopeId = 1
  /\ define = [u \in Defining |-> NoDefine]

Named(n) == {r \in scopes : r.name = n}

AreaSet(r) == {e[2] : e \in {f \in scopeAreas : f[1] = r.id}}

-----------------------------------------------------------------------------
(* The port. *)

\* Slip: ON CONFLICT DO UPDATE.
ScopeRowReplaced(n, t) ==
  IF Named(n) = {} THEN [id |-> nextScopeId, name |-> n, created |-> t]
  ELSE [id |-> (CHOOSE r \in Named(n) : TRUE).id, name |-> n, created |-> t]

\* ON CONFLICT(name) DO NOTHING: a scope that is there keeps its row.
ScopeRow(n, t) ==
  IF Named(n) = {} THEN [id |-> nextScopeId, name |-> n, created |-> t]
  ELSE CHOOSE r \in Named(n) : TRUE

\* set_scope: the row, and its whole area set anew, in one transaction.
SetScope(n, as, t) ==
  LET row == ScopeRow(n, t)
  IN  /\ Named(n) = {} => nextScopeId <= MaxScopeId
      /\ nextScopeId' = IF Named(n) = {} THEN nextScopeId + 1 ELSE nextScopeId
      /\ scopes' = (scopes \ Named(n)) \cup {row}
      /\ scopeAreas' = {e \in scopeAreas : e[1] # row.id} \cup ({row.id} \X as)

\* Slip: the foreign keys are not enforced (a pragma per connection).
DeleteScopeRow(n) ==
  /\ Named(n) # {}
  /\ scopes' = scopes \ Named(n)
  /\ UNCHANGED <<scopeAreas, nextScopeId>>

\* delete_scope: the areas go with the row.
DeleteScope(n) ==
  /\ Named(n) # {}
  /\ scopes' = scopes \ Named(n)
  /\ scopeAreas' = {e \in scopeAreas : \A r \in Named(n) : e[1] # r.id}
  /\ UNCHANGED nextScopeId

-----------------------------------------------------------------------------
(* The application. *)

\* create_scope: areas are given, the name is looked up, an existing one
\* refused without `force`; the creation time is the existing one's or now.
LookScope(u) ==
  /\ define[u].at = "idle"
  /\ \E n \in ScopeNames, as \in (SUBSET Areas) \ {{}}, force \in BOOLEAN, now \in Times :
       LET there == Named(n)
       IN  /\ there = {} \/ force
           /\ define' = [define EXCEPT ![u] =
                [at |-> "write", name |-> n, areas |-> as, force |-> force,
                 created |-> IF there = {} THEN now ELSE (CHOOSE r \in there : TRUE).created]]
  /\ UNCHANGED scopeTables

WriteScope(u) ==
  /\ define[u].at = "write"
  /\ SetScope(define[u].name, define[u].areas, define[u].created)
  /\ define' = [define EXCEPT ![u] = NoDefine]

RemoveScope ==
  /\ \E n \in ScopeNames : DeleteScope(n)
  /\ UNCHANGED define

-----------------------------------------------------------------------------
\* Every area belongs to a scope and every scope has an area, whatever was
\* created, replaced and deleted under one name: a scope without areas
\* would make every listing fail, and one with the areas of an earlier
\* scope would select what nobody named.
ScopesWhole ==
  /\ \A e \in scopeAreas : \E r \in scopes : r.id = e[1]
  /\ \A r \in scopes : AreaSet(r) # {}
  /\ \A r, q \in scopes : r.name = q.name \/ r.id = q.id => r = q

\* A scope keeps its id and its creation time for as long as its name is
\* taken, forced replacements and racing creations included.
CreationKept ==
  [][\A r \in scopes, q \in scopes' : r.name = q.name => r = q]_scopeVars
=============================================================================
