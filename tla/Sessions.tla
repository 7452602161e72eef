------------------------------ MODULE Sessions -------------------------------
(***************************************************************************)
(* Processes that open one store and name things in it: refs (Refs) and    *)
(* scopes (Scopes), by operations of several calls that interleave.        *)
(***************************************************************************)
EXTENDS StoreOpen, Refs, Scopes

CONSTANT Together   \* may refs and scopes be created at the same time?

ASSUME SessionsAssumption == Creating = Sessions /\ Defining = Sessions

sessionsVars == <<metaVars, openVars, create, scopeVars>>

\* Before the schema is created there is no row at all.
NoTables ==
  /\ seq = [c \in CommitIds |-> 0]
  /\ nextSeq = 1
  /\ commitParents = {}
  /\ chunkHistory = {}
  /\ target = [n \in RefNames |-> Absent]
  /\ activeRefs = {}
  /\ assigned = {}
  /\ hashed = [c \in CommitIds |-> {}]

SessionsInit == NoTables /\ OpenInit /\ RefsInit /\ ScopesInit

Quiet(s) == create[s].at = "idle" /\ define[s].at = "idle"

Opening(s) ==
  /\ \/ \E mode \in {"init", "open"} : Start(s, mode)
     \/ OpenStep(s)
  /\ UNCHANGED <<create, scopeVars>>

\* A process that ends takes its unfinished operations with it.
Ending(s) ==
  /\ Leave(s)
  /\ create' = [create EXCEPT ![s] = NoCreate]
  /\ define' = [define EXCEPT ![s] = NoDefine]
  /\ UNCHANGED scopeTables

NamingRef(s) ==
  /\ IsOpen(s) /\ define[s].at = "idle"
  /\ Together \/ scopes = {}
  /\ PickTarget(s) \/ CheckCommit(s) \/ CheckName(s) \/ WriteRef(s)
  /\ UNCHANGED <<openVars, scopeVars>>

NamingScope(s) ==
  /\ IsOpen(s) /\ create[s].at = "idle"
  /\ Together \/ (assigned = {} /\ \A u \in Creating : create[u].at = "idle")
  /\ LookScope(s) \/ WriteScope(s)
  /\ UNCHANGED <<metaVars, openVars, create>>

\* Calls of one step, by anybody who has the store open.
Calling ==
  /\ \E s \in Sessions : IsOpen(s) /\ Quiet(s)
  /\ \/ Next /\ UNCHANGED scopeVars
     \/ RemoveScope /\ UNCHANGED metaVars
  /\ UNCHANGED <<openVars, create>>

SessionsNext ==
  \/ \E s \in Sessions : Opening(s) \/ Ending(s) \/ NamingRef(s) \/ NamingScope(s)
  \/ Calling

SessionsSpec == SessionsInit /\ [][SessionsNext]_sessionsVars

\* The operating system runs a process that has a step to take; one that
\* waits for the write lock gets it or its busy timeout, and one that sleeps
\* between two turns of connect_pool wakes up.
FairSessionsSpec ==
  SessionsSpec /\ \A s \in Sessions :
                   WF_sessionsVars(OpenStep(s) /\ UNCHANGED <<create, scopeVars>>)

-----------------------------------------------------------------------------
SessionsTypeOK ==
  /\ TypeOK
  /\ CreateType
  /\ \A d \in Databases : writer[d] \in Sessions \cup {Nobody}
  /\ \A s \in Sessions, d \in Databases :
       writer[d] = s <=> session[s].on = d /\ session[s].at \in {"reread", "create", "leave"}
  /\ \A s \in Sessions, d \in Databases :
       switcher[d] = s <=> session[s].on = d /\ session[s].at = "switch"
  /\ nextScopeId \in 1 .. MaxScopeId + 1

\* Openers that race to create a store do not make each other fail over its
\* schema: one is refused over a database of another schema version only,
\* never over tables that another opener created since it looked, or that
\* one created that died.  (Two more outcomes are not refusals and are not
\* ruled out: `busy`, a lock held past the deadline of connect_pool or past
\* the busy timeout, and `missing`, a plain open without a store.)
RefusedForCause ==
  \A s \in Sessions : session[s].at = "refused" => db[session[s].on].version = Old

\* Who has the store open sees both databases complete and a store with
\* exactly one active ref, even if the process that set about creating
\* them died half way, and stays so while others open it.
OpenComplete ==
  \A s \in Sessions :
    IsOpen(s) => /\ \A d \in Databases : db[d].file /\ db[d].version = Current
                 /\ OneActiveRef

\* Only `init` creates files: any other command leaves a directory
\* without a store as it was, also beside the remains of an init that died
\* between the two databases.
InitMaterializes ==
  [][\A d \in Databases :
       ~ db[d].file /\ db[d].file' =>
         \E s \in Sessions : session[s].mode = "init" /\ Connect(s)]_sessionsVars

\* Opening ends, with a store or with an error: nobody retries to connect
\* for good, or waits for the write lock, however often others come, take
\* the file for themselves, and die over it.
OpeningEnds ==
  \A s \in Sessions :
    session[s].at = "connect" ~>
      session[s].at \in {"away", "open", "refused", "missing", "busy"}
=============================================================================
