--------------------------- MODULE SessionsProofs ----------------------------
(***************************************************************************)
(* Processes that open one store and name things in it: what they rely on, *)
(* for every number of processes, names and areas.                         *)
(*                                                                         *)
(* The argument: a database goes from no schema to the current one and     *)
(* never back, so a version that was read as something stays what it was   *)
(* read as; and only the holder of its write lock creates a schema, so one *)
(* that was read as missing under the lock is still missing (OpenInv).     *)
(***************************************************************************)
EXTENDS Sessions, MetaStoreProofs

Versions == {Fresh, Old, Current}

SessionRecords ==
  [at : {"away", "refused", "missing", "busy", "connect", "sleep", "switch", "version", "begin",
         "reread", "create", "leave", "gate", "open"},
   mode : {"init", "open"}, on : Databases, version : Versions, tries : Nat]

DatabaseRecords == [file : BOOLEAN, version : Versions, tables : BOOLEAN, wal : BOOLEAN]

OpenTypes ==
  /\ db \in [Databases -> DatabaseRecords]
  /\ writer \in [Databases -> Sessions \cup {Nobody}]
  /\ session \in [Sessions -> SessionRecords]

\* A schema is in a file, and there are tables where there is a schema.
DatabasesSound ==
  \A d \in Databases : /\ db[d].tables <=> db[d].version # Fresh
                       /\ db[d].version # Fresh => db[d].file

\* Who is inside a transaction is the writer, and nobody else is.
WritersSound ==
  \A s \in Sessions, d \in Databases :
    writer[d] = s <=> session[s].on = d /\ session[s].at \in {"reread", "create", "leave"}

\* What a process knows of the databases on its way.
KnowsDatabases(r) ==
  /\ r.on = "meta" => db["blob"].version = Current
  /\ r.at \notin Ended /\ r.mode = "open" => \A d \in Databases : db[d].file
  /\ r.at \in {"switch", "version", "begin", "reread", "create", "leave", "gate", "open"}
       => db[r.on].file
  /\ r.at = "create" => db[r.on].version = Fresh
  /\ r.at \in {"leave", "gate"} => r.version # Fresh /\ r.version = db[r.on].version
  /\ r.at = "open" => r.on = "meta" /\ db["meta"].version = Current
  /\ r.at = "refused" => db[r.on].version = Old

OpenInv ==
  /\ OpenTypes
  /\ DatabasesSound
  /\ WritersSound
  /\ \A s \in Sessions : KnowsDatabases(session[s])

\* The tables are whole from their creation on, and empty before.
TablesInv == IF db["meta"].version = Current THEN PortInv ELSE NoTables

\* What create_ref remembers between its calls.
CreateRecords == [at : {"idle", "target", "commit", "name"}, name : RefNames,
                  commit : CommitIds \cup {Unborn, Absent}]

CreateInv == create \in [Creating -> CreateRecords]

ScopeRecords == [id : Nat, name : ScopeNames, created : Times]

DefineRecords ==
  [at : {"write"}, name : ScopeNames, areas : (SUBSET Areas) \ {{}}, force : BOOLEAN,
   created : Times]

\* Ids are handed out once each, below the counter.
ScopesInv ==
  /\ ScopesWhole
  /\ scopes \subseteq ScopeRecords
  /\ nextScopeId \in Nat
  /\ \A r \in scopes : r.id < nextScopeId
  /\ define \in [Defining -> {NoDefine} \cup DefineRecords]

SessionsInv == OpenInv /\ TablesInv /\ CreateInv /\ ScopesInv

-----------------------------------------------------------------------------
(* Opening.  Every step moves one process; what the others know survives   *)
(* because a version changes only from Fresh, and only under the lock.     *)

\* What a step of s may do to the databases.
Grows(s) ==
  \A d \in Databases :
    /\ db[d].file => db'[d].file
    /\ db[d].version # Fresh => db'[d].version = db[d].version
    /\ db[d].version = Fresh => db'[d].version = Fresh \/ writer[d] = s

InTransaction(k, d) == k.on = d /\ k.at \in {"reread", "create", "leave"}

LEMMA MoveSession ==
  ASSUME OpenInv, NEW s \in Sessions, NEW k \in SessionRecords, Goto(s, k),
         db' \in [Databases -> DatabaseRecords], DatabasesSound', Grows(s),
         writer' \in [Databases -> Sessions \cup {Nobody}],
         \A d \in Databases : /\ \A t \in Sessions \ {s} : writer'[d] = t <=> writer[d] = t
                              /\ writer'[d] = s <=> InTransaction(k, d),
         KnowsDatabases(k)'
  PROVE  OpenInv'
  <1>1. session' \in [Sessions -> SessionRecords] /\ session'[s] = k
    BY DEF OpenInv, OpenTypes, Goto
  <1>2. \A t \in Sessions \ {s} : session'[t] = session[t]
    BY DEF OpenInv, OpenTypes, Goto
  <1>3. WritersSound'
    <2>1. ASSUME NEW t \in Sessions \ {s}, NEW d \in Databases
          PROVE  (writer[d] = t <=> session[t].on = d /\ session[t].at \in {"reread", "create", "leave"})'
      BY <1>2, <2>1 DEF OpenInv, WritersSound
    <2>2. QED
      BY <1>1, <2>1 DEF WritersSound, InTransaction
  <1>4. ASSUME NEW t \in Sessions \ {s}
        PROVE  KnowsDatabases(session[t])'
    <2>1. PICK r \in SessionRecords : r = session[t]
      BY DEF OpenInv, OpenTypes
    <2>2. KnowsDatabases(r)
      BY <2>1 DEF OpenInv
    <2>3. r.at = "create" => writer[r.on] = t
      BY <2>1 DEF OpenInv, WritersSound, SessionRecords
    <2>4. KnowsDatabases(r)'
      BY <2>2, <2>3, s # t DEF Grows, KnowsDatabases, Ended, SessionRecords, Databases, Fresh, Old, Current
    <2>5. QED
      BY <2>1, <2>4, <1>2
  <1>5. \A t \in Sessions : KnowsDatabases(session[t])'
    BY <1>1, <1>4
  <1>6. QED
    BY <1>1, <1>3, <1>5 DEF OpenInv, OpenTypes

\* A step that moves a process and touches neither database nor lock.
LEMMA MoveOnly ==
  ASSUME OpenInv, NEW s \in Sessions, NEW k \in SessionRecords, Goto(s, k),
         UNCHANGED <<db, writer>>, KnowsDatabases(k),
         \A d \in Databases : InTransaction(session[s], d) <=> InTransaction(k, d)
  PROVE  OpenInv'
  <1>1. db' \in [Databases -> DatabaseRecords] /\ DatabasesSound' /\ Grows(s)
    BY DEF OpenInv, OpenTypes, DatabasesSound, Grows
  <1>2. KnowsDatabases(k)'
    BY DEF KnowsDatabases
  <1>3. QED
    BY <1>1, <1>2, MoveSession DEF OpenInv, OpenTypes, WritersSound, InTransaction

LEMMA StartInv ==
  ASSUME OpenInv, NEW s \in Sessions, NEW mode \in {"init", "open"}, Start(s, mode)
  PROVE  OpenInv'
  <1>1. PICK k \in SessionRecords :
           /\ Goto(s, k)
           /\ k.at \in {"connect", "missing"} /\ k.on = "blob"
           /\ k.at = "connect" /\ k.mode = "open" => \A d \in Databases : db[d].file
    <2> DEFINE go == [Away EXCEPT !.at = "connect", !.mode = mode]
               no == [Away EXCEPT !.at = "missing"]
    <2>1. Away \in SessionRecords /\ Away.on = "blob"
      BY DEF SessionRecords, Databases, Versions, Away
    <2>2. CASE mode = "init" \/ \A d \in Databases : db[d].file
      <3>1. Goto(s, go)
        BY <2>2 DEF Start
      <3>2. go \in SessionRecords /\ go.mode = mode /\ go.on = "blob" /\ go.at = "connect"
        BY <2>1 DEF SessionRecords
      <3>3. QED
        BY <2>2, <3>1, <3>2
    <2>3. CASE ~ (mode = "init" \/ \A d \in Databases : db[d].file)
      <3>1. Goto(s, no)
        BY <2>3 DEF Start
      <3>2. no \in SessionRecords /\ no.on = "blob" /\ no.at = "missing"
        BY <2>1 DEF SessionRecords
      <3>3. QED
        BY <3>1, <3>2
    <2>4. QED
      BY <2>2, <2>3
  <1>2. KnowsDatabases(k)
    BY <1>1 DEF KnowsDatabases, Ended
  <1>3. ~ \E d \in Databases : InTransaction(session[s], d) \/ InTransaction(k, d)
    BY <1>1 DEF Start, InTransaction
  <1>4. QED
    BY <1>1, <1>2, <1>3, MoveOnly DEF Start

\* One turn of connect_pool changes whether there is a file and whether it
\* is in WAL, and neither the version nor the tables.
LEMMA ConnectInv ==
  ASSUME OpenInv, NEW s \in Sessions, Connect(s) \/ Switch(s)
  PROVE  OpenInv'
  <1>1. PICK r \in SessionRecords : r = session[s]
    BY DEF OpenInv, OpenTypes
  <1>2. PICK k \in SessionRecords :
           Goto(s, k) /\ k.at \in {"version", "switch"} /\ k.mode = r.mode /\ k.on = r.on
    <2>1. CASE Connect(s)
      <3> DEFINE to(at) == [r EXCEPT !.at = at, !.tries = 0]
      <3>1. PICK at \in {"version", "switch"} : Goto(s, to(at))
        BY <1>1, <2>1 DEF Connect
      <3>2. to(at) \in SessionRecords /\ to(at).at = at /\ to(at).mode = r.mode /\ to(at).on = r.on
        BY DEF SessionRecords
      <3>3. QED
        BY <3>1, <3>2
    <2>2. CASE Switch(s)
      <3> DEFINE to == [r EXCEPT !.at = "version"]
      <3>1. Goto(s, to)
        BY <1>1, <2>2 DEF Switch
      <3>2. to \in SessionRecords /\ to.at = "version" /\ to.mode = r.mode /\ to.on = r.on
        BY DEF SessionRecords
      <3>3. QED
        BY <3>1, <3>2
    <2>3. QED
      BY <2>1, <2>2
  <1>3. KnowsDatabases(r) /\ r.at \in {"connect", "switch"} /\ (r.at = "switch" => db[r.on].file)
    BY <1>1 DEF OpenInv, Connect, Switch, KnowsDatabases
  <1>4. /\ db' \in [Databases -> DatabaseRecords]
        /\ \A d \in Databases : /\ db'[d].file <=> db[d].file \/ d = r.on
                                /\ db'[d].version = db[d].version
                                /\ db'[d].tables = db[d].tables
    <2>1. CASE Connect(s)
      <3>1. db' = [db EXCEPT ![r.on].file = TRUE] /\ r.on \in Databases
        BY <1>1, <2>1 DEF Connect, SessionRecords
      <3>2. QED
        BY <3>1 DEF OpenInv, OpenTypes, DatabaseRecords
    <2>2. CASE Switch(s)
      <3>1. db' = [db EXCEPT ![r.on].wal = TRUE] /\ r.on \in Databases /\ db[r.on].file
        BY <1>1, <1>3, <2>2 DEF Switch, SessionRecords
      <3>2. /\ db' \in [Databases -> DatabaseRecords]
            /\ \A d \in Databases : /\ db'[d].file <=> db[d].file
                                    /\ db'[d].version = db[d].version
                                    /\ db'[d].tables = db[d].tables
        BY <3>1 DEF OpenInv, OpenTypes, DatabaseRecords
      <3>3. QED
        BY <3>1, <3>2
    <2>3. QED
      BY <2>1, <2>2
  <1>5. DatabasesSound' /\ Grows(s)
    BY <1>4 DEF DatabasesSound, Grows, OpenInv, Databases
  <1>6. KnowsDatabases(k)'
    BY <1>2, <1>3, <1>4 DEF KnowsDatabases, Ended, SessionRecords, Databases
  <1>7. UNCHANGED writer /\ ~ \E d \in Databases : writer[d] = s \/ InTransaction(k, d)
    BY <1>1, <1>2, <1>3 DEF OpenInv, WritersSound, InTransaction, Connect, Switch
  <1>8. QED
    BY <1>2, <1>4, <1>5, <1>6, <1>7, MoveSession DEF OpenInv, OpenTypes

\* Between two turns of connect_pool nothing is learnt, and nothing changed.
LEMMA RetryInv ==
  ASSUME OpenInv, NEW s \in Sessions, ConnectBusy(s) \/ WakeUp(s)
  PROVE  OpenInv'
  <1>1. PICK r \in SessionRecords : r = session[s]
    BY DEF OpenInv, OpenTypes
  <1>2. KnowsDatabases(r) /\ r.at \in {"connect", "sleep"}
    BY <1>1 DEF OpenInv, ConnectBusy, WakeUp
  <1>3. PICK k \in SessionRecords :
           /\ Goto(s, k)
           /\ \/ k.at \in {"connect", "sleep"} /\ k.mode = r.mode /\ k.on = r.on
              \/ k.at = "busy" /\ k.on = "blob"
    <2> DEFINE sleep == [r EXCEPT !.at = "sleep", !.tries = @ + 1]
               busy == [Away EXCEPT !.at = "busy"]
               wake == [r EXCEPT !.at = "connect"]
    <2>1. Goto(s, sleep) \/ Goto(s, busy) \/ Goto(s, wake)
      BY <1>1 DEF ConnectBusy, WakeUp
    <2>2. sleep \in SessionRecords /\ sleep.at = "sleep" /\ sleep.mode = r.mode /\ sleep.on = r.on
      <3>1. r.tries + 1 \in Nat
        BY DEF SessionRecords
      <3>2. QED
        BY <3>1 DEF SessionRecords
    <2>3. busy \in SessionRecords /\ busy.at = "busy" /\ busy.on = "blob"
      BY DEF SessionRecords, Databases, Versions, Away
    <2>4. wake \in SessionRecords /\ wake.at = "connect" /\ wake.mode = r.mode /\ wake.on = r.on
      BY DEF SessionRecords
    <2> HIDE DEF sleep, busy, wake
    <2>5. QED
      BY <2>1, <2>2, <2>3, <2>4
  <1>4. KnowsDatabases(k)
    BY <1>2, <1>3 DEF KnowsDatabases, Ended
  <1>5. UNCHANGED <<db, writer>>
    BY DEF ConnectBusy, WakeUp
  <1>6. QED
    BY <1>1, <1>2, <1>3, <1>4, <1>5, MoveOnly DEF InTransaction

LEMMA ReadInv ==
  ASSUME OpenInv, NEW s \in Sessions,
         ReadVersion(s) \/ WaitOut(s) \/ RereadVersion(s) \/ PassGate(s)
  PROVE  OpenInv'
  <1>1. PICK r \in SessionRecords : r = session[s]
    BY DEF OpenInv, OpenTypes
  <1>2. KnowsDatabases(r) /\ db[r.on] \in DatabaseRecords /\ DatabasesSound
    BY <1>1 DEF OpenInv, OpenTypes, SessionRecords
  <1>3. UNCHANGED <<db, writer>>
    BY DEF ReadVersion, WaitOut, RereadVersion, PassGate
  <1>4. CASE ReadVersion(s)
    <2>1. PICK k \in SessionRecords :
             /\ Goto(s, k) /\ k.at \in {"begin", "gate"} /\ k.mode = r.mode /\ k.on = r.on
             /\ k.version = db[r.on].version /\ (k.at = "gate" => k.version # Fresh)
      <3> DEFINE v == db[r.on].version
                 to == [r EXCEPT !.at = IF v = Fresh THEN "begin" ELSE "gate", !.version = v]
      <3>1. Goto(s, to)
        BY <1>1, <1>4 DEF ReadVersion
      <3>2. v \in Versions
        BY <1>2 DEF DatabaseRecords
      <3>3. /\ to \in SessionRecords /\ to.mode = r.mode /\ to.on = r.on
            /\ to.at = (IF v = Fresh THEN "begin" ELSE "gate") /\ to.version = v
        BY <1>1, <3>2 DEF SessionRecords
      <3> HIDE DEF to
      <3>4. QED
        BY <3>1, <3>3
    <2>2. r.at = "version"
      BY <1>1, <1>4 DEF ReadVersion
    <2>3. KnowsDatabases(k)
      BY <1>2, <2>1, <2>2 DEF KnowsDatabases, Ended, SessionRecords
    <2>4. QED
      BY <1>1, <1>3, <2>1, <2>2, <2>3, MoveOnly DEF InTransaction
  <1>5. CASE WaitOut(s)
    <2>1. PICK k \in SessionRecords : Goto(s, k) /\ k.at = "busy" /\ k.on = "blob"
      <3> DEFINE to == [Away EXCEPT !.at = "busy"]
      <3>1. Goto(s, to)
        BY <1>5 DEF WaitOut
      <3>2. to \in SessionRecords /\ to.at = "busy" /\ to.on = "blob"
        BY DEF SessionRecords, Databases, Versions, Away
      <3>3. QED
        BY <3>1, <3>2
    <2>2. KnowsDatabases(k) /\ r.at = "begin"
      BY <1>1, <1>5, <2>1 DEF WaitOut, KnowsDatabases, Ended
    <2>3. QED
      BY <1>1, <1>3, <2>1, <2>2, MoveOnly DEF InTransaction
  <1>6. CASE RereadVersion(s)
    <2>1. PICK k \in SessionRecords :
             /\ Goto(s, k) /\ k.at \in {"create", "leave"} /\ k.mode = r.mode /\ k.on = r.on
             /\ k.version = db[r.on].version /\ (k.at = "create" <=> k.version = Fresh)
      <3> DEFINE v == db[r.on].version
                 to == [r EXCEPT !.at = IF v = Fresh THEN "create" ELSE "leave", !.version = v]
      <3>1. Goto(s, to)
        BY <1>1, <1>6 DEF RereadVersion
      <3>2. v \in Versions
        BY <1>2 DEF DatabaseRecords
      <3>3. /\ to \in SessionRecords /\ to.mode = r.mode /\ to.on = r.on
            /\ to.at = (IF v = Fresh THEN "create" ELSE "leave") /\ to.version = v
        BY <1>1, <3>2 DEF SessionRecords
      <3> HIDE DEF to
      <3>4. QED
        BY <3>1, <3>3
    <2>2. r.at = "reread"
      BY <1>1, <1>6 DEF RereadVersion
    <2>3. KnowsDatabases(k)
      BY <1>2, <2>1, <2>2 DEF KnowsDatabases, Ended, SessionRecords
    <2>4. QED
      BY <1>1, <1>3, <2>1, <2>2, <2>3, MoveOnly DEF InTransaction
  <1>7. CASE PassGate(s)
    <2>1. r.at = "gate"
      BY <1>1, <1>7 DEF PassGate
    <2>2. PICK k \in SessionRecords :
             /\ Goto(s, k) /\ k.mode = r.mode /\ k.version = r.version
             /\ \/ r.version # Current /\ k.at = "refused" /\ k.on = r.on
                \/ r.version = Current /\ r.on = "blob" /\ k.at = "connect" /\ k.on = "meta"
                \/ r.version = Current /\ r.on = "meta" /\ k.at = "open" /\ k.on = "meta"
      <3>1. r.on \in {"blob", "meta"}
        BY DEF SessionRecords, Databases
      <3>2. CASE r.version # Current
        <4> DEFINE to == [r EXCEPT !.at = "refused"]
        <4>1. Goto(s, to)
          BY <1>1, <1>7, <3>2 DEF PassGate
        <4>2. /\ to \in SessionRecords /\ to.mode = r.mode /\ to.on = r.on
              /\ to.at = "refused" /\ to.version = r.version
          BY DEF SessionRecords
        <4>3. QED
          BY <3>2, <4>1, <4>2
      <3>3. CASE r.version = Current /\ r.on = "blob"
        <4> DEFINE to == [r EXCEPT !.at = "connect", !.on = "meta"]
        <4>1. Goto(s, to)
          BY <1>1, <1>7, <3>3 DEF PassGate
        <4>2. /\ to \in SessionRecords /\ to.mode = r.mode /\ to.on = "meta"
              /\ to.at = "connect" /\ to.version = r.version
          BY DEF SessionRecords, Databases
        <4>3. QED
          BY <3>3, <4>1, <4>2
      <3>4. CASE r.version = Current /\ r.on = "meta"
        <4> DEFINE to == [r EXCEPT !.at = "open"]
        <4>1. Goto(s, to)
          BY <1>1, <1>7, <3>4 DEF PassGate
        <4>2. /\ to \in SessionRecords /\ to.mode = r.mode /\ to.on = r.on
              /\ to.at = "open" /\ to.version = r.version
          BY DEF SessionRecords
        <4>3. QED
          BY <3>4, <4>1, <4>2
      <3>5. QED
        BY <3>1, <3>2, <3>3, <3>4
    <2>3. KnowsDatabases(k)
      BY <1>2, <2>1, <2>2 DEF KnowsDatabases, Ended, SessionRecords, Databases, DatabasesSound,
         Versions, Fresh, Old, Current
    <2>4. QED
      BY <1>1, <1>3, <2>1, <2>2, <2>3, MoveOnly DEF InTransaction
  <1>8. QED
    BY <1>4, <1>5, <1>6, <1>7

LEMMA LockInv ==
  ASSUME OpenInv, NEW s \in Sessions, BeginImmediate(s) \/ LeaveTransaction(s)
  PROVE  OpenInv'
  <1>1. PICK r \in SessionRecords : r = session[s]
    BY DEF OpenInv, OpenTypes
  <1>2. KnowsDatabases(r) /\ r.on \in Databases
    BY <1>1 DEF OpenInv, OpenTypes, SessionRecords
  <1>3. /\ db' \in [Databases -> DatabaseRecords] /\ DatabasesSound' /\ Grows(s)
    BY DEF OpenInv, OpenTypes, DatabasesSound, Grows, BeginImmediate, LeaveTransaction
  <1>4. CASE BeginImmediate(s)
    <2>1. PICK k \in SessionRecords :
             /\ Goto(s, k) /\ k.at = "reread" /\ k.mode = r.mode /\ k.on = r.on
             /\ k.version = r.version
      BY <1>1, <1>4 DEF BeginImmediate, SessionRecords
    <2>2. r.at = "begin" /\ writer[r.on] = Nobody /\ writer' = [writer EXCEPT ![r.on] = s]
      BY <1>1, <1>4 DEF BeginImmediate
    <2>3. KnowsDatabases(k)'
      BY <1>2, <1>4, <2>1, <2>2 DEF KnowsDatabases, Ended, BeginImmediate
    <2>4. /\ writer' \in [Databases -> Sessions \cup {Nobody}]
          /\ \A d \in Databases : /\ \A t \in Sessions \ {s} : writer'[d] = t <=> writer[d] = t
                                  /\ writer'[d] = s <=> InTransaction(k, d)
      BY <1>1, <1>2, <2>1, <2>2, StoreOpenAssumption DEF OpenInv, OpenTypes, WritersSound, InTransaction
    <2>5. QED
      BY <1>3, <2>1, <2>3, <2>4, MoveSession
  <1>5. CASE LeaveTransaction(s)
    <2>1. PICK k \in SessionRecords :
             /\ Goto(s, k) /\ k.at = "gate" /\ k.mode = r.mode /\ k.on = r.on
             /\ k.version = r.version
      BY <1>1, <1>5 DEF LeaveTransaction, SessionRecords
    <2>2. r.at = "leave" /\ writer' = [writer EXCEPT ![r.on] = Nobody]
      BY <1>1, <1>5 DEF LeaveTransaction
    <2>3. KnowsDatabases(k)'
      BY <1>2, <1>5, <2>1, <2>2 DEF KnowsDatabases, Ended, LeaveTransaction
    <2>4. /\ writer' \in [Databases -> Sessions \cup {Nobody}]
          /\ \A d \in Databases : /\ \A t \in Sessions \ {s} : writer'[d] = t <=> writer[d] = t
                                  /\ writer'[d] = s <=> InTransaction(k, d)
      BY <1>1, <1>2, <2>1, <2>2, StoreOpenAssumption DEF OpenInv, OpenTypes, WritersSound, InTransaction
    <2>5. QED
      BY <1>3, <2>1, <2>3, <2>4, MoveSession
  <1>6. QED
    BY <1>4, <1>5

\* The version read as missing under the lock is still missing when the
\* schema is created: there is no clash.
LEMMA CreateFinds ==
  ASSUME OpenInv, NEW s \in Sessions, CreateSchema(s)
  PROVE  /\ db[session[s].on].version = Fresh
         /\ ~ db[session[s].on].tables
         /\ writer[session[s].on] = s
  <1>1. PICK r \in SessionRecords : r = session[s]
    BY DEF OpenInv, OpenTypes
  <1>2. QED
    BY <1>1 DEF OpenInv, KnowsDatabases, DatabasesSound, WritersSound, CreateSchema, SessionRecords

LEMMA CreateSchemaInv ==
  ASSUME OpenInv, NEW s \in Sessions, CreateSchema(s)
  PROVE  OpenInv'
  <1>1. PICK r \in SessionRecords : r = session[s]
    BY DEF OpenInv, OpenTypes
  <1>2. KnowsDatabases(r) /\ r.on \in Databases /\ r.at = "create"
    BY <1>1 DEF OpenInv, OpenTypes, SessionRecords, CreateSchema
  <1>3. PICK k \in SessionRecords :
           /\ Goto(s, k) /\ k.at = "gate" /\ k.mode = r.mode /\ k.on = r.on
           /\ k.version = Current
    <2> DEFINE to == [r EXCEPT !.at = "gate", !.version = Current]
    <2>1. Goto(s, to)
      BY <1>1, CreateFinds DEF CreateSchema
    <2>2. /\ to \in SessionRecords /\ to.mode = r.mode /\ to.on = r.on
          /\ to.at = "gate" /\ to.version = Current
      BY DEF SessionRecords, Versions
    <2>3. QED
      BY <2>1, <2>2
  <1>4. db' = [db EXCEPT ![r.on] = Database(TRUE, Current)]
    BY <1>1, CreateFinds DEF CreateSchema
  <1>5. Database(TRUE, Current) \in DatabaseRecords
    BY DEF Database, DatabaseRecords, Versions
  <1>6. /\ db' \in [Databases -> DatabaseRecords]
        /\ db'[r.on].file /\ db'[r.on].version = Current /\ db'[r.on].tables
        /\ \A d \in Databases \ {r.on} : db'[d] = db[d]
    <2>1. /\ Database(TRUE, Current).file /\ Database(TRUE, Current).version = Current
          /\ Database(TRUE, Current).tables
      <3>1. Current # Fresh
        BY DEF Fresh, Current
      <3>2. QED
        BY <3>1 DEF Database
    <2>2. QED
      BY <1>2, <1>4, <1>5, <2>1 DEF OpenInv, OpenTypes
  <1>7. DatabasesSound' /\ Grows(s)
    BY <1>1, <1>2, <1>6, CreateFinds DEF DatabasesSound, Grows, OpenInv, Databases, Fresh, Old, Current
  <1>8. KnowsDatabases(k)'
    BY <1>2, <1>3, <1>6 DEF KnowsDatabases, Ended, Databases, Fresh, Current
  <1>9. /\ writer' \in [Databases -> Sessions \cup {Nobody}]
        /\ \A d \in Databases : /\ \A t \in Sessions \ {s} : writer'[d] = t <=> writer[d] = t
                                /\ writer'[d] = s <=> InTransaction(k, d)
    <2>1. writer' = [writer EXCEPT ![r.on] = Nobody]
      BY <1>1 DEF CreateSchema
    <2>2. QED
      BY <1>1, <1>2, <1>3, <2>1, StoreOpenAssumption DEF OpenInv, OpenTypes, WritersSound, InTransaction
  <1>10. QED
    BY <1>3, <1>6, <1>7, <1>8, <1>9, MoveSession

LEMMA LeaveInv ==
  ASSUME OpenInv, NEW s \in Sessions, Leave(s)
  PROVE  OpenInv'
  <1>1. Away \in SessionRecords /\ Goto(s, Away)
    BY DEF Away, SessionRecords, Databases, Versions, Leave
  <1>2. db' \in [Databases -> DatabaseRecords] /\ DatabasesSound' /\ Grows(s)
    BY DEF OpenInv, OpenTypes, DatabasesSound, Grows, Leave
  <1>3. KnowsDatabases(Away)'
    BY DEF KnowsDatabases, Ended, Away
  <1>4. /\ writer' \in [Databases -> Sessions \cup {Nobody}]
        /\ \A d \in Databases : /\ \A t \in Sessions \ {s} : writer'[d] = t <=> writer[d] = t
                                /\ writer'[d] = s <=> InTransaction(Away, d)
    BY StoreOpenAssumption DEF OpenInv, OpenTypes, Leave, InTransaction, Away
  <1>5. QED
    BY <1>1, <1>2, <1>3, <1>4, MoveSession

LEMMA OpenSteps ==
  ASSUME OpenInv, NEW s \in Sessions, Opening(s) \/ Ending(s)
  PROVE  OpenInv'
  BY StartInv, ConnectInv, RetryInv, ReadInv, LockInv, CreateSchemaInv, LeaveInv
     DEF Opening, Ending, OpenStep

-----------------------------------------------------------------------------
(* The tables.  Nothing is in them before the schema is created; creating  *)
(* it is MetaStore's initial state, and every call since is a step of it.  *)

LEMMA NoTablesTypes == NoTables => TypeOK
  BY ConstantsAssumption DEF NoTables, TypeOK, Row

LEMMA TablesTypes == TablesInv => TypeOK
  BY NoTablesTypes DEF TablesInv, PortInv

LEMMA TablesStutter ==
  ASSUME TablesInv, UNCHANGED metaVars, db'["meta"].version = db["meta"].version
  PROVE  TablesInv'
  <1>1. CASE db["meta"].version = Current
    <2>1. PortInv /\ [Next]_metaVars
      BY <1>1 DEF TablesInv
    <2>2. QED
      BY <1>1, <2>1, PortStep DEF TablesInv
  <1>2. CASE db["meta"].version # Current
    <2>1. NoTables'
      BY <1>2 DEF TablesInv, NoTables, metaVars
    <2>2. QED
      BY <1>2, <2>1 DEF TablesInv
  <1>3. QED
    BY <1>1, <1>2

LEMMA TablesCall ==
  ASSUME TablesInv, db["meta"].version = Current, UNCHANGED db, Next
  PROVE  TablesInv'
  BY PortStep DEF TablesInv

\* The empty tables with the first ref in them are sound.
LEMMA FirstRef ==
  ASSUME NoTables,
         target' = [target EXCEPT ![Main] = Unborn], activeRefs' = {Main},
         UNCHANGED <<seq, nextSeq, commitParents, chunkHistory, assigned, hashed>>
  PROVE  PortInv'
  <1> USE ConstantsAssumption
  <1>1. /\ seq' = [c \in CommitIds |-> 0] /\ nextSeq' = 1 /\ commitParents' = {}
        /\ chunkHistory' = {} /\ assigned' = {} /\ hashed' = [c \in CommitIds |-> {}]
        /\ target' = [n \in RefNames |-> IF n = Main THEN Unborn ELSE Absent]
    BY DEF NoTables
  <1>2. TypeOK'
    <2>1. UNCHANGED <<seq, nextSeq, commitParents, chunkHistory, assigned, hashed>>
      OBVIOUS
    <2>2. target' \in [RefNames -> CommitIds \cup {Unborn, Absent}] /\ activeRefs' \subseteq RefNames
      BY <1>1
    <2>3. QED
      BY <2>1, <2>2, NoTablesTypes DEF TypeOK
  <1>3. RefsResolve' /\ OneActiveRef'
    BY <1>1 DEF RefsResolve, OneActiveRef
  <1>4. SeqUnique' /\ EdgesStored' /\ RowsBelong' /\ PrimaryKey'
    BY <1>1 DEF SeqUnique, EdgesStored, RowsBelong, PrimaryKey, commits
  <1>5. QED
    BY <1>2, <1>3, <1>4 DEF PortInv

LEMMA TablesOpening ==
  ASSUME OpenInv, TablesInv, NEW s \in Sessions, Opening(s) \/ Ending(s)
  PROVE  TablesInv'
  <1>1. CASE CreateSchema(s)
    <2>1. db["meta"] \in DatabaseRecords
      BY DEF OpenInv, OpenTypes, Databases
    <2>2. CASE session[s].on = "meta"
      <3>1. db["meta"].version # Current
        BY <1>1, <2>2, CreateFinds DEF Fresh, Current
      <3>2. PortInv'
        BY <1>1, <2>2, <3>1, CreateFinds, FirstRef DEF CreateSchema, TablesInv
      <3>3. db'["meta"].version = Current
        <4>1. db' = [db EXCEPT !["meta"] = Database(TRUE, Current)]
          BY <1>1, <2>2, CreateFinds DEF CreateSchema
        <4>2. Database(TRUE, Current).version = Current
          BY DEF Database
        <4>3. QED
          BY <4>1, <4>2 DEF OpenInv, OpenTypes, Databases
      <3>4. QED
        BY <3>2, <3>3 DEF TablesInv
    <2>3. CASE session[s].on # "meta"
      <3>1. UNCHANGED metaVars /\ db'["meta"] = db["meta"]
        BY <1>1, <2>3 DEF CreateSchema, OpenInv, OpenTypes, Databases
      <3>2. QED
        BY <3>1, TablesStutter
    <2>4. QED
      BY <2>2, <2>3
  <1>2. CASE Connect(s) \/ Switch(s)
    <2>1. UNCHANGED metaVars /\ db'["meta"].version = db["meta"].version
      BY <1>2 DEF Connect, Switch, OpenInv, OpenTypes, DatabaseRecords, Databases
    <2>2. QED
      BY <2>1, TablesStutter
  <1>3. CASE ~ (CreateSchema(s) \/ Connect(s) \/ Switch(s))
    <2>1. UNCHANGED <<metaVars, db>>
      BY <1>3 DEF Opening, Ending, OpenStep, Start, ConnectBusy, WakeUp, ReadVersion,
         BeginImmediate, WaitOut, RereadVersion, LeaveTransaction, PassGate, Leave
    <2>2. QED
      BY <2>1, TablesStutter
  <1>4. QED
    BY <1>1, <1>2, <1>3

LEMMA OpenCurrent ==
  ASSUME OpenInv, NEW s \in Sessions, IsOpen(s)
  PROVE  db["meta"].version = Current
  BY DEF OpenInv, KnowsDatabases, IsOpen

-----------------------------------------------------------------------------
(* Naming a ref. *)

LEMMA NoCreateRecord == NoCreate \in CreateRecords
  BY ConstantsAssumption DEF NoCreate, CreateRecords

LEMMA NamingRefCreate ==
  ASSUME OpenInv, TablesInv, CreateInv, NEW s \in Sessions, NamingRef(s)
  PROVE  CreateInv'
  <1>1. s \in Creating
    BY SessionsAssumption
  <1>2. PICK r \in CreateRecords : r = create[s]
    BY <1>1 DEF CreateInv
  <1>3. SUFFICES \E k \in CreateRecords : Proceed(s, k)
    BY <1>1 DEF CreateInv, Proceed
  <1>4. CASE PickTarget(s)
    <2>1. PICK t \in Resolvable \cup ActiveCommit :
             Proceed(s, [NoCreate EXCEPT !.at = "target", !.commit = t])
      BY <1>4 DEF PickTarget
    <2>2. t \in CommitIds \cup {Unborn, Absent}
      BY TablesTypes DEF TypeOK, Resolvable, ActiveCommit, commits
    <2> DEFINE k == [NoCreate EXCEPT !.at = "target", !.commit = t]
    <2>3. k \in CreateRecords
      BY <2>2, NoCreateRecord DEF CreateRecords
    <2>4. QED
      BY <2>1, <2>3
  <1>5. CASE CheckCommit(s)
    <2> DEFINE k == [r EXCEPT !.at = "commit"]
    <2>1. k \in CreateRecords
      BY DEF CreateRecords
    <2>2. Proceed(s, k) \/ Proceed(s, NoCreate)
      BY <1>2, <1>5 DEF CheckCommit
    <2>3. QED
      BY <2>1, <2>2, NoCreateRecord
  <1>6. CASE CheckName(s)
    <2>1. PICK n \in RefNames :
             Proceed(s, NoCreate) \/ Proceed(s, [r EXCEPT !.at = "name", !.name = n])
      BY <1>2, <1>6 DEF CheckName
    <2> DEFINE k == [r EXCEPT !.at = "name", !.name = n]
    <2>2. k \in CreateRecords
      BY DEF CreateRecords
    <2>3. QED
      BY <2>1, <2>2, NoCreateRecord
  <1>7. CASE WriteRef(s)
    BY <1>7, NoCreateRecord DEF WriteRef
  <1>8. QED
    BY <1>4, <1>5, <1>6, <1>7 DEF NamingRef

LEMMA NamingRefTables ==
  ASSUME OpenInv, TablesInv, CreateInv, NEW s \in Sessions, NamingRef(s)
  PROVE  TablesInv'
  <1>1. db["meta"].version = Current /\ UNCHANGED db
    BY OpenCurrent DEF NamingRef, openVars
  <1>2. CASE UNCHANGED metaVars
    BY <1>1, <1>2, TablesStutter
  <1>3. CASE WriteRef(s) /\ ~ UNCHANGED metaVars
    <2>1. create[s] \in CreateRecords
      BY SessionsAssumption DEF CreateInv
    <2>2. create[s].name \in RefNames /\ create[s].commit \in commits \cup {Unborn}
      BY <1>3, <2>1 DEF CreateRecords, WriteRef
    <2>3. SetRef(create[s].name, create[s].commit)
      BY <1>3, <2>2 DEF WriteRef
    <2>4. Next
      BY <2>2, <2>3 DEF Next, commits
    <2>5. QED
      BY <1>1, <2>4, TablesCall
  <1>4. QED
    BY <1>2, <1>3 DEF NamingRef, PickTarget, CheckCommit, CheckName

-----------------------------------------------------------------------------
(* Naming a scope. *)

\* The row is one of that name, and its id no other row's.
LEMMA ScopeRowFits ==
  ASSUME ScopesInv, NEW n \in ScopeNames, NEW t \in Times
  PROVE  /\ ScopeRow(n, t).name = n
         /\ Named(n) # {} => Named(n) = {ScopeRow(n, t)} /\ ScopeRow(n, t) \in scopes
         /\ Named(n) = {} => ScopeRow(n, t) = [id |-> nextScopeId, name |-> n, created |-> t]
         /\ \A r \in scopes \ Named(n) : r.id # ScopeRow(n, t).id
  <1>1. CASE Named(n) = {}
    <2>1. ScopeRow(n, t) = [id |-> nextScopeId, name |-> n, created |-> t]
      BY <1>1 DEF ScopeRow
    <2>2. ScopeRow(n, t).id = nextScopeId /\ ScopeRow(n, t).name = n
      BY <2>1
    <2>3. \A r \in scopes : r.id # nextScopeId
      BY DEF ScopesInv, ScopeRecords
    <2>4. QED
      BY <1>1, <2>1, <2>2, <2>3
  <1>2. CASE Named(n) # {}
    <2>1. ScopeRow(n, t) \in Named(n)
      BY <1>2 DEF ScopeRow
    <2>2. \A r, q \in scopes : r.name = q.name \/ r.id = q.id => r = q
      BY DEF ScopesInv, ScopesWhole
    <2>3. QED
      BY <1>2, <2>1, <2>2 DEF Named
  <1>3. QED
    BY <1>1, <1>2

LEMMA SetScopeWhole ==
  ASSUME ScopesInv, NEW n \in ScopeNames, NEW as \in (SUBSET Areas) \ {{}}, NEW t \in Times,
         SetScope(n, as, t)
  PROVE  /\ ScopesWhole'
         /\ (scopes \subseteq ScopeRecords)'
         /\ nextScopeId' \in Nat
         /\ \A r \in scopes' : r.id < nextScopeId'
         /\ \A r \in scopes, q \in scopes' : r.name = q.name => r = q
  <1> DEFINE row == ScopeRow(n, t)
  <1>1. PICK w : w = row
    OBVIOUS
  <1>2. /\ w.name = n
        /\ Named(n) # {} => Named(n) = {w} /\ w \in scopes
        /\ Named(n) = {} => w = [id |-> nextScopeId, name |-> n, created |-> t]
        /\ \A r \in scopes \ Named(n) : r.id # w.id
    BY <1>1, ScopeRowFits
  <1>3. /\ scopes' = (scopes \ Named(n)) \cup {w}
        /\ scopeAreas' = {e \in scopeAreas : e[1] # w.id} \cup ({w.id} \X as)
        /\ nextScopeId' = IF Named(n) = {} THEN nextScopeId + 1 ELSE nextScopeId
    BY <1>1 DEF SetScope
  <1> HIDE DEF row
  <1>4. \A r, q \in scopes : r.name = q.name \/ r.id = q.id => r = q
    BY DEF ScopesInv, ScopesWhole
  <1>5. w \in ScopeRecords /\ w.id < nextScopeId' /\ nextScopeId' \in Nat /\ nextScopeId <= nextScopeId'
    <2>1. CASE Named(n) = {}
      BY <1>2, <1>3, <2>1 DEF ScopesInv, ScopeRecords
    <2>2. CASE Named(n) # {}
      BY <1>2, <1>3, <2>2 DEF ScopesInv, ScopeRecords
    <2>3. QED
      BY <2>1, <2>2
  <1>6. scopes' \subseteq ScopeRecords
    BY <1>3, <1>5 DEF ScopesInv
  <1>7. \A r \in scopes' : r.id < nextScopeId'
    BY <1>3, <1>5 DEF ScopesInv, ScopeRecords
  <1>8. \A r, q \in scopes' : r.name = q.name \/ r.id = q.id => r = q
    BY <1>2, <1>3, <1>4 DEF Named
  <1>9. ASSUME NEW e \in scopeAreas'
        PROVE  \E r \in scopes' : r.id = e[1]
    <2>1. CASE e \in {w.id} \X as
      BY <1>3, <2>1
    <2>2. CASE e \in scopeAreas /\ e[1] # w.id
      <3>1. PICK r \in scopes : r.id = e[1]
        BY <2>2 DEF ScopesInv, ScopesWhole
      <3>2. r \notin Named(n)
        BY <1>2, <2>2, <3>1
      <3>3. QED
        BY <1>3, <3>1, <3>2
    <2>3. QED
      BY <1>3, <2>1, <2>2
  <1>10. ASSUME NEW r \in scopes'
         PROVE  \E e \in scopeAreas' : e[1] = r.id
    <2>1. CASE r = w
      <3>1. PICK a \in as : TRUE
        <4>1. as # {}
          OBVIOUS
        <4>2. QED
          BY <4>1
      <3>2. <<w.id, a>> \in scopeAreas'
        BY <1>3, <3>1
      <3>3. QED
        BY <2>1, <3>2
    <2>2. CASE r # w
      <3>1. r \in scopes /\ r.id # w.id
        BY <1>2, <1>3, <2>2
      <3>2. PICK e \in scopeAreas : e[1] = r.id
        BY <3>1 DEF ScopesInv, ScopesWhole, AreaSet
      <3>3. QED
        BY <1>3, <3>1, <3>2
    <2>3. QED
      BY <2>1, <2>2
  <1>11. \A r \in scopes' : AreaSet(r)' # {}
    BY <1>10 DEF AreaSet
  <1>12. \A r \in scopes, q \in scopes' : r.name = q.name => r = q
    BY <1>2, <1>3, <1>4 DEF Named
  <1>13. QED
    BY <1>5, <1>6, <1>7, <1>8, <1>9, <1>11, <1>12 DEF ScopesWhole

LEMMA LookScopeInv ==
  ASSUME ScopesInv, NEW u \in Defining, LookScope(u)
  PROVE  ScopesInv'
  <1>1. PICK n \in ScopeNames, as \in (SUBSET Areas) \ {{}}, force \in BOOLEAN, now \in Times :
           define' = [define EXCEPT ![u] =
             [at |-> "write", name |-> n, areas |-> as, force |-> force,
              created |-> IF Named(n) = {} THEN now ELSE (CHOOSE r \in Named(n) : TRUE).created]]
    BY DEF LookScope
  <1>2. (IF Named(n) = {} THEN now ELSE (CHOOSE r \in Named(n) : TRUE).created) \in Times
    BY DEF ScopesInv, ScopeRecords, Named
  <1>3. define' \in [Defining -> {NoDefine} \cup DefineRecords]
    <2>1. PICK c \in Times :
             c = IF Named(n) = {} THEN now ELSE (CHOOSE r \in Named(n) : TRUE).created
      BY <1>2
    <2>2. [at |-> "write", name |-> n, areas |-> as, force |-> force, created |-> c] \in DefineRecords
      BY DEF DefineRecords
    <2>3. QED
      BY <1>1, <2>1, <2>2 DEF ScopesInv
  <1>4. UNCHANGED scopeTables
    BY DEF LookScope
  <1>5. QED
    BY <1>3, <1>4 DEF ScopesInv, ScopesWhole, AreaSet, scopeTables

LEMMA WriteScopeIs ==
  ASSUME ScopesInv, NEW u \in Defining, WriteScope(u)
  PROVE  \E n \in ScopeNames, as \in (SUBSET Areas) \ {{}}, t \in Times : SetScope(n, as, t)
  <1>1. define[u] \in DefineRecords
    BY DEF ScopesInv, WriteScope, NoDefine
  <1>2. QED
    BY <1>1 DEF WriteScope, DefineRecords

LEMMA WriteScopeInv ==
  ASSUME ScopesInv, NEW u \in Defining, WriteScope(u)
  PROVE  ScopesInv'
  <1>1. PICK n \in ScopeNames, as \in (SUBSET Areas) \ {{}}, t \in Times : SetScope(n, as, t)
    BY WriteScopeIs
  <1>2. define' \in [Defining -> {NoDefine} \cup DefineRecords]
    BY DEF WriteScope, ScopesInv
  <1>3. QED
    BY <1>1, <1>2, SetScopeWhole DEF ScopesInv

LEMMA RemoveScopeInv ==
  ASSUME ScopesInv, RemoveScope
  PROVE  ScopesInv' /\ scopes' \subseteq scopes
  <1>1. PICK n \in ScopeNames : DeleteScope(n)
    BY DEF RemoveScope
  <1>2. \A r, q \in scopes : r.name = q.name \/ r.id = q.id => r = q
    BY DEF ScopesInv, ScopesWhole
  <1>3. ASSUME NEW e \in scopeAreas'
        PROVE  \E r \in scopes' : r.id = e[1]
    BY <1>1 DEF DeleteScope, ScopesInv, ScopesWhole
  <1>4. ASSUME NEW r \in scopes'
        PROVE  \E e \in scopeAreas' : e[1] = r.id
    <2>1. r \in scopes /\ r \notin Named(n)
      BY <1>1 DEF DeleteScope
    <2>2. PICK e \in scopeAreas : e[1] = r.id
      BY <2>1 DEF ScopesInv, ScopesWhole, AreaSet
    <2>3. e \in scopeAreas'
      BY <1>1, <1>2, <2>1, <2>2 DEF DeleteScope, Named
    <2>4. QED
      BY <2>2, <2>3
  <1>5. \A r \in scopes' : AreaSet(r)' # {}
    BY <1>4 DEF AreaSet
  <1>6. QED
    BY <1>1, <1>2, <1>3, <1>5 DEF ScopesInv, ScopesWhole, DeleteScope, RemoveScope

LEMMA EndingScopes ==
  ASSUME ScopesInv, NEW s \in Sessions, Ending(s)
  PROVE  ScopesInv'
  BY SessionsAssumption DEF Ending, ScopesInv, ScopesWhole, AreaSet, scopeTables

-----------------------------------------------------------------------------
(* The invariant. *)

LEMMA SessionsInvInit == SessionsInit => SessionsInv
  <1> SUFFICES ASSUME SessionsInit PROVE SessionsInv
    OBVIOUS
  <1>1. db \in [Databases -> DatabaseRecords] /\ DatabasesSound /\ db["meta"].version # Current
    <2> DEFINE none == Database(FALSE, Fresh)
               empty == Database(TRUE, Fresh)
               old == Database(TRUE, Old)
               new == Database(TRUE, Current)
    <2>1. /\ none.file = FALSE /\ none.version = Fresh /\ none.tables = FALSE
          /\ empty.file = TRUE /\ empty.version = Fresh /\ empty.tables = FALSE
          /\ old.file = TRUE /\ old.version = Old /\ old.tables = TRUE
          /\ new.file = TRUE /\ new.version = Current /\ new.tables = TRUE
          /\ {none, empty, old, new} \subseteq DatabaseRecords
      <3>1. (Fresh # Fresh) = FALSE /\ (Old # Fresh) = TRUE /\ (Current # Fresh) = TRUE
        BY DEF Fresh, Old, Current
      <3>2. /\ none = [file |-> FALSE, version |-> Fresh, tables |-> FALSE, wal |-> FALSE]
            /\ empty = [file |-> TRUE, version |-> Fresh, tables |-> FALSE, wal |-> FALSE]
            /\ old = [file |-> TRUE, version |-> Old, tables |-> TRUE, wal |-> TRUE]
            /\ new = [file |-> TRUE, version |-> Current, tables |-> TRUE, wal |-> TRUE]
        BY <3>1 DEF Database
      <3> HIDE DEF none, empty, old, new
      <3>3. QED
        BY <3>2 DEF DatabaseRecords, Versions
    <2> HIDE DEF none, empty, old, new
    <2>2. PICK b \in {none, empty, old, new}, m \in {none, empty, old} :
             db = [d \in Databases |-> IF d = "blob" THEN b ELSE m]
      <3>1. CASE db = [d \in Databases |-> Database(FALSE, Fresh)]
        BY <3>1 DEF Databases, none
      <3>2. CASE ~ (db = [d \in Databases |-> Database(FALSE, Fresh)])
        BY <3>2 DEF SessionsInit, OpenInit, Remains, none, empty, old, new
      <3>3. QED
        BY <3>1, <3>2
    <2>3. QED
      BY <2>1, <2>2 DEF DatabasesSound, Databases, Fresh, Old, Current
  <1>2. Away \in SessionRecords /\ KnowsDatabases(Away)
    BY DEF Away, SessionRecords, Databases, Versions, KnowsDatabases, Ended
  <1>3. session = [s \in Sessions |-> Away] /\ writer = [d \in Databases |-> Nobody]
    BY DEF SessionsInit, OpenInit
  <1>4. WritersSound
    BY <1>3, StoreOpenAssumption DEF WritersSound, Away
  <1>5. OpenInv
    BY <1>1, <1>2, <1>3, <1>4 DEF OpenInv, OpenTypes
  <1>6. TablesInv
    BY <1>1 DEF TablesInv, SessionsInit
  <1>7. CreateInv
    BY NoCreateRecord DEF SessionsInit, RefsInit, CreateInv, NoCreate
  <1>8. ScopesInv
    BY DEF SessionsInit, ScopesInit, ScopesInv, ScopesWhole, DefineRecords
  <1>9. QED
    BY <1>5, <1>6, <1>7, <1>8 DEF SessionsInv

LEMMA SessionsInvStep == SessionsInv /\ [SessionsNext]_sessionsVars => SessionsInv'
  <1> SUFFICES ASSUME SessionsInv, [SessionsNext]_sessionsVars
               PROVE  SessionsInv'
    OBVIOUS
  <1> USE DEF SessionsInv
  <1>1. ASSUME NEW s \in Sessions, Opening(s) \/ Ending(s)
        PROVE  SessionsInv'
    <2>1. OpenInv' /\ TablesInv'
      BY <1>1, OpenSteps, TablesOpening
    <2>2. CreateInv'
      <3>1. CASE UNCHANGED create
        BY <3>1 DEF CreateInv
      <3>2. CASE create' = [create EXCEPT ![s] = NoCreate]
        BY <3>2, NoCreateRecord, SessionsAssumption DEF CreateInv, NoCreate
      <3>3. QED
        BY <1>1, <3>1, <3>2 DEF Opening, Ending
    <2>3. ScopesInv'
      <3>1. CASE Ending(s)
        BY <3>1, EndingScopes
      <3>2. CASE UNCHANGED scopeVars
        BY <3>2 DEF ScopesInv, ScopesWhole, AreaSet, scopeVars, scopeTables
      <3>3. QED
        BY <1>1, <3>1, <3>2 DEF Opening
    <2>4. QED
      BY <2>1, <2>2, <2>3
  <1>2. ASSUME NEW s \in Sessions, NamingRef(s)
        PROVE  SessionsInv'
    <2>1. OpenInv'
      BY <1>2 DEF NamingRef, openVars, OpenInv, OpenTypes, DatabasesSound, WritersSound, KnowsDatabases
    <2>2. ScopesInv'
      BY <1>2 DEF NamingRef, ScopesInv, ScopesWhole, AreaSet, scopeVars, scopeTables
    <2>3. QED
      BY <1>2, <2>1, <2>2, NamingRefCreate, NamingRefTables
  <1>3. ASSUME NEW s \in Sessions, NamingScope(s)
        PROVE  SessionsInv'
    <2>1. OpenInv' /\ CreateInv'
      BY <1>3 DEF NamingScope, openVars, OpenInv, OpenTypes, DatabasesSound, WritersSound,
         KnowsDatabases, CreateInv
    <2>2. TablesInv'
      BY <1>3, TablesStutter DEF NamingScope, openVars
    <2>3. ScopesInv'
      BY <1>3, SessionsAssumption, LookScopeInv, WriteScopeInv DEF NamingScope
    <2>4. QED
      BY <2>1, <2>2, <2>3
  <1>4. CASE Calling
    <2>1. PICK s \in Sessions : IsOpen(s)
      BY <1>4 DEF Calling
    <2>2. OpenInv' /\ CreateInv'
      BY <1>4 DEF Calling, openVars, OpenInv, OpenTypes, DatabasesSound, WritersSound,
         KnowsDatabases, CreateInv
    <2>3. TablesInv'
      BY <1>4, <2>1, OpenCurrent, TablesCall, TablesStutter DEF Calling, openVars
    <2>4. ScopesInv'
      <3>1. CASE RemoveScope
        BY <3>1, RemoveScopeInv
      <3>2. CASE UNCHANGED scopeVars
        BY <3>2 DEF ScopesInv, ScopesWhole, AreaSet, scopeVars, scopeTables
      <3>3. QED
        BY <1>4, <3>1, <3>2 DEF Calling
    <2>5. QED
      BY <2>2, <2>3, <2>4
  <1>5. CASE UNCHANGED sessionsVars
    <2>1. OpenInv' /\ CreateInv'
      BY <1>5 DEF sessionsVars, openVars, OpenInv, OpenTypes, DatabasesSound, WritersSound,
         KnowsDatabases, CreateInv
    <2>2. TablesInv'
      BY <1>5, TablesStutter DEF sessionsVars, openVars
    <2>3. ScopesInv'
      BY <1>5 DEF sessionsVars, scopeVars, scopeTables, ScopesInv, ScopesWhole, AreaSet
    <2>4. QED
      BY <2>1, <2>2, <2>3
  <1>6. QED
    BY <1>1, <1>2, <1>3, <1>4, <1>5 DEF SessionsNext

-----------------------------------------------------------------------------
(* What the runs check. *)

\* Of any number of processes that open one store at once, over whatever was
\* in its directory, none is refused for what the others do: a refusal is
\* over a database of another schema version, never over tables created by
\* somebody else meanwhile (the gate of SqliteBlob::open and SqliteMeta::open,
\* and their second look at the version under the write lock).
THEOREM RefusedForCauseCorrect == SessionsSpec => []RefusedForCause
  <1>1. SessionsInv => RefusedForCause
    <2> SUFFICES ASSUME SessionsInv, NEW s \in Sessions, session[s].at = "refused"
                 PROVE  db[session[s].on].version = Old
      BY DEF RefusedForCause
    <2>1. KnowsDatabases(session[s])
      BY DEF SessionsInv, OpenInv
    <2>2. QED
      BY <2>1 DEF KnowsDatabases
  <1>2. QED
    BY <1>1, SessionsInvInit, SessionsInvStep, PTL DEF SessionsSpec

\* Who has the store open sees both databases with the current schema and
\* one active ref, whoever created them and died over it.
THEOREM OpenCompleteCorrect == SessionsSpec => []OpenComplete
  <1>1. SessionsInv => OpenComplete
    <2> SUFFICES ASSUME SessionsInv, NEW s \in Sessions, IsOpen(s)
                 PROVE  /\ \A d \in Databases : db[d].file /\ db[d].version = Current
                        /\ OneActiveRef
      BY DEF OpenComplete
    <2>1. PICK r \in SessionRecords : r = session[s]
      BY DEF SessionsInv, OpenInv, OpenTypes
    <2>2. db["meta"].version = Current /\ db["blob"].version = Current
      BY <2>1 DEF SessionsInv, OpenInv, KnowsDatabases, IsOpen, SessionRecords
    <2>3. OneActiveRef
      BY <2>2 DEF SessionsInv, TablesInv, PortInv
    <2>4. \A d \in Databases : db[d].file
      BY <2>2 DEF SessionsInv, OpenInv, DatabasesSound, Databases, Fresh, Current
    <2>5. QED
      BY <2>2, <2>3, <2>4 DEF Databases
  <1>2. QED
    BY <1>1, SessionsInvInit, SessionsInvStep, PTL DEF SessionsSpec

\* A database file appears only as an `init` connects: no other command
\* makes a store, whatever an earlier init left behind.
THEOREM InitMaterializesCorrect == SessionsSpec => InitMaterializes
  <1> DEFINE Made == \A d \in Databases :
                       ~ db[d].file /\ db'[d].file =>
                         \E s \in Sessions : session[s].mode = "init" /\ Connect(s)
  <1>1. SessionsInv /\ [SessionsNext]_sessionsVars => Made
    <2> SUFFICES ASSUME SessionsInv, [SessionsNext]_sessionsVars, NEW d \in Databases,
                        ~ db[d].file, db'[d].file
                 PROVE  \E s \in Sessions : session[s].mode = "init" /\ Connect(s)
      OBVIOUS
    <2>1. PICK s \in Sessions : Connect(s) \/ Switch(s) \/ CreateSchema(s)
      BY DEF SessionsNext, Opening, Ending, NamingRef, NamingScope, Calling, OpenStep, Start,
         ConnectBusy, WakeUp, ReadVersion, BeginImmediate, WaitOut, RereadVersion, LeaveTransaction, PassGate, Leave,
         openVars, sessionsVars
    <2>2. PICK r \in SessionRecords : r = session[s] /\ KnowsDatabases(r)
      BY DEF SessionsInv, OpenInv, OpenTypes
    <2>3. CASE CreateSchema(s)
      <3>1. db[r.on].file
        BY <2>2, <2>3 DEF KnowsDatabases, CreateSchema
      <3>2. d # r.on
        BY <3>1
      <3>3. db'[d] = db[d]
        BY <2>2, <2>3, <3>2 DEF CreateSchema, SessionsInv, OpenInv, OpenTypes
      <3>4. QED
        BY <3>3
    <2>4. CASE Connect(s)
      <3>1. r.mode # "open"
        BY <2>2, <2>4 DEF KnowsDatabases, Ended, Connect
      <3>2. QED
        BY <2>2, <2>4, <3>1 DEF SessionRecords
    <2>5. CASE Switch(s)
      BY <2>2, <2>5 DEF Switch, SessionsInv, OpenInv, OpenTypes, DatabaseRecords
    <2>6. QED
      BY <2>1, <2>3, <2>4, <2>5
  <1>2. SessionsInv /\ [SessionsNext]_sessionsVars
          => [\A d \in Databases :
                ~ db[d].file /\ db[d].file' =>
                  \E s \in Sessions : session[s].mode = "init" /\ Connect(s)]_sessionsVars
    BY <1>1
  <1>3. QED
    BY <1>2, SessionsInvInit, SessionsInvStep, PTL DEF SessionsSpec, InitMaterializes

\* No area without its scope, no scope without an area, and one row per
\* name and per id, under racing and forced set_scope calls and deletions.
THEOREM ScopesWholeCorrect == SessionsSpec => []ScopesWhole
  <1>1. SessionsInv => ScopesWhole
    BY DEF SessionsInv, ScopesInv
  <1>2. QED
    BY <1>1, SessionsInvInit, SessionsInvStep, PTL DEF SessionsSpec

\* ON CONFLICT(name) DO NOTHING keeps a scope's row, its id and creation
\* time, as long as the name is taken, whoever wins the race to create it.
THEOREM CreationKeptCorrect == SessionsSpec => CreationKept
  <1>1. SessionsInv /\ [SessionsNext]_sessionsVars
          => [\A r \in scopes, q \in scopes' : r.name = q.name => r = q]_scopeVars
    <2> SUFFICES ASSUME SessionsInv, [SessionsNext]_sessionsVars
                 PROVE  \A r \in scopes, q \in scopes' : r.name = q.name => r = q
      OBVIOUS
    <2>1. ScopesInv /\ \A r, q \in scopes : r.name = q.name => r = q
      BY DEF SessionsInv, ScopesInv, ScopesWhole
    <2>2. ASSUME NEW u \in Defining, WriteScope(u)
          PROVE  \A r \in scopes, q \in scopes' : r.name = q.name => r = q
      <3>1. PICK n \in ScopeNames, as \in (SUBSET Areas) \ {{}}, t \in Times : SetScope(n, as, t)
        BY <2>1, <2>2, WriteScopeIs
      <3>2. QED
        BY <2>1, <3>1, SetScopeWhole
    <2>3. CASE RemoveScope
      BY <2>1, <2>3, RemoveScopeInv
    <2>4. CASE UNCHANGED scopes
      BY <2>1, <2>4
    <2>5. QED
      BY <2>2, <2>3, <2>4, SessionsAssumption DEF SessionsNext, Opening, Ending, NamingRef,
         NamingScope, LookScope, Calling, sessionsVars, scopeVars, scopeTables
  <1>2. QED
    BY <1>1, SessionsInvInit, SessionsInvStep, PTL DEF SessionsSpec, CreationKept
=============================================================================
