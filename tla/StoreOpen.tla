----------------------------- MODULE StoreOpen -------------------------------
(***************************************************************************)
(* Opening a store (storage-sqlite: sqlite.rs and the two `open`s): two    *)
(* databases, the blobs' first, each created by whoever finds it without   *)
(* a schema.  Openers are separate processes; what excludes them is the    *)
(* write lock of a database and, while a connection switches a new file to *)
(* WAL or replays the log of one that died, an exclusive lock no connection*)
(* waits for: it fails with SQLITE_BUSY, and connect_pool tries again.     *)
(* A process may die anywhere, which rolls an open transaction back.       *)
(***************************************************************************)
EXTENDS MetaStore

CONSTANTS
  Sessions,   \* processes that use the store
  Nobody,     \* holds no lock
  OldStores,  \* may files be there at first, empty or of another schema version?
  MaxRetries  \* bound on the retries before the deadline of connect_pool

ASSUME StoreOpenAssumption == Nobody \notin Sessions /\ MaxRetries \in Nat

VARIABLES
  db,       \* per database: its file, and what is committed in it
  writer,   \* per database: the session inside BEGIN IMMEDIATE
  switcher, \* per database: the session that has the file to itself
  session   \* per session: how far it is

openVars == <<db, writer, switcher, session>>

Databases == {"blob", "meta"}

Fresh == 0      \* PRAGMA user_version of an empty file
Old == 1        \* of a store this program does not read
Current == 2    \* SCHEMA_VERSION

\* A database with a schema has been switched to WAL by who created it.
Database(file, version) ==
  [file |-> file, version |-> version, tables |-> version # Fresh, wal |-> version # Fresh]

Away == [at |-> "away", mode |-> "open", on |-> "blob", version |-> Fresh, tries |-> 0]

Goto(s, r) == session' = [session EXCEPT ![s] = r]

\* What a directory may hold before: nothing, empty files, and databases of
\* another schema version, in any combination.
Remains == {Database(FALSE, Fresh), Database(TRUE, Fresh), Database(TRUE, Old)}

OpenInit ==
  /\ \/ db = [d \in Databases |-> Database(FALSE, Fresh)]
     \/ /\ OldStores
        /\ \E b \in Remains \cup {Database(TRUE, Current)}, m \in Remains :
             db = [d \in Databases |-> IF d = "blob" THEN b ELSE m]
  /\ writer = [d \in Databases |-> Nobody]
  /\ switcher = [d \in Databases |-> Nobody]
  /\ session = [s \in Sessions |-> Away]

\* Slip: the blob database stands for both.
StartOnBlob(s, mode) ==
  /\ session[s].at = "away"
  /\ Goto(s, IF mode = "init" \/ db["blob"].file
             THEN [Away EXCEPT !.at = "connect", !.mode = mode]
             ELSE [Away EXCEPT !.at = "missing"])
  /\ UNCHANGED <<metaVars, db, writer, switcher>>

\* init_sqlite makes the directory; open_sqlite asks for both files.
Start(s, mode) ==
  /\ session[s].at = "away"
  /\ Goto(s, IF mode = "init" \/ \A d \in Databases : db[d].file
             THEN [Away EXCEPT !.at = "connect", !.mode = mode]
             ELSE [Away EXCEPT !.at = "missing"])
  /\ UNCHANGED <<metaVars, db, writer, switcher>>

Ended == {"away", "refused", "missing", "busy"}

\* A session keeps its connection to the blobs while it opens the metadata.
Connected(s, d) ==
  /\ session[s].at \notin Ended
  /\ IF session[s].on = d THEN session[s].at \notin {"connect", "sleep", "switch"}
     ELSE d = "blob"

\* One turn of connect_pool: the connection creates a missing file.  It goes
\* on if the file is in WAL already.  If it is not, or if this is the first
\* connection and has the log of one that died to replay, it takes the file
\* for itself.
Connect(s) ==
  LET r == session[s]
  IN  /\ r.at = "connect"
      /\ switcher[r.on] = Nobody
      /\ db' = [db EXCEPT ![r.on].file = TRUE]
      /\ \/ /\ db[r.on].wal
            /\ Goto(s, [r EXCEPT !.at = "version", !.tries = 0])
            /\ UNCHANGED switcher
         \/ /\ \A u \in Sessions : ~ Connected(u, r.on)
            /\ switcher' = [switcher EXCEPT ![r.on] = s]
            /\ Goto(s, [r EXCEPT !.at = "switch", !.tries = 0])
      /\ UNCHANGED <<metaVars, writer>>

Switch(s) ==
  LET r == session[s]
  IN  /\ r.at = "switch"
      /\ db' = [db EXCEPT ![r.on].wal = TRUE]
      /\ switcher' = [switcher EXCEPT ![r.on] = Nobody]
      /\ Goto(s, [r EXCEPT !.at = "version"])
      /\ UNCHANGED <<metaVars, writer>>

\* Slip: the deadline is set in the loop, anew for each turn.
ConnectBusyAnew(s) ==
  LET r == session[s]
  IN  /\ r.at = "connect"
      /\ switcher[r.on] # Nobody
      /\ Goto(s, [r EXCEPT !.at = "sleep"])
      /\ UNCHANGED <<metaVars, db, writer, switcher>>

\* The connection meets SQLITE_BUSY.  Before the deadline it sleeps and
\* tries again; past it the error is reported.  How many turns the deadline
\* leaves depends on the scheduler: any number up to the bound.
ConnectBusy(s) ==
  LET r == session[s]
  IN  /\ r.at = "connect"
      /\ switcher[r.on] # Nobody
      /\ \/ /\ r.tries < MaxRetries
            /\ Goto(s, [r EXCEPT !.at = "sleep", !.tries = @ + 1])
         \/ Goto(s, [Away EXCEPT !.at = "busy"])
      /\ UNCHANGED <<metaVars, db, writer, switcher>>

WakeUp(s) ==
  LET r == session[s]
  IN  /\ r.at = "sleep"
      /\ Goto(s, [r EXCEPT !.at = "connect"])
      /\ UNCHANGED <<metaVars, db, writer, switcher>>

\* Slip: open_sqlite saw the file, so the store is taken to be there.
TrustFile(s) ==
  LET r == session[s]
      v == IF r.mode = "open" THEN Current ELSE db[r.on].version
  IN  /\ r.at = "version"
      /\ Goto(s, [r EXCEPT !.at = IF v = Fresh THEN "begin" ELSE "gate", !.version = v])
      /\ UNCHANGED <<metaVars, db, writer, switcher>>

ReadVersion(s) ==
  LET r == session[s]
      v == db[r.on].version
  IN  /\ r.at = "version"
      /\ Goto(s, [r EXCEPT !.at = IF v = Fresh THEN "begin" ELSE "gate", !.version = v])
      /\ UNCHANGED <<metaVars, db, writer, switcher>>

\* BEGIN IMMEDIATE waits for the writer before it.
BeginImmediate(s) ==
  LET r == session[s]
  IN  /\ r.at = "begin"
      /\ writer[r.on] = Nobody
      /\ writer' = [writer EXCEPT ![r.on] = s]
      /\ Goto(s, [r EXCEPT !.at = "reread"])
      /\ UNCHANGED <<metaVars, db, switcher>>

\* The busy timeout: the opener reports that the database is locked.
WaitOut(s) ==
  LET r == session[s]
  IN  /\ r.at = "begin"
      /\ writer[r.on] # Nobody
      /\ Goto(s, [Away EXCEPT !.at = "busy"])
      /\ UNCHANGED <<metaVars, db, writer, switcher>>

\* Slip: the version read before the lock is trusted.
TrustVersion(s) ==
  LET r == session[s]
  IN  /\ r.at = "reread"
      /\ Goto(s, [r EXCEPT !.at = "create"])
      /\ UNCHANGED <<metaVars, db, writer, switcher>>

\* Under the lock the version is read again: another opener may have
\* created the schema meanwhile.
RereadVersion(s) ==
  LET r == session[s]
      v == db[r.on].version
  IN  /\ r.at = "reread"
      /\ Goto(s, [r EXCEPT !.at = IF v = Fresh THEN "create" ELSE "leave", !.version = v])
      /\ UNCHANGED <<metaVars, db, writer, switcher>>

\* Nothing to create: the transaction ends.
LeaveTransaction(s) ==
  LET r == session[s]
  IN  /\ r.at = "leave"
      /\ writer' = [writer EXCEPT ![r.on] = Nobody]
      /\ Goto(s, [r EXCEPT !.at = "gate"])
      /\ UNCHANGED <<metaVars, db, switcher>>

\* The tables, the first ref and the version, committed together.  The
\* metadata schema does not say IF NOT EXISTS: over tables that are there
\* it fails.
CreateSchema(s) ==
  LET r == session[s]
      clash == r.on = "meta" /\ db[r.on].tables
  IN  /\ r.at = "create"
      /\ writer' = [writer EXCEPT ![r.on] = Nobody]
      /\ UNCHANGED switcher
      /\ IF clash
         THEN /\ Goto(s, [r EXCEPT !.at = "refused"])
              /\ UNCHANGED <<metaVars, db, switcher>>
         ELSE /\ Goto(s, [r EXCEPT !.at = "gate", !.version = Current])
              /\ db' = [db EXCEPT ![r.on] = Database(TRUE, Current)]
              /\ IF r.on = "meta"
                 THEN /\ target' = [target EXCEPT ![Main] = Unborn]
                      /\ activeRefs' = {Main}
                      /\ UNCHANGED <<seq, nextSeq, commitParents, chunkHistory, assigned, hashed>>
                 ELSE UNCHANGED metaVars

\* The gate on the version; behind it the next database, or the store.
PassGate(s) ==
  LET r == session[s]
  IN  /\ r.at = "gate"
      /\ Goto(s, IF r.version # Current THEN [r EXCEPT !.at = "refused"]
                 ELSE IF r.on = "blob" THEN [r EXCEPT !.at = "connect", !.on = "meta"]
                 ELSE [r EXCEPT !.at = "open"])
      /\ UNCHANGED <<metaVars, db, writer, switcher>>

\* The process ends: it is done, an error is reported, or it dies.
Leave(s) ==
  /\ session[s].at # "away"
  /\ writer' = [d \in Databases |-> IF writer[d] = s THEN Nobody ELSE writer[d]]
  /\ switcher' = [d \in Databases |-> IF switcher[d] = s THEN Nobody ELSE switcher[d]]
  /\ Goto(s, Away)
  /\ UNCHANGED <<metaVars, db>>

OpenStep(s) ==
  \/ Connect(s) \/ Switch(s) \/ ConnectBusy(s) \/ WakeUp(s)
  \/ ReadVersion(s) \/ BeginImmediate(s) \/ WaitOut(s) \/ RereadVersion(s)
  \/ LeaveTransaction(s) \/ CreateSchema(s) \/ PassGate(s)

IsOpen(s) == session[s].at = "open"
=============================================================================
