-------------------------------- MODULE Refs ---------------------------------
(***************************************************************************)
(* Creating a ref from the application (app::refs, `sekai ref create`).    *)
(* The port's set_ref creates or moves; that an existing name is refused   *)
(* without `force` is a policy of the layer above: three queries before    *)
(* the port call, each of its own.  Deleting and activating are single     *)
(* port calls.                                                             *)
(***************************************************************************)
EXTENDS MetaStore

CONSTANT Creating   \* callers of create_ref

VARIABLE create   \* per caller: how far its create_ref is.  The name and
                  \* `force` are chosen where they are first used.

NoCreate == [at |-> "idle", name |-> Main, commit |-> Unborn]

Existing == {n \in RefNames : target[n] # Absent}

Proceed(u, c) == create' = [create EXCEPT ![u] = c]

\* current_commit_id: where the active ref stands, unborn included.
ActiveCommit == {target[n] : n \in activeRefs}

\* The command resolves what the ref is to name: the reference given, or
\* without one the commit of the active ref.
PickTarget(u) ==
  /\ create[u].at = "idle"
  /\ \E t \in Resolvable \cup ActiveCommit :
       Proceed(u, [NoCreate EXCEPT !.at = "target", !.commit = t])
  /\ UNCHANGED metaVars

\* create_ref looks the commit up: an unknown one is refused.
CheckCommit(u) ==
  /\ create[u].at = "target"
  /\ Proceed(u, IF create[u].commit \in commits \cup {Unborn}
                THEN [create[u] EXCEPT !.at = "commit"]
                ELSE NoCreate)
  /\ UNCHANGED metaVars

\* Then the name: an existing one is refused, unless forced.
CheckName(u) ==
  /\ create[u].at = "commit"
  /\ \E n \in RefNames, force \in BOOLEAN :
       Proceed(u, IF n \in Existing /\ ~ force
                  THEN NoCreate
                  ELSE [create[u] EXCEPT !.at = "name", !.name = n])
  /\ UNCHANGED metaVars

\* Then the port call, which fails if the commit is gone by now.  A ref that
\* another call made since is moved, forced or not.
WriteRef(u) ==
  LET c == create[u]
  IN  /\ create[u].at = "name"
      /\ IF c.commit \in commits \cup {Unborn}
         THEN SetRef(c.name, c.commit)
         ELSE UNCHANGED metaVars
      /\ Proceed(u, NoCreate)

RefsInit == create = [u \in Creating |-> NoCreate]

RefsNext ==
  \E u \in Creating : PickTarget(u) \/ CheckCommit(u) \/ CheckName(u) \/ WriteRef(u)

CreateType ==
  \A u \in Creating :
    /\ create[u].at \in {"idle", "target", "commit", "name"}
    /\ create[u].commit \in CommitIds \cup {Unborn}

=============================================================================
