------------------------------ MODULE ChunkKeys ------------------------------
(***************************************************************************)
(* The identity of a chunk (anvil::nbt): decompress, decode, leave out     *)
(* what the server rewrites by itself, hash what is left.  Two payloads of *)
(* one key are one blob of the store, so the key decides what a commit     *)
(* records and what a checkout can bring back.                             *)
(*                                                                         *)
(* A document is a sequence of cells: the root, its members, the end.  A   *)
(* member is <<"member", key, tag, value>>; one key stands for all that    *)
(* the code treats alike.  A hash is what was hashed.                      *)
(***************************************************************************)
EXTENDS ChunkFrames, FiniteSets

CONSTANTS
  MaxEdits,     \* bound: members the server writes anew between two scans
  TypeBytes,    \* what a damaged codec byte may be
  Headers       \* what a damaged LZ4 block header may be

VARIABLES
  family,   \* "region", "poi" (entities are keyed like poi) or "none"
  before,   \* the document when it was scanned first
  now,      \* the document now
  edits,
  payload,  \* now, as it is stored
  damage    \* "none", "cut" or "altered"

keyVars == <<family, before, now, edits, payload, damage>>

NoPayload == [byte |-> 0, body |-> <<>>]

RootCell == <<"root">>
EndCell == <<"end">>
Member(k, tag, v) == <<"member", k, tag, v>>

IsMember(cell) == cell[1] = "member"

-----------------------------------------------------------------------------
(* Decoding. *)

Ends(cells) == {n \in DOMAIN cells : cells[n] = EndCell}
FirstEnd(cells) == CHOOSE n \in Ends(cells) : \A m \in Ends(cells) : n <= m

\* validate_nbt: one complete compound; what follows it is not looked at.
WellFormed(cells) ==
  /\ cells # <<>> /\ cells[1] = RootCell
  /\ Ends(cells) # {}
  /\ \A i \in 2 .. FirstEnd(cells) - 1 : IsMember(cells[i])

MembersOf(cells) == [i \in 1 .. FirstEnd(cells) - 2 |-> cells[i + 1]]

\* Both spellings are one field (alias), so having both is having it twice.
FieldOf(k) == IF k = "status" THEN "Status" ELSE k

Having(ms, field) == {i \in DOMAIN ms : FieldOf(ms[i][2]) = field}

\* The derived decoder: a declared field must have its tag and come once;
\* a required one must come; others are skipped.
Decodes(ms, schema, required) ==
  /\ \A f \in DOMAIN schema :
       /\ Cardinality(Having(ms, f)) <= 1
       /\ \A i \in Having(ms, f) : ms[i][3] = schema[f]
  /\ \A f \in required : Having(ms, f) # {}

ValueOf(ms, field, default) ==
  IF Having(ms, field) = {} THEN default
  ELSE ms[CHOOSE i \in Having(ms, field) : TRUE][4]

\* An opaque compound: no bytes at all stand for an absent one.
Raw(ms, field) ==
  IF Having(ms, field) = {} THEN <<>> ELSE <<ValueOf(ms, field, {})>>

\* Sections, their palettes and height maps are read by hand: unknown
\* members and wrong tags are skipped, the rest is default.
ReadSection(s) ==
  [y |-> IF \E m \in s : m[1] = "Y" /\ m[2] = "byte"
         THEN (CHOOSE m \in s : m[1] = "Y" /\ m[2] = "byte")[3] ELSE 0]

ModernSchema == [DataVersion |-> "int", Status |-> "string", LastUpdate |-> "long",
                 sections |-> "list", structures |-> "compound", isLightOn |-> "byte"]

ModernRequired == {"DataVersion", "Status", "LastUpdate", "sections"}

LegacySchema == [Level |-> "compound", DataVersion |-> "int"]

LevelSchema == [DataVersion |-> "int", LastUpdate |-> "long", TerrainPopulated |-> "byte",
                TileEntities |-> "list"]

ModernDecodes(ms) == Decodes(ms, ModernSchema, ModernRequired)

LegacyDecodes(ms) ==
  /\ Decodes(ms, LegacySchema, {"Level"})
  /\ Decodes(ValueOf(ms, "Level", <<>>), LevelSchema, {})

-----------------------------------------------------------------------------
(* Keys. *)

\* The normalized view: volatile members are not in it, defaults are.
ModernView(ms) ==
  {<<"DataVersion", ValueOf(ms, "DataVersion", 0)>>,
   <<"Status", ValueOf(ms, "Status", "")>>,
   <<"sections", [i \in DOMAIN ValueOf(ms, "sections", <<>>) |->
                    ReadSection(ValueOf(ms, "sections", <<>>)[i])]>>,
   <<"isLightOn", ValueOf(ms, "isLightOn", 0)>>}
    \cup IF Raw(ms, "structures") = <<>> THEN {}
         ELSE {<<"structures", Raw(ms, "structures")[1]>>}

LegacyView(ms) ==
  LET level == ValueOf(ms, "Level", <<>>)
      tiles == ValueOf(level, "TileEntities", <<>>)
  IN {<<"data_version", ValueOf(ms, "DataVersion", 0)>>,
      <<"terrain_populated", ValueOf(level, "TerrainPopulated", 0)>>}
       \cup IF tiles = <<>> THEN {} ELSE {<<"block_entities", tiles>>}

NoKey == {}

\* Slip: a payload that is no chunk is keyed by its bytes.
ChunkKeyOrBytes(f, cells) ==
  IF f = "region" /\ WellFormed(cells) /\ ModernDecodes(MembersOf(cells))
  THEN ModernView(MembersOf(cells))
  ELSE IF f = "region" /\ WellFormed(cells) /\ LegacyDecodes(MembersOf(cells))
  THEN LegacyView(MembersOf(cells))
  ELSE {<<"bytes", cells>>}

\* chunk_key and parse: the modern shape first, the legacy one when it does
\* not decode.
ChunkKey(f, cells) ==
  LET ms == MembersOf(cells) IN
  IF ~ WellFormed(cells) THEN NoKey
  ELSE IF f # "region" THEN {<<"bytes", cells>>}
  ELSE IF ModernDecodes(ms) THEN ModernView(ms)
  ELSE IF LegacyDecodes(ms) THEN LegacyView(ms)
  ELSE NoKey

\* Chunk::normalized_hash
KeyOf(f, p) ==
  LET bytes == Decompress(p) IN IF bytes.ok THEN ChunkKey(f, bytes.out) ELSE NoKey

-----------------------------------------------------------------------------
(* The game server and the disk. *)

Document(ms) == <<RootCell>> \o ms \o <<EndCell>>

ModernChunk ==
  <<Member("DataVersion", "int", 1), Member("Status", "string", "full"),
    Member("LastUpdate", "long", 1), Member("sections", "list", <<{}>>)>>

LegacyChunk ==
  <<Member("Level", "compound", <<Member("LastUpdate", "long", 1)>>),
    Member("DataVersion", "int", 1)>>

\* Members a server may write: every sort of field, as itself, as its
\* default, under its other name and with another tag.
Written ==
  {Member("DataVersion", "int", 2), Member("Status", "string", "empty"),
   Member("status", "string", "full"), Member("status", "string", "empty"),
   Member("LastUpdate", "long", 2), Member("LastUpdate", "int", 2),
   Member("sections", "list", <<{<<"Y", "byte", 0>>}>>),
   Member("sections", "list", <<{<<"Y", "byte", 1>>}>>),
   Member("sections", "list", <<{<<"Y", "int", 1>>, <<"other", "int", 1>>}>>),
   Member("sections", "list", <<>>),
   Member("structures", "compound", {}), Member("structures", "compound", {1}),
   Member("isLightOn", "byte", 0), Member("isLightOn", "byte", 1),
   Member("unknown", "int", 1)}
  \cup {Member("Level", "compound", l) :
          l \in {<<>>, <<Member("LastUpdate", "long", 2)>>, <<Member("LastUpdate", "int", 2)>>,
                 <<Member("DataVersion", "int", 2)>>, <<Member("TerrainPopulated", "byte", 0)>>,
                 <<Member("TerrainPopulated", "byte", 1)>>, <<Member("TileEntities", "list", <<>>)>>,
                 <<Member("TileEntities", "list", <<1>>)>>}}

KeyInit ==
  /\ family = "none"
  /\ before = <<>> /\ now = <<>>
  /\ edits = 0
  /\ payload = NoPayload /\ damage = "none"

Generate ==
  /\ family = "none"
  /\ family' \in {"region", "poi"}
  /\ before' \in {Document(ModernChunk), Document(LegacyChunk)}
  /\ now' = before'
  /\ UNCHANGED <<edits, payload, damage>>

\* One member is written anew, left out or moved to the end.
Rewrite ==
  /\ family # "none" /\ payload = NoPayload /\ edits < MaxEdits
  /\ \E ms \in {MembersOf(now)} :
       \/ \E m \in Written, i \in DOMAIN ms :
            /\ ms[i][2] = m[2]
            /\ now' = Document([ms EXCEPT ![i] = m])
       \/ \E m \in Written :
            /\ m \notin {ms[j] : j \in DOMAIN ms}
            /\ \A j \in DOMAIN ms : ms[j][2] # m[2]
            /\ now' = Document(Append(ms, m))
       \/ \E i \in DOMAIN ms :
            LET rest == SubSeq(ms, 1, i - 1) \o SubSeq(ms, i + 1, Len(ms)) IN
            now' \in {Document(rest), Document(Append(rest, ms[i]))}
  /\ edits' = edits + 1
  /\ UNCHANGED <<family, before, payload, damage>>

Store ==
  /\ family # "none" /\ payload = NoPayload
  /\ payload' \in FramesOf(now)
  /\ UNCHANGED <<family, before, now, edits, damage>>

Intact == payload # NoPayload /\ damage = "none"

CutPayload ==
  /\ Intact
  /\ \E n \in 0 .. Len(payload.body) - 1 : payload' = [payload EXCEPT !.body = SubSeq(@, 1, n)]
  /\ damage' = "cut"
  /\ UNCHANGED <<family, before, now, edits>>

Stray == Member("DataVersion", "int", 2)

\* Bytes that are not those written, in the body or after it, or another
\* codec byte; not under the raw codec, which nothing checks.
Alter ==
  /\ Intact /\ CompressionOf(payload.byte) # "raw"
  /\ \/ \E i \in DOMAIN payload.body, t \in {<<"byte", Stray>>, <<"deflate", Stray>>,
                                             <<"gzip", {"reserved"}>>} \cup Headers :
          payload' = [payload EXCEPT !.body[i] = t]
     \/ \E i \in DOMAIN payload.body, t \in {<<"byte", Stray>>, <<"deflate", Stray>>} :
          payload' = [payload EXCEPT !.body = SubSeq(@, 1, i) \o <<t>> \o SubSeq(@, i + 1, Len(@))]
     \/ \E b \in TypeBytes : payload' = [payload EXCEPT !.byte = b]
  /\ damage' = "altered"
  /\ UNCHANGED <<family, before, now, edits>>

KeyStep == Generate \/ Rewrite \/ Store \/ CutPayload \/ Alter

-----------------------------------------------------------------------------
(* Properties. *)

\* What a member says about the chunk, one by one: nothing when the server
\* rewrites it by itself, when the program does not know it, or when it
\* spells out a default.
Says(m) ==
  CASE m[2] = "LastUpdate" \/ m[2] = "unknown" -> {}
    [] m[2] = "status" -> {<<"Status", m[4]>>}
    [] m = Member("isLightOn", "byte", 0) -> {}
    [] m[2] = "sections" ->
         {<<"sections", Len(m[4]), \E i \in DOMAIN m[4] : <<"Y", "byte", 1>> \in m[4][i]>>}
    [] OTHER -> {<<m[2], m[4]>>}

Tells(ms) == UNION {Says(ms[i]) : i \in DOMAIN ms}

\* The members that count for a chunk of the legacy shape.
LegacyTells(ms) ==
  LET inner == UNION {{ms[i][4][j] : j \in DOMAIN ms[i][4]} : i \in Having(ms, "Level")} IN
  {<<"root", ms[i][4]>> : i \in Having(ms, "DataVersion")}
    \cup {<<"level", m[2], m[4]>> : m \in
            inner \ {Member("TerrainPopulated", "byte", 0), Member("TileEntities", "list", <<>>),
                     Member("DataVersion", "int", 2), Member("LastUpdate", "long", 1),
                     Member("LastUpdate", "long", 2)}}

\* The documents that are chunks.
IsModern(ms) ==
  /\ \A f \in ModernRequired : Having(ms, f) # {}
  /\ Cardinality(Having(ms, "Status")) = 1
  /\ Member("LastUpdate", "int", 2) \notin {ms[i] : i \in DOMAIN ms}

IsLegacy(ms) ==
  /\ Having(ms, "Level") # {}
  /\ \A i \in Having(ms, "Level") : <<Member("LastUpdate", "int", 2)>> # ms[i][4]

SameChunk(d, e) ==
  LET m == MembersOf(d)
      n == MembersOf(e)
  IN IF family # "region" THEN d = e
     ELSE IF IsModern(m) \/ IsModern(n)
     THEN IsModern(m) /\ IsModern(n)
          /\ Tells(SelectSeq(m, LAMBDA x : x[2] # "Level"))
               = Tells(SelectSeq(n, LAMBDA x : x[2] # "Level"))
     ELSE LegacyTells(m) = LegacyTells(n)

HasKey(d) ==
  /\ Len(d) <= MaxOut
  /\ family = "region" => IsModern(MembersOf(d)) \/ IsLegacy(MembersOf(d))

\* A chunk keeps its key through everything a server does by itself, and
\* gets another one for everything else, under whatever codec it is stored;
\* chunks of the two shapes never share one.  A payload that was cut off
\* has no key, and one that was altered has none or still is the chunk: no
\* damage is recorded as content.
KeyExact ==
  /\ Intact =>
       /\ (KeyOf(family, payload) # NoKey) = HasKey(now)
       /\ HasKey(now) =>
            (KeyOf(family, payload) = ChunkKey(family, before)) = SameChunk(before, now)
  /\ damage = "cut" => KeyOf(family, payload) = NoKey
  /\ damage = "altered" => KeyOf(family, payload) \in {NoKey, ChunkKey(family, now)}
=============================================================================
