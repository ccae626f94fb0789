---------------------------- MODULE ConnectionStore ----------------------------
(***************************************************************************)
(* The connection store of the Electron app (electron/src/connectionStore.js *)
(* and connectionStoreCore.js): metadata in connections.json, encrypted    *)
(* credentials in secrets.enc.json, no lock over the two.  Several         *)
(* processes share them (a GUI and any number of --mcp-server instances):  *)
(* each call is synchronous, so a process does one call at a time, but the *)
(* system calls of different processes interleave, and a process may die,  *)
(* or a write may throw, between the two files.                            *)
(*                                                                         *)
(* A file's content is a function on identifiers; one write replaces it    *)
(* whole (writeJsonFileAtomic renames a finished temporary file over it).  *)
(* Metadata is reduced to what the code compares: the url+kind key and the *)
(* authentication type; a secret to the authentication type it is for.     *)
(***************************************************************************)
EXTENDS Naturals, Sequences, FiniteSets

CONSTANTS Editor,        \* processes that create, edit, import and delete
          Id,            \* what randomUUID may return; bounds the creations
          Key,           \* url+kind pairs
          Auth,          \* authentication types
          Drafts,        \* what the form may hold when it is saved
          Manifests,     \* import files: sequences of [key, auth, secret]
          AuthMayChange  \* whether saving may change the authType of a listed connection

ASSUME IdFinite == IsFiniteSet(Id)
ASSUME AuthMayChangeType == AuthMayChange \in BOOLEAN

VARIABLES connections,   \* connections.json: id -> metadata, or Unlisted
          secrets,       \* secrets.enc.json: id -> authType of the payload, or NoSecret
          pc,            \* next file operation of each editor's call
          todo,          \* what is left of the call: requests, first one current
          cfile, sfile,  \* each editor's parsed and modified copies
          rpc, rconn,    \* the engine's read: its position and what it read first
          used,          \* history: the identifiers drawn
          credentialed   \* history: ids last saved as having a secret

fileVars == <<connections, secrets>>
editVars == <<pc, todo, cfile, sfile>>
readVars == <<rpc, rconn>>
vars == <<fileVars, editVars, readVars, used, credentialed>>

Unlisted == [key |-> "unlisted"]
NoSecret == "no secret"
New      == "new"

Meta  == [key : Key, auth : Auth]

\* A draft for upsertConnection, saved in the form or planned by an import, or
\* the removal of an id.
DraftOf(op) == [op : {op}, id : Id \cup {New}, key : Key, auth : Auth, secret : BOOLEAN]
Draft  == DraftOf("save") \cup DraftOf("import")
Remove == [op : {"delete"}, id : Id]

ASSUME NamesApart == New \notin Id /\ NoSecret \notin Auth
ASSUME FormsAssumption == Drafts \subseteq DraftOf("save")

\* validateImportManifest: entries of an import never share a url+kind.
ASSUME ManifestsAssumption ==
  \A m \in Manifests :
    /\ m \in Seq([key : Key, auth : Auth, secret : BOOLEAN]) /\ m # <<>>
    /\ \A i, j \in DOMAIN m : m[i].key = m[j].key => i = j

Listed(id) == connections[id] # Unlisted

NoConnections == [id \in Id |-> Unlisted]
NoSecrets     == [id \in Id |-> NoSecret]

Init ==
  /\ connections = NoConnections
  /\ secrets = NoSecrets
  /\ pc = [p \in Editor |-> "idle"]
  /\ todo = [p \in Editor |-> <<>>]
  /\ cfile = [p \in Editor |-> NoConnections]
  /\ sfile = [p \in Editor |-> NoSecrets]
  /\ rpc = "idle"
  /\ rconn = NoConnections
  /\ used = {}
  /\ credentialed = {}

--------------------------------------------------------------------------------
Call(p, requests) ==
  /\ pc[p] = "idle"
  /\ pc' = [pc EXCEPT ![p] = "readConnections"]
  /\ todo' = [todo EXCEPT ![p] = requests]
  /\ UNCHANGED <<fileVars, cfile, sfile, readVars, used, credentialed>>

\* The draft does not change the authType of the connection it updates.
KeepsAuth(d) == d.id # New => d.auth = connections[d.id].auth

\* The form is saved, for a new connection or one that the window lists.  A
\* changed authType comes with its secret; otherwise the field may be blank.
Upsert(p, d) ==
  /\ d.id # New => Listed(d.id)
  /\ KeepsAuth(d) \/ (AuthMayChange /\ d.secret)
  /\ Call(p, <<d>>)

Delete(p, id) == Listed(id) /\ Call(p, <<[op |-> "delete", id |-> id]>>)

\* A slip, not the code: the match also wants the authentication to agree.
MatchesSameAuth(e) ==
  {id \in Id : Listed(id) /\ connections[id] = [key |-> e.key, auth |-> e.auth]}

\* planImport: an entry whose key is listed updates that connection, any other
\* is created.  (Of several with one key the code takes the last in the file's
\* order; here any.)
Matches(e) == {id \in Id : Listed(id) /\ connections[id].key = e.key}

Planned(e) ==
  {[op |-> "import", id |-> id, key |-> e.key, auth |-> e.auth, secret |-> e.secret] :
     id \in IF Matches(e) = {} THEN {New} ELSE Matches(e)}

\* importConnections: the plan comes from one read of the file, made before
\* the first upsert.
Import(p, m) ==
  \E plan \in [DOMAIN m -> UNION {Planned(m[i]) : i \in DOMAIN m}] :
    /\ \A i \in DOMAIN m : plan[i] \in Planned(m[i]) /\ (KeepsAuth(plan[i]) \/ AuthMayChange)
    /\ Call(p, plan)

--------------------------------------------------------------------------------
\* readConnectionsFile, at the start of upsertConnection and deleteConnection.
ReadConnections(p) ==
  /\ pc[p] = "readConnections"
  /\ cfile' = [cfile EXCEPT ![p] = connections]
  /\ pc' = [pc EXCEPT ![p] = "readSecrets"]
  /\ UNCHANGED <<fileVars, todo, sfile, readVars, used, credentialed>>

\* upsertConnection between its reads and its writes: the metadata is replaced
\* or appended; a blank secret leaves the stored one alone.
ApplyUpsert(p, d, id) ==
  /\ cfile' = [cfile EXCEPT ![p][id] = [key |-> d.key, auth |-> d.auth]]
  /\ sfile' = [sfile EXCEPT ![p] = IF d.secret THEN [secrets EXCEPT ![id] = d.auth]
                                               ELSE secrets]

ApplyDelete(p, id) ==
  /\ cfile' = [cfile EXCEPT ![p][id] = Unlisted]
  /\ sfile' = [sfile EXCEPT ![p] = [secrets EXCEPT ![id] = NoSecret]]

\* readSecretsFile and the modification of both copies; randomUUID never
\* returns an identifier twice.
ReadSecrets(p) ==
  /\ pc[p] = "readSecrets"
  /\ pc' = [pc EXCEPT ![p] = "writeFirst"]
  /\ LET r == Head(todo[p]) IN
     \/ /\ r.op # "delete" /\ r.id = New
        /\ \E id \in Id \ used :
             /\ ApplyUpsert(p, r, id)
             /\ used' = used \cup {id}
             /\ todo' = [todo EXCEPT ![p][1].id = id]
     \/ /\ r.op # "delete" /\ r.id # New
        /\ ApplyUpsert(p, r, r.id)
        /\ UNCHANGED <<used, todo>>
     \/ /\ r.op = "delete"
        /\ ApplyDelete(p, r.id)
        /\ UNCHANGED <<used, todo>>
  /\ UNCHANGED <<fileVars, readVars, credentialed>>

WriteConnections(p) == connections' = cfile[p] /\ UNCHANGED secrets
WriteSecrets(p)     == secrets' = sfile[p] /\ UNCHANGED connections

\* What the writer means the credentials to be, once this file is written.
Recorded(p) ==
  LET id == Head(todo[p]).id IN
  IF sfile[p][id] # NoSecret THEN credentialed \cup {id} ELSE credentialed \ {id}

\* A slip, not the code: the two orders are swapped.
SecretsFirstOnDelete(request) == request.op = "delete"

\* The order that writeStoreFiles is called with: 'secrets-first' for an
\* upsert, 'connections-first' for a deletion.
SecretsFirst(request) == request.op # "delete"

WriteFirst(p) ==
  /\ pc[p] = "writeFirst"
  /\ pc' = [pc EXCEPT ![p] = "writeSecond"]
  /\ IF SecretsFirst(Head(todo[p])) THEN WriteSecrets(p) ELSE WriteConnections(p)
  /\ credentialed' = Recorded(p)
  /\ UNCHANGED <<todo, cfile, sfile, readVars, used>>

\* The rest of the call when its current request is done: an import goes on
\* with its next entry, which reads both files again.
Done(p) ==
  /\ todo' = [todo EXCEPT ![p] = Tail(@)]
  /\ pc' = [pc EXCEPT ![p] = IF Len(todo[p]) = 1 THEN "idle" ELSE "readConnections"]
  /\ cfile' = [cfile EXCEPT ![p] = NoConnections]
  /\ sfile' = [sfile EXCEPT ![p] = NoSecrets]

WriteSecond(p) ==
  /\ pc[p] = "writeSecond"
  /\ IF SecretsFirst(Head(todo[p])) THEN WriteConnections(p) ELSE WriteSecrets(p)
  /\ Done(p)
  /\ UNCHANGED <<readVars, used, credentialed>>

\* A read or a write throws, which ends the whole call, or the process dies
\* (and is started again): either way nothing more of it is written.
Abort(p) ==
  /\ pc[p] # "idle"
  /\ pc' = [pc EXCEPT ![p] = "idle"]
  /\ todo' = [todo EXCEPT ![p] = <<>>]
  /\ cfile' = [cfile EXCEPT ![p] = NoConnections]
  /\ sfile' = [sfile EXCEPT ![p] = NoSecrets]
  /\ UNCHANGED <<fileVars, readVars, used, credentialed>>

--------------------------------------------------------------------------------
\* getConnectionsForEngine, run by a server process on every tool call: the
\* metadata first, then the secrets.
EngineReadsConnections ==
  /\ rpc = "idle"
  /\ rpc' = "readSecrets"
  /\ rconn' = connections
  /\ UNCHANGED <<fileVars, editVars, used, credentialed>>

EngineReadsSecrets ==
  /\ rpc = "readSecrets"
  /\ rpc' = "idle"
  /\ rconn' = NoConnections
  /\ UNCHANGED <<fileVars, editVars, used, credentialed>>

\* buildEngineConnections: the payload is used only for its own authType.
Authenticates(conns, id) == secrets[id] = conns[id].auth

Next ==
  \/ \E p \in Editor :
       \/ \E d \in Drafts : Upsert(p, d)
       \/ \E m \in Manifests : Import(p, m)
       \/ \E id \in Id : Delete(p, id)
       \/ ReadConnections(p) \/ ReadSecrets(p)
       \/ WriteFirst(p) \/ WriteSecond(p)
       \/ Abort(p)
  \/ EngineReadsConnections \/ EngineReadsSecrets

Spec == Init /\ [][Next]_vars

--------------------------------------------------------------------------------
\* Types of the two files, of the calls in progress and of the histories.
TypeOK ==
  /\ connections \in [Id -> Meta \cup {Unlisted}]
  /\ secrets \in [Id -> Auth \cup {NoSecret}]
  /\ pc \in [Editor -> {"idle", "readConnections", "readSecrets", "writeFirst", "writeSecond"}]
  /\ todo \in [Editor -> Seq(Draft \cup Remove)]
  /\ cfile \in [Editor -> [Id -> Meta \cup {Unlisted}]]
  /\ sfile \in [Editor -> [Id -> Auth \cup {NoSecret}]]
  /\ rpc \in {"idle", "readSecrets"}
  /\ rconn \in [Id -> Meta \cup {Unlisted}]
  /\ used \subseteq Id
  /\ credentialed \subseteq Id

\* An orphaned secret is the only intermediate state: wherever a call is cut
\* short, a listed connection that was saved with a credential authenticates.
ListedAuthenticates ==
  \A id \in credentialed : Listed(id) => Authenticates(connections, id)

\* A tool call that reads both files while an edit is half-way finds the
\* credential of every connection that is still listed when it is done.
EngineFindsCredentials ==
  [][rpc = "readSecrets" /\ rpc' = "idle"
       => \A id \in credentialed :
            rconn[id] # Unlisted /\ Listed(id) => Authenticates(rconn, id)]_vars

\* Import is idempotent on url+kind: however often one is cut short and run
\* again, and whatever the form does in between, no import adds a connection
\* whose key is listed.
ImportNeverDuplicates ==
  [][\A id \in Id : ~Listed(id) /\ connections'[id] # Unlisted
       => \A p \in Editor :
            pc[p] = "writeSecond" /\ pc'[p] # pc[p] /\ Head(todo[p]).op = "import"
              => \A other \in Id : Listed(other) => connections[other].key # connections'[id].key]_vars

--------------------------------------------------------------------------------
\* The strengthening behind these, for one editor that keeps authentication types.

\* What the two files say of each other.
Credentials ==
  /\ \A id \in Id : Listed(id) /\ secrets[id] # NoSecret => Authenticates(connections, id)
  /\ \A id \in credentialed : Listed(id) => secrets[id] # NoSecret

\* No file has heard of an identifier that was not drawn.
OnlyDrawn ==
  \A id \in Id \ used : ~Listed(id) /\ secrets[id] = NoSecret /\ id \notin credentialed /\ rconn[id] = Unlisted

\* What a reader has read was said of the connections it will still find listed.
ReaderAgrees ==
  \A id \in Id : rconn[id] # Unlisted /\ Listed(id) => rconn[id].auth = connections[id].auth

\* An entry that is still to be made was planned for the file as it is.
Fits(r) ==
  /\ r.id # New => Listed(r.id) /\ (r.op # "delete" => connections[r.id].auth = r.auth)
  /\ r.op = "import" /\ r.id # New => connections[r.id].key = r.key
  /\ r.op = "import" /\ r.id = New => \A id \in Id : Listed(id) => connections[id].key # r.key

Writing == {"writeFirst", "writeSecond"}

Ahead(p) == (IF pc[p] \in Writing THEN 2 ELSE 1) .. Len(todo[p])

PlanFits(p) ==
  /\ pc[p] # "idle" => todo[p] # <<>>
  /\ \A i \in 1 .. Len(todo[p]) : todo[p][i].op # "import" => Len(todo[p]) = 1
  /\ \A i, j \in 1 .. Len(todo[p]) : i # j => todo[p][i].key # todo[p][j].key
  /\ \A i \in Ahead(p) : Fits(todo[p][i])
  /\ pc[p] = "readSecrets" => cfile[p] = connections

\* The copies about to be written differ from the files in the entry alone.
UpsertFits(p, r) ==
  /\ IF Listed(r.id)
     THEN connections[r.id].auth = r.auth /\ (r.op = "import" => connections[r.id].key = r.key)
     ELSE /\ rconn[r.id] = Unlisted
          /\ r.op = "import" => \A id \in Id : Listed(id) => connections[id].key # r.key
  /\ secrets[r.id] \in {NoSecret, r.auth}
  /\ cfile[p] = [connections EXCEPT ![r.id] = [key |-> r.key, auth |-> r.auth]]
  /\ pc[p] = "writeFirst"  => sfile[p] = IF r.secret THEN [secrets EXCEPT ![r.id] = r.auth] ELSE secrets
  /\ pc[p] = "writeSecond" => sfile[p] = secrets /\ (r.id \in credentialed <=> secrets[r.id] # NoSecret)

DeleteFits(p, r) ==
  /\ cfile[p] = [connections EXCEPT ![r.id] = Unlisted]
  /\ sfile[p] = [secrets EXCEPT ![r.id] = NoSecret]
  /\ pc[p] = "writeSecond" => ~Listed(r.id)

WriteFits(p) ==
  pc[p] \in Writing =>
    LET r == Head(todo[p])
    IN  /\ r.id \in used
        /\ r.op # "delete" => UpsertFits(p, r)
        /\ r.op = "delete" => DeleteFits(p, r)

IInv ==
  /\ TypeOK /\ Credentials /\ OnlyDrawn /\ ReaderAgrees
  /\ \A p \in Editor : PlanFits(p) /\ WriteFits(p)
================================================================================
