------------------------- MODULE ConnectionStoreProofs -------------------------
(***************************************************************************)
(* The two files of the connection store agree whenever somebody looks,    *)
(* wherever a call dies, for any connections, credentials, forms and       *)
(* import files: proved for one process that edits (several undo each      *)
(* other's writes) and connections that keep their kind of authentication. *)
(***************************************************************************)
EXTENDS ConnectionStore, TLAPS

OneEditor == \A p, q \in Editor : p = q

\* What the entry of a call is made of.
LEMMA EntryFields ==
  ASSUME NEW r \in Draft \cup Remove
  PROVE  /\ r.op \in {"save", "import", "delete"}
         /\ r.op = "delete" => r.id \in Id
         /\ r.op # "delete" => /\ r.id \in Id \cup {New} /\ r.key \in Key /\ r.auth \in Auth
                               /\ r.secret \in BOOLEAN
                               /\ r = [op |-> r.op, id |-> r.id, key |-> r.key, auth |-> r.auth,
                                       secret |-> r.secret]
BY DEF Draft, DraftOf, Remove

\* The entry an editor is at is an entry of its plan, the first.
LEMMA HeadIsEntry ==
  ASSUME TypeOK, NEW p \in Editor, todo[p] # <<>>
  PROVE  /\ Head(todo[p]) \in Draft \cup Remove /\ Head(todo[p]) = todo[p][1]
         /\ Len(todo[p]) \in Nat \ {0}
BY DEF TypeOK

\* Two empty files agree, and nobody is between two steps.
LEMMA InitInv == Init => IInv
<1> SUFFICES ASSUME Init PROVE IInv
  OBVIOUS
<1>1. TypeOK
  BY DEF Init, TypeOK, NoConnections, NoSecrets
<1>2. Credentials /\ OnlyDrawn /\ ReaderAgrees
  BY DEF Init, Credentials, OnlyDrawn, ReaderAgrees, Listed, NoConnections, NoSecrets
<1>3. ASSUME NEW p \in Editor PROVE PlanFits(p) /\ WriteFits(p)
  BY <1>3 DEF Init, PlanFits, WriteFits, Ahead, Writing
<1> QED
  BY <1>1, <1>2, <1>3 DEF IInv

--------------------------------------------------------------------------------
\* A call begins with a plan that fits the file.
LEMMA CallKeeps ==
  ASSUME OneEditor, IInv, NEW p \in Editor, NEW requests \in Seq(Draft \cup Remove), Call(p, requests),
         requests # <<>>,
         \A i \in 1 .. Len(requests) : requests[i].op # "import" => Len(requests) = 1,
         \A i, j \in 1 .. Len(requests) : i # j => requests[i].key # requests[j].key,
         \A i \in 1 .. Len(requests) : Fits(requests[i])
  PROVE  IInv'
<1>1. /\ UNCHANGED <<connections, secrets, cfile, sfile, rpc, rconn, used, credentialed>>
      /\ pc' = [pc EXCEPT ![p] = "readConnections"] /\ todo' = [todo EXCEPT ![p] = requests]
  BY DEF Call, fileVars, readVars
<1>2. todo'[p] = requests /\ pc'[p] = "readConnections"
  <2>1. p \in DOMAIN pc
    BY DEF IInv, TypeOK
  <2>2. p \in DOMAIN todo
    BY DEF IInv, TypeOK
  <2> QED
    BY <1>1, <2>1, <2>2
<1>3. TypeOK'
  BY <1>1, <1>2 DEF IInv, TypeOK, OneEditor
<1>4. (Credentials /\ OnlyDrawn /\ ReaderAgrees)'
  BY <1>1 DEF IInv, Credentials, OnlyDrawn, ReaderAgrees, Listed, Authenticates
<1>5. PlanFits(p)'
  <2>1. \A i \in 1 .. Len(requests) : Fits(requests[i])'
    BY <1>1 DEF Fits, Listed
  <2> QED
    BY <1>2, <2>1 DEF PlanFits, Ahead, Writing
<1>6. WriteFits(p)'
  BY <1>2 DEF WriteFits, Writing
<1> QED
  BY <1>3, <1>4, <1>5, <1>6 DEF IInv, OneEditor

\* The form, an import or a deletion begins.
LEMMA UpsertKeeps ==
  ASSUME OneEditor, ~AuthMayChange, IInv, NEW p \in Editor, NEW d \in Drafts, Upsert(p, d)
  PROVE  IInv'
<1>1. d \in Draft /\ d.op = "save"
  BY FormsAssumption DEF Draft, DraftOf
<1>2. Fits(d)
  BY <1>1 DEF Upsert, KeepsAuth, Fits
<1>3. <<d>> \in Seq(Draft \cup Remove) /\ Len(<<d>>) = 1 /\ <<d>>[1] = d
  BY <1>1
<1>4. Call(p, <<d>>)
  BY DEF Upsert
<1>5. /\ <<d>> # <<>>
      /\ \A i \in 1 .. Len(<<d>>) : Len(<<d>>) = 1 /\ Fits(<<d>>[i])
      /\ \A i, j \in 1 .. Len(<<d>>) : i = j
  BY <1>2, <1>3
<1> QED
  BY <1>3, <1>4, <1>5, CallKeeps

\* A deletion is a plan of one entry, which names an id and nothing else.
LEMMA DeleteKeeps ==
  ASSUME OneEditor, IInv, NEW p \in Editor, NEW id \in Id, Delete(p, id)
  PROVE  IInv'
<1> DEFINE r == [op |-> "delete", id |-> id]
<1>1. r \in Remove /\ r.op = "delete"
  BY DEF Remove
<1>2. Fits(r)
  BY <1>1 DEF Fits, Delete
<1>3. <<r>> \in Seq(Draft \cup Remove) /\ Len(<<r>>) = 1 /\ <<r>>[1] = r
  BY <1>1
<1>4. Call(p, <<r>>)
  BY DEF Delete
<1> HIDE DEF r
<1>5. /\ <<r>> # <<>>
      /\ \A i \in 1 .. Len(<<r>>) : Len(<<r>>) = 1 /\ Fits(<<r>>[i])
      /\ \A i, j \in 1 .. Len(<<r>>) : i = j
  BY <1>2, <1>3
<1> QED
  BY <1>3, <1>4, <1>5, CallKeeps

\* The plan of a manifest fits: an entry matched to a listed connection is under
\* its key, one that is not is under a key nobody lists, and no two share a key.
LEMMA ImportKeeps ==
  ASSUME OneEditor, ~AuthMayChange, IInv, NEW p \in Editor, NEW m \in Manifests, Import(p, m)
  PROVE  IInv'
<1>1. PICK plan \in [DOMAIN m -> UNION {Planned(m[i]) : i \in DOMAIN m}] :
        /\ \A i \in DOMAIN m : plan[i] \in Planned(m[i]) /\ KeepsAuth(plan[i])
        /\ Call(p, plan)
  BY DEF Import
<1>2. /\ m \in Seq([key : Key, auth : Auth, secret : BOOLEAN]) /\ m # <<>>
      /\ \A i, j \in DOMAIN m : m[i].key = m[j].key => i = j
  BY ManifestsAssumption
<1>3. DOMAIN m = 1 .. Len(m) /\ Len(m) \in Nat \ {0}
  BY <1>2
<1>4. ASSUME NEW i \in DOMAIN m
      PROVE  /\ plan[i] \in Draft /\ plan[i].op = "import" /\ plan[i].key = m[i].key
             /\ Fits(plan[i])
  <2>1. PICK id \in (IF Matches(m[i]) = {} THEN {New} ELSE Matches(m[i])) :
          plan[i] = [op |-> "import", id |-> id, key |-> m[i].key, auth |-> m[i].auth, secret |-> m[i].secret]
    BY <1>1 DEF Planned
  <2>2. m[i] \in [key : Key, auth : Auth, secret : BOOLEAN]
    <3>1. \A S : \A q \in Seq(S) : \A k \in 1 .. Len(q) : q[k] \in S
      OBVIOUS
    <3>2. i \in 1 .. Len(m)
      BY <1>3
    <3> QED
      BY ONLY <1>2, <3>1, <3>2
  <2>3. id \in Id \cup {New} /\ (id = New => Matches(m[i]) = {})
    BY <2>1, NamesApart DEF Matches
  <2>4. plan[i] \in DraftOf("import")
    BY <2>1, <2>2, <2>3 DEF DraftOf
  <2>5. id # New => Listed(id) /\ connections[id].key = m[i].key
    BY <2>3, <2>1 DEF Matches
  <2>6. id = New => \A other \in Id : Listed(other) => connections[other].key # m[i].key
    BY <2>3 DEF Matches
  <2> QED
    BY <1>1, <2>1, <2>4, <2>5, <2>6 DEF Fits, KeepsAuth, Draft
<1>5. plan \in Seq(Draft \cup Remove) /\ Len(plan) = Len(m) /\ plan # <<>>
  <2>1. plan = [i \in 1 .. Len(m) |-> plan[i]]
    BY <1>3
  <2>2. \A i \in 1 .. Len(m) : plan[i] \in Draft \cup Remove
    BY <1>3, <1>4
  <2>3. plan \in [1 .. Len(m) -> Draft \cup Remove]
    BY <2>1, <2>2
  <2> QED
    BY <1>3, <2>3
<1> QED
  BY <1>1, <1>2, <1>3, <1>4, <1>5, CallKeeps

--------------------------------------------------------------------------------
\* What does not touch the files keeps what they say of each other.
LEMMA FilesAlone ==
  ASSUME IInv, UNCHANGED <<connections, secrets, credentialed, rconn>>, used \subseteq used'
  PROVE  (Credentials /\ OnlyDrawn /\ ReaderAgrees)'
BY DEF IInv, Credentials, OnlyDrawn, ReaderAgrees, Listed, Authenticates

\* Reading the connections into a copy changes neither file.
LEMMA ReadConnectionsKeeps ==
  ASSUME OneEditor, IInv, NEW p \in Editor, ReadConnections(p)
  PROVE  IInv'
<1>1. /\ UNCHANGED <<connections, secrets, todo, sfile, rpc, rconn, used, credentialed>>
      /\ pc[p] = "readConnections" /\ pc' = [pc EXCEPT ![p] = "readSecrets"]
      /\ cfile' = [cfile EXCEPT ![p] = connections]
  BY DEF ReadConnections, fileVars, readVars
<1>2. pc'[p] = "readSecrets" /\ cfile'[p] = connections
  BY <1>1 DEF IInv, TypeOK
<1>3. TypeOK'
  BY <1>1 DEF IInv, TypeOK
<1>4. (Credentials /\ OnlyDrawn /\ ReaderAgrees)'
  BY <1>1, FilesAlone
<1>5. PlanFits(p)'
  <2>1. PlanFits(p)
    BY DEF IInv
  <2>2. Ahead(p)' = Ahead(p)
    BY <1>1, <1>2 DEF Ahead, Writing
  <2>3. \A i \in Ahead(p) : Fits(todo[p][i])'
    BY <1>1, <2>1 DEF PlanFits, Fits, Listed
  <2> QED
    BY <1>1, <1>2, <2>1, <2>2, <2>3 DEF PlanFits
<1>6. WriteFits(p)'
  BY <1>2 DEF WriteFits, Writing
<1> QED
  BY <1>3, <1>4, <1>5, <1>6 DEF IInv, OneEditor

\* An edit that throws or dies between its two writes leaves the invariant: what
\* the files miss is what the invariant lets them miss.
LEMMA AbortKeeps ==
  ASSUME OneEditor, IInv, NEW p \in Editor, Abort(p)
  PROVE  IInv'
<1>1. /\ UNCHANGED <<connections, secrets, rpc, rconn, used, credentialed>>
      /\ pc' = [pc EXCEPT ![p] = "idle"] /\ todo' = [todo EXCEPT ![p] = <<>>]
      /\ cfile' = [cfile EXCEPT ![p] = NoConnections] /\ sfile' = [sfile EXCEPT ![p] = NoSecrets]
  BY DEF Abort, fileVars, readVars
<1>2. pc'[p] = "idle" /\ todo'[p] = <<>>
  BY <1>1 DEF IInv, TypeOK
<1>3. TypeOK'
  BY <1>1 DEF IInv, TypeOK, NoConnections, NoSecrets
<1>4. (Credentials /\ OnlyDrawn /\ ReaderAgrees)'
  BY <1>1, FilesAlone
<1>5. PlanFits(p)' /\ WriteFits(p)'
  BY <1>2 DEF PlanFits, WriteFits, Writing, Ahead
<1> QED
  BY <1>3, <1>4, <1>5 DEF IInv, OneEditor

\* What the entry in hand is when both files have been read: one that fits the
\* file, of a call whose other entries have other keys.
LEMMA InHand ==
  ASSUME IInv, NEW p \in Editor, ReadSecrets(p)
  PROVE  /\ todo[p] # <<>> /\ Head(todo[p]) = todo[p][1] /\ Head(todo[p]) \in Draft \cup Remove
         /\ Len(todo[p]) \in Nat \ {0} /\ Fits(Head(todo[p])) /\ cfile[p] = connections
         /\ \A i \in 1 .. Len(todo[p]) : Fits(todo[p][i])
         /\ Head(todo[p]).id # New => Head(todo[p]).id \in used
<1>1. pc[p] = "readSecrets" /\ PlanFits(p)
  BY DEF ReadSecrets, IInv
<1>2. todo[p] # <<>> /\ cfile[p] = connections
  BY <1>1 DEF PlanFits
<1>3. /\ Head(todo[p]) = todo[p][1] /\ Head(todo[p]) \in Draft \cup Remove
      /\ Len(todo[p]) \in Nat \ {0}
  BY <1>2, HeadIsEntry DEF IInv
<1>4. \A i \in 1 .. Len(todo[p]) : Fits(todo[p][i])
  BY <1>1 DEF PlanFits, Ahead, Writing
<1>5. Fits(Head(todo[p]))
  BY <1>3, <1>4
<1>6. Head(todo[p]).id # New => Head(todo[p]).id \in used
  BY <1>3, <1>5, EntryFields DEF Fits, IInv, OnlyDrawn
<1> QED
  BY <1>2, <1>3, <1>4, <1>5, <1>6

\* The other entries of the plan still fit once the current one is in hand.
LEMMA PlanStays ==
  ASSUME IInv, NEW p \in Editor, ReadSecrets(p), pc'[p] = "writeFirst", UNCHANGED connections,
         NEW id \in Id, todo'[p] = todo[p] \/ todo'[p] = [todo[p] EXCEPT ![1].id = id]
  PROVE  PlanFits(p)'
<1>1. /\ todo[p] # <<>> /\ Len(todo[p]) \in Nat \ {0}
      /\ \A i \in 1 .. Len(todo[p]) : todo[p][i] \in Draft \cup Remove /\ Fits(todo[p][i])
  BY InHand DEF IInv, TypeOK
<1>2. Len(todo'[p]) = Len(todo[p]) /\ todo'[p] # <<>>
  BY <1>1
<1>3. \A i \in 1 .. Len(todo[p]) : i # 1 => todo'[p][i] = todo[p][i]
  BY <1>1
<1>4. todo'[p][1].op = todo[p][1].op /\ (Len(todo[p]) # 1 => todo'[p][1].key = todo[p][1].key)
  <2>1. 1 \in 1 .. Len(todo[p])
    BY <1>1
  <2>2. CASE todo'[p] = todo[p]
    BY <2>2
  <2>3. CASE todo'[p] = [todo[p] EXCEPT ![1].id = id]
    <3>1. todo'[p][1] = [todo[p][1] EXCEPT !.id = id]
      BY <2>1, <2>3, <1>1
    <3>2. Len(todo[p]) # 1 => todo[p][1].op = "import"
      BY <2>1 DEF IInv, PlanFits
    <3>3. todo[p][1] \in Draft \cup Remove
      BY <2>1, <1>1
    <3> QED
      BY <3>1, <3>2, <3>3 DEF Draft, DraftOf, Remove
  <2> QED
    BY <2>2, <2>3
<1>5. \A i \in Ahead(p)' : i # 1 /\ i \in 1 .. Len(todo[p])
  BY <1>1, <1>2 DEF Ahead, Writing
<1>6. \A i \in Ahead(p)' : Fits(todo[p][i])'
  BY <1>1, <1>3, <1>5 DEF Fits, Listed
<1>7. PlanFits(p)
  BY DEF IInv
<1>8. \A i \in 1 .. Len(todo[p]) : todo'[p][i].op = todo[p][i].op
  BY <1>3, <1>4
<1>9. Len(todo[p]) # 1 => \A i \in 1 .. Len(todo[p]) : todo'[p][i].key = todo[p][i].key
  BY <1>3, <1>4
<1>10. \A i \in 1 .. Len(todo'[p]) : todo'[p][i].op # "import" => Len(todo'[p]) = 1
  BY <1>2, <1>7, <1>8 DEF PlanFits
<1>11. \A i, j \in 1 .. Len(todo'[p]) : i # j => todo'[p][i].key # todo'[p][j].key
  <2>1. CASE Len(todo[p]) = 1
    BY <1>2, <2>1
  <2>2. CASE Len(todo[p]) # 1
    BY <1>2, <1>7, <1>9, <2>2 DEF PlanFits
  <2> QED
    BY <2>1, <2>2
<1> QED
  BY <1>2, <1>6, <1>10, <1>11 DEF PlanFits

\* Reading the secrets ends an edit's reads: its copies are what it will write,
\* with the new id drawn.
LEMMA ReadSecretsKeeps ==
  ASSUME OneEditor, IInv, NEW p \in Editor, ReadSecrets(p)
  PROVE  IInv'
<1>0. PICK r : r = Head(todo[p])
  OBVIOUS
<1>1. /\ UNCHANGED <<connections, secrets, rpc, rconn, credentialed>>
      /\ pc' = [pc EXCEPT ![p] = "writeFirst"]
  BY DEF ReadSecrets, fileVars, readVars
<1>2. pc'[p] = "writeFirst"
  BY <1>1 DEF IInv, TypeOK
<1>3. /\ todo[p] # <<>> /\ r = todo[p][1] /\ r \in Draft \cup Remove
      /\ Len(todo[p]) \in Nat \ {0} /\ Fits(r) /\ cfile[p] = connections
      /\ r.id # New => r.id \in used
  BY <1>0, InHand
<1>4. /\ r.op \in {"save", "import", "delete"}
      /\ r.op = "delete" => r.id \in Id
      /\ r.op # "delete" => r.id \in Id \cup {New} /\ r.key \in Key /\ r.auth \in Auth
  BY <1>3, EntryFields
<1>5. p \in DOMAIN cfile /\ p \in DOMAIN sfile /\ p \in DOMAIN todo /\ cfile[p] \in [Id -> Meta \cup {Unlisted}]
  BY DEF IInv, TypeOK
<1>6. CASE r.op # "delete" /\ r.id = New
  <2>1. PICK id \in Id \ used :
          /\ ApplyUpsert(p, r, id) /\ used' = used \cup {id}
          /\ todo' = [todo EXCEPT ![p][1].id = id]
    BY <1>0, <1>6 DEF ReadSecrets
  <2>2. todo'[p] = [todo[p] EXCEPT ![1].id = id]
    BY <2>1, <1>5
  <2>3. todo'[p][1] = [r EXCEPT !.id = id] /\ Head(todo'[p]) = todo'[p][1]
    BY <2>2, <1>3
  <2>4. [r EXCEPT !.id = id] \in Draft
    BY <1>3, <1>4, <1>6 DEF Draft, DraftOf, Remove
  <2>5. todo'[p] \in Seq(Draft \cup Remove)
    BY <2>2, <2>3, <2>4, <1>3 DEF IInv, TypeOK
  <2>6. /\ cfile' = [cfile EXCEPT ![p] = [connections EXCEPT ![id] = [key |-> r.key, auth |-> r.auth]]]
        /\ sfile' = [sfile EXCEPT ![p] = IF r.secret THEN [secrets EXCEPT ![id] = r.auth] ELSE secrets]
    BY <2>1, <1>3, <1>5 DEF ApplyUpsert
  <2>7. TypeOK'
    <3>1. todo' = [todo EXCEPT ![p] = todo'[p]]
      BY <2>1, <2>2, <1>5
    <3>2. todo' \in [Editor -> Seq(Draft \cup Remove)]
      BY <2>5, <3>1 DEF IInv, TypeOK
    <3>3. [key |-> r.key, auth |-> r.auth] \in Meta
      BY <1>4, <1>6 DEF Meta
    <3> QED
      BY <1>1, <1>4, <1>6, <2>1, <2>6, <3>2, <3>3 DEF IInv, TypeOK
  <2>8. (Credentials /\ OnlyDrawn /\ ReaderAgrees)'
    BY <1>1, <2>1, FilesAlone
  <2>9. PlanFits(p)'
    BY <1>1, <1>2, <2>2, PlanStays
  <2>10. PICK d : d = [r EXCEPT !.id = id]
    OBVIOUS
  <2>11. d.id = id /\ d.op = r.op /\ d.key = r.key /\ d.auth = r.auth /\ d.secret = r.secret
    BY <2>10, <1>3, <1>6 DEF Draft, DraftOf, Remove
  <2>12. UpsertFits(p, d)'
    <3>1. ~Listed(id) /\ secrets[id] = NoSecret /\ rconn[id] = Unlisted
      BY DEF IInv, OnlyDrawn
    <3>2. r.op = "import" => \A other \in Id : Listed(other) => connections[other].key # r.key
      BY <1>3, <1>6 DEF Fits
    <3>4. /\ cfile'[p] = [connections EXCEPT ![id] = [key |-> r.key, auth |-> r.auth]]
          /\ sfile'[p] = IF r.secret THEN [secrets EXCEPT ![id] = r.auth] ELSE secrets
      BY <2>6, <1>5
    <3> QED
      BY <1>1, <1>2, <2>11, <3>1, <3>2, <3>4 DEF UpsertFits, Listed
  <2>13. Head(todo'[p]) = d
    BY <2>3, <2>10
  <2>14. WriteFits(p)'
    <3>1. d.id \in used' /\ d.op # "delete"
      BY <1>6, <2>1, <2>11
    <3> QED
      BY <2>12, <2>13, <3>1 DEF WriteFits
  <2> QED
    BY <2>7, <2>8, <2>9, <2>14 DEF IInv, OneEditor
<1>7. CASE r.op # "delete" /\ r.id # New
  <2>1. ApplyUpsert(p, r, r.id) /\ UNCHANGED <<used, todo>> /\ r.id \in Id
    BY <1>0, <1>4, <1>7 DEF ReadSecrets
  <2>2. /\ cfile' = [cfile EXCEPT ![p] = [connections EXCEPT ![r.id] = [key |-> r.key, auth |-> r.auth]]]
        /\ sfile' = [sfile EXCEPT ![p] = IF r.secret THEN [secrets EXCEPT ![r.id] = r.auth] ELSE secrets]
    BY <2>1, <1>3, <1>5 DEF ApplyUpsert
  <2>3. TypeOK'
    <3>1. [key |-> r.key, auth |-> r.auth] \in Meta
      BY <1>4, <1>7 DEF Meta
    <3> QED
      BY <1>1, <1>4, <1>7, <2>1, <2>2, <3>1 DEF IInv, TypeOK
  <2>4. (Credentials /\ OnlyDrawn /\ ReaderAgrees)'
    BY <1>1, <2>1, FilesAlone
  <2>5. PlanFits(p)'
    BY <1>1, <1>2, <2>1, PlanStays
  <2>6. UpsertFits(p, r)'
    <3>1. /\ Listed(r.id) /\ connections[r.id].auth = r.auth
          /\ r.op = "import" => connections[r.id].key = r.key
      BY <1>3, <1>7 DEF Fits
    <3>2. secrets[r.id] \in {NoSecret, r.auth}
      BY <2>1, <3>1 DEF IInv, Credentials, Authenticates
    <3>3. /\ cfile'[p] = [connections EXCEPT ![r.id] = [key |-> r.key, auth |-> r.auth]]
          /\ sfile'[p] = IF r.secret THEN [secrets EXCEPT ![r.id] = r.auth] ELSE secrets
      BY <2>2, <1>5
    <3> QED
      BY <1>1, <1>2, <3>1, <3>2, <3>3 DEF UpsertFits, Listed
  <2>7. WriteFits(p)'
    BY <1>0, <1>3, <1>7, <2>1, <2>6 DEF WriteFits
  <2> QED
    BY <2>3, <2>4, <2>5, <2>7 DEF IInv, OneEditor
<1>8. CASE r.op = "delete"
  <2>1. ApplyDelete(p, r.id) /\ UNCHANGED <<used, todo>> /\ r.id \in Id
    BY <1>0, <1>4, <1>8 DEF ReadSecrets
  <2>2. /\ cfile' = [cfile EXCEPT ![p] = [connections EXCEPT ![r.id] = Unlisted]]
        /\ sfile' = [sfile EXCEPT ![p] = [secrets EXCEPT ![r.id] = NoSecret]]
    BY <2>1, <1>3, <1>5 DEF ApplyDelete
  <2>3. TypeOK'
    BY <1>1, <2>1, <2>2 DEF IInv, TypeOK
  <2>4. (Credentials /\ OnlyDrawn /\ ReaderAgrees)'
    BY <1>1, <2>1, FilesAlone
  <2>5. PlanFits(p)'
    BY <1>1, <1>2, <2>1, PlanStays
  <2>6. DeleteFits(p, r)'
    BY <1>1, <1>2, <1>5, <2>2 DEF DeleteFits
  <2>7. r.id # New
    BY <2>1, NamesApart
  <2>8. WriteFits(p)'
    BY <1>0, <1>3, <1>8, <2>1, <2>6, <2>7 DEF WriteFits
  <2> QED
    BY <2>3, <2>4, <2>5, <2>8 DEF IInv, OneEditor
<1> QED
  BY <1>4, <1>6, <1>7, <1>8

--------------------------------------------------------------------------------
\* What the entry being written is, and that the request's order is its own.
LEMMA BeingWritten ==
  ASSUME IInv, NEW p \in Editor, pc[p] \in Writing
  PROVE  /\ todo[p] # <<>> /\ Head(todo[p]) = todo[p][1] /\ Len(todo[p]) \in Nat \ {0}
         /\ Head(todo[p]) \in Draft \cup Remove
         /\ Head(todo[p]).id \in used /\ Head(todo[p]).id \in Id
         /\ Head(todo[p]).op # "delete" => UpsertFits(p, Head(todo[p]))
         /\ Head(todo[p]).op = "delete" => DeleteFits(p, Head(todo[p])) /\ Len(todo[p]) = 1
<1>1. PlanFits(p) /\ WriteFits(p) /\ TypeOK
  BY DEF IInv
<1>2. todo[p] # <<>>
  BY <1>1 DEF PlanFits, Writing
<1>3. /\ Head(todo[p]) = todo[p][1] /\ Len(todo[p]) \in Nat \ {0}
      /\ Head(todo[p]) \in Draft \cup Remove
  BY <1>1, <1>2, HeadIsEntry
<1>4. /\ Head(todo[p]).id \in used
      /\ Head(todo[p]).op # "delete" => UpsertFits(p, Head(todo[p]))
      /\ Head(todo[p]).op = "delete" => DeleteFits(p, Head(todo[p]))
  BY <1>1 DEF WriteFits
<1>5. Head(todo[p]).op = "delete" => Len(todo[p]) = 1
  BY <1>1, <1>3 DEF PlanFits
<1>6. Head(todo[p]).id \in Id
  BY <1>1, <1>4 DEF TypeOK
<1> QED
  BY <1>2, <1>3, <1>4, <1>5, <1>6

\* The first file of an upsert is the credentials: nobody is listed without one.
LEMMA WriteFirstKeeps ==
  ASSUME OneEditor, IInv, NEW p \in Editor, WriteFirst(p)
  PROVE  IInv'
<1>0. PICK r : r = Head(todo[p])
  OBVIOUS
<1>1. /\ UNCHANGED <<todo, cfile, sfile, rpc, rconn, used>>
      /\ pc[p] = "writeFirst" /\ pc' = [pc EXCEPT ![p] = "writeSecond"]
      /\ credentialed' = Recorded(p)
      /\ r.op # "delete" => WriteSecrets(p)
      /\ r.op = "delete" => WriteConnections(p)
  BY <1>0 DEF WriteFirst, readVars, SecretsFirst
<1>2. pc'[p] = "writeSecond"
  BY <1>1 DEF IInv, TypeOK
<1>3. /\ todo[p] # <<>> /\ Len(todo[p]) \in Nat \ {0}
      /\ r \in Draft \cup Remove /\ r.id \in used /\ r.id \in Id
      /\ r.op # "delete" => UpsertFits(p, r)
      /\ r.op = "delete" => DeleteFits(p, r) /\ Len(todo[p]) = 1
  BY <1>0, <1>1, BeingWritten DEF Writing
<1>4. credentialed' = IF sfile[p][r.id] # NoSecret THEN credentialed \cup {r.id} ELSE credentialed \ {r.id}
  BY <1>0, <1>1 DEF Recorded
<1>5. TypeOK'
  BY <1>1, <1>3, <1>4 DEF IInv, TypeOK, WriteSecrets, WriteConnections
<1>6. PlanFits(p)'
  <2>1. PlanFits(p) /\ Ahead(p)' = Ahead(p)
    BY <1>1, <1>2 DEF IInv, Ahead, Writing
  <2>2. CASE r.op # "delete"
    <3>1. connections' = connections
      BY <1>1, <2>2 DEF WriteSecrets
    <3> QED
      BY <1>1, <1>2, <2>1, <3>1 DEF PlanFits, Fits, Listed
  <2>3. CASE r.op = "delete"
    <3>1. pc[p] \in Writing /\ Len(todo[p]) = 1
      BY <1>1, <1>3, <2>3 DEF Writing
    <3>2. Ahead(p) = 2 .. 1
      BY <3>1 DEF Ahead
    <3>3. \A i \in Ahead(p) : FALSE
      BY <3>2
    <3> QED
      BY <1>1, <1>2, <2>1, <3>3 DEF PlanFits
  <2> QED
    BY <2>2, <2>3
<1>7. CASE r.op # "delete"
  <2>1. secrets' = sfile[p] /\ connections' = connections
    BY <1>1, <1>7 DEF WriteSecrets
  <2>2. /\ sfile[p] = IF r.secret THEN [secrets EXCEPT ![r.id] = r.auth] ELSE secrets
        /\ Listed(r.id) => connections[r.id].auth = r.auth
        /\ secrets[r.id] \in {NoSecret, r.auth}
    BY <1>1, <1>3, <1>7 DEF UpsertFits
  <2>3. /\ \A id \in Id : id # r.id => secrets'[id] = secrets[id]
        /\ secrets'[r.id] \in {NoSecret, r.auth}
    BY <1>3, <2>1, <2>2 DEF IInv, TypeOK
  <2>4. \A id \in Id : id \in credentialed' <=> IF id = r.id THEN secrets'[r.id] # NoSecret ELSE id \in credentialed
    BY <1>3, <1>4, <2>1
  <2>5. Credentials'
    <3>1. credentialed' \subseteq Id
      BY <1>5 DEF TypeOK
    <3> QED
      BY <2>1, <2>2, <2>3, <2>4, <3>1 DEF IInv, Credentials, Listed, Authenticates
  <2>6. (OnlyDrawn /\ ReaderAgrees)'
    BY <1>1, <1>3, <2>1, <2>3, <2>4 DEF IInv, OnlyDrawn, ReaderAgrees, Listed
  <2>7. UpsertFits(p, r)'
    BY <1>1, <1>2, <1>3, <1>7, <2>1, <2>3, <2>4 DEF UpsertFits, Listed
  <2>8. WriteFits(p)'
    BY <1>0, <1>1, <1>3, <1>7, <2>7 DEF WriteFits
  <2> QED
    BY <1>5, <1>6, <2>5, <2>6, <2>8 DEF IInv, OneEditor
<1>8. CASE r.op = "delete"
  <2>1. /\ connections' = [connections EXCEPT ![r.id] = Unlisted] /\ secrets' = secrets
        /\ sfile[p] = [secrets EXCEPT ![r.id] = NoSecret]
    BY <1>1, <1>3, <1>8 DEF WriteConnections, DeleteFits
  <2>2. credentialed' = credentialed \ {r.id}
    BY <1>3, <1>4, <2>1 DEF IInv, TypeOK
  <2>3. /\ \A id \in Id : id # r.id => connections'[id] = connections[id]
        /\ connections'[r.id] = Unlisted
    BY <1>3, <2>1 DEF IInv, TypeOK
  <2>4. Credentials'
    BY <1>5, <2>1, <2>2, <2>3 DEF IInv, TypeOK, Credentials, Listed, Authenticates
  <2>5. (OnlyDrawn /\ ReaderAgrees)'
    BY <1>1, <1>3, <2>1, <2>2, <2>3 DEF IInv, OnlyDrawn, ReaderAgrees, Listed
  <2>6. DeleteFits(p, r)'
    <3>1. [connections' EXCEPT ![r.id] = Unlisted] = connections'
      BY <1>3, <2>1 DEF IInv, TypeOK
    <3> QED
      BY <1>1, <1>3, <1>8, <2>1, <2>3, <3>1 DEF DeleteFits, Listed
  <2>7. WriteFits(p)'
    BY <1>0, <1>1, <1>3, <1>8, <2>6 DEF WriteFits
  <2> QED
    BY <1>5, <1>6, <2>4, <2>5, <2>7 DEF IInv, OneEditor
<1> QED
  BY <1>7, <1>8

\* What is left of a plan fits the file that its first entry leaves behind:
\* their keys differ.
LEMMA RestFits ==
  ASSUME IInv, NEW p \in Editor, pc[p] = "writeSecond", Head(todo[p]).op # "delete",
         connections' = cfile[p], NEW i \in 1 .. Len(todo[p]), i # 1, NEW e, e = todo[p][i]
  PROVE  e.op = "import" /\ Fits(e)'
<1>0. PICK r : r = Head(todo[p])
  OBVIOUS
<1>2. /\ todo[p] # <<>> /\ r = todo[p][1] /\ Len(todo[p]) \in Nat \ {0} /\ r \in Draft \cup Remove
      /\ r.id \in Id /\ UpsertFits(p, r)
  BY <1>0, BeingWritten DEF Writing
<1>3. e \in Draft \cup Remove
  BY DEF IInv, TypeOK
<1>4. 1 \in 1 .. Len(todo[p]) /\ i \in Ahead(p)
  BY <1>2 DEF Ahead, Writing
<1>5. e.op = "import" /\ r.op = "import" /\ Fits(e) /\ e.key # r.key
  BY <1>0, <1>2, <1>4 DEF IInv, PlanFits
<1>6. /\ connections' = [connections EXCEPT ![r.id] = [key |-> r.key, auth |-> r.auth]]
      /\ Listed(r.id) => connections[r.id].key = r.key
  BY <1>2, <1>5 DEF UpsertFits
<1>7. /\ \A id \in Id : id # r.id => connections'[id] = connections[id]
      /\ connections'[r.id].key = r.key
  BY <1>2, <1>6 DEF IInv, TypeOK
<1>8. e.id # New => e.id \in Id
  BY <1>3, <1>5, EntryFields
<1>9. e.id # New => e.id # r.id
  BY <1>5, <1>6 DEF Fits
<1>10. e.id # New => connections'[e.id] = connections[e.id]
  BY <1>7, <1>8, <1>9
<1>11. e.id = New => \A id \in Id : connections'[id] # Unlisted => connections'[id].key # e.key
  BY <1>5, <1>7 DEF Fits, Listed
<1> QED
  BY <1>5, <1>10, <1>11 DEF Fits, Listed

\* The second write brings the files together, and the plan moves on.
LEMMA WriteSecondKeeps ==
  ASSUME OneEditor, IInv, NEW p \in Editor, WriteSecond(p)
  PROVE  IInv'
<1>0. PICK r : r = Head(todo[p])
  OBVIOUS
<1>1. /\ UNCHANGED <<rpc, rconn, used, credentialed>> /\ pc[p] = "writeSecond"
      /\ pc' = [pc EXCEPT ![p] = IF Len(todo[p]) = 1 THEN "idle" ELSE "readConnections"]
      /\ todo' = [todo EXCEPT ![p] = Tail(todo[p])]
      /\ cfile' = [cfile EXCEPT ![p] = NoConnections] /\ sfile' = [sfile EXCEPT ![p] = NoSecrets]
      /\ r.op # "delete" => WriteConnections(p)
      /\ r.op = "delete" => WriteSecrets(p)
  BY <1>0 DEF WriteSecond, Done, readVars, SecretsFirst, IInv, TypeOK
<1>2. /\ pc'[p] = IF Len(todo[p]) = 1 THEN "idle" ELSE "readConnections"
      /\ todo'[p] = Tail(todo[p])
  BY <1>1 DEF IInv, TypeOK
<1>3. /\ todo[p] # <<>> /\ r = todo[p][1] /\ Len(todo[p]) \in Nat \ {0}
      /\ r \in Draft \cup Remove /\ r.id \in used /\ r.id \in Id
      /\ r.op # "delete" => UpsertFits(p, r)
      /\ r.op = "delete" => DeleteFits(p, r) /\ Len(todo[p]) = 1
  BY <1>0, <1>1, BeingWritten DEF Writing
<1>4. /\ Len(todo'[p]) = Len(todo[p]) - 1 /\ todo'[p] \in Seq(Draft \cup Remove)
      /\ \A i \in 1 .. Len(todo[p]) - 1 : todo'[p][i] = todo[p][i + 1]
  BY <1>2, <1>3 DEF IInv, TypeOK
<1>5. TypeOK'
  <2>1. todo' \in [Editor -> Seq(Draft \cup Remove)]
    BY <1>1, <1>2, <1>4 DEF IInv, TypeOK
  <2> QED
    BY <1>1, <2>1 DEF IInv, TypeOK, WriteSecrets, WriteConnections, NoConnections, NoSecrets
<1>6. WriteFits(p)'
  BY <1>2 DEF WriteFits, Writing
<1>7. CASE r.op # "delete"
  <2>1. /\ connections' = cfile[p] /\ secrets' = secrets
        /\ cfile[p] = [connections EXCEPT ![r.id] = [key |-> r.key, auth |-> r.auth]]
        /\ secrets[r.id] \in {NoSecret, r.auth} /\ (r.id \in credentialed <=> secrets[r.id] # NoSecret)
        /\ IF Listed(r.id) THEN connections[r.id].auth = r.auth ELSE rconn[r.id] = Unlisted
    BY <1>1, <1>3, <1>7 DEF WriteConnections, UpsertFits
  <2>2. /\ \A id \in Id : id # r.id => connections'[id] = connections[id]
        /\ connections'[r.id].auth = r.auth
    BY <1>3, <2>1 DEF IInv, TypeOK
  <2>3. Credentials'
    BY <1>1, <2>1, <2>2 DEF IInv, TypeOK, Credentials, Listed, Authenticates
  <2>4. (OnlyDrawn /\ ReaderAgrees)'
    BY <1>1, <1>3, <2>1, <2>2 DEF IInv, OnlyDrawn, ReaderAgrees, Listed
  <2>5. ASSUME NEW i \in 1 .. Len(todo'[p])
        PROVE  i + 1 \in 1 .. Len(todo[p]) /\ i + 1 # 1 /\ todo'[p][i] = todo[p][i + 1]
    BY <1>3, <1>4
  <2>6. ASSUME NEW i \in 1 .. Len(todo'[p])
        PROVE  todo'[p][i].op = "import" /\ Fits(todo[p][i])'
    <3>1. PICK e : e = todo[p][i + 1]
      OBVIOUS
    <3>2. i + 1 \in 1 .. Len(todo[p]) /\ i + 1 # 1 /\ todo'[p][i] = e
      BY <2>5, <3>1
    <3>3. e.op = "import" /\ Fits(e)'
      BY <1>0, <1>1, <1>7, <2>1, <3>1, <3>2, RestFits
    <3> QED
      BY <3>2, <3>3
  <2>7. Ahead(p)' = 1 .. Len(todo'[p])
    BY <1>2 DEF Ahead, Writing
  <2>8. \A i \in Ahead(p)' : Fits(todo[p][i])'
    BY <2>6, <2>7
  <2>9. PlanFits(p)
    BY DEF IInv
  <2>10. \A i, j \in 1 .. Len(todo'[p]) : i # j => todo'[p][i].key # todo'[p][j].key
    <3>1. \A i, j \in 1 .. Len(todo[p]) : i # j => todo[p][i].key # todo[p][j].key
      BY <2>9 DEF PlanFits
    <3> TAKE i, j \in 1 .. Len(todo'[p])
    <3> HAVE i # j
    <3>2. PICK k, l : k = i + 1 /\ l = j + 1
      OBVIOUS
    <3>3. k # l
      BY <3>2
    <3>4. k \in 1 .. Len(todo[p]) /\ todo'[p][i] = todo[p][k]
      BY <2>5, <3>2
    <3>5. l \in 1 .. Len(todo[p]) /\ todo'[p][j] = todo[p][l]
      BY <2>5, <3>2
    <3>6. todo[p][k].key # todo[p][l].key
      BY <3>1, <3>3, <3>4, <3>5
    <3> QED
      BY <3>4, <3>5, <3>6
  <2>11. pc'[p] # "idle" => todo'[p] # <<>>
    <3>1. pc'[p] # "idle" => Len(todo'[p]) # 0
      BY <1>2, <1>3, <1>4
    <3> QED
      BY <3>1
  <2>12. PlanFits(p)'
    BY <1>2, <2>6, <2>8, <2>10, <2>11 DEF PlanFits
  <2> QED
    BY <1>5, <1>6, <2>3, <2>4, <2>12 DEF IInv, OneEditor
<1>8. CASE r.op = "delete"
  <2>1. /\ secrets' = [secrets EXCEPT ![r.id] = NoSecret] /\ connections' = connections
        /\ ~Listed(r.id)
    BY <1>1, <1>3, <1>8 DEF WriteSecrets, DeleteFits
  <2>2. /\ \A id \in Id : id # r.id => secrets'[id] = secrets[id]
        /\ secrets'[r.id] = NoSecret
    BY <1>3, <2>1 DEF IInv, TypeOK
  <2>3. (Credentials /\ OnlyDrawn /\ ReaderAgrees)'
    BY <1>1, <1>3, <2>1, <2>2
    DEF IInv, TypeOK, Credentials, OnlyDrawn, ReaderAgrees, Listed, Authenticates
  <2>4. Len(todo'[p]) = 0 /\ pc'[p] = "idle"
    BY <1>2, <1>3, <1>4, <1>8
  <2>5. PlanFits(p)'
    BY <2>4 DEF PlanFits, Ahead, Writing
  <2> QED
    BY <1>5, <1>6, <2>3, <2>5 DEF IInv, OneEditor
<1> QED
  BY <1>7, <1>8

--------------------------------------------------------------------------------
\* The engine's reads disturb only what is said of its copy.
LEMMA EngineKeeps ==
  ASSUME IInv, UNCHANGED <<connections, secrets, pc, todo, cfile, sfile, used, credentialed>>,
         rpc' \in {"idle", "readSecrets"}, rconn' \in {connections, NoConnections, rconn}
  PROVE  IInv'
<1>1. TypeOK'
  BY DEF IInv, TypeOK, NoConnections
<1>2. Credentials'
  BY DEF IInv, Credentials, Listed, Authenticates
<1>3. \A id \in Id : rconn'[id] \in {connections[id], Unlisted, rconn[id]}
  BY DEF NoConnections
<1>4. (OnlyDrawn /\ ReaderAgrees)'
  BY <1>3 DEF IInv, OnlyDrawn, ReaderAgrees, Listed
<1>5. ASSUME NEW p \in Editor PROVE PlanFits(p)'
  BY <1>5 DEF IInv, PlanFits, Ahead, Fits, Listed
<1>6. ASSUME NEW p \in Editor PROVE WriteFits(p)'
  <2>1. CASE pc[p] \in Writing
    <3>0. PICK r : r = Head(todo[p])
      OBVIOUS
    <3>1. /\ r.id \in used /\ r.id \in Id
          /\ r.op # "delete" => UpsertFits(p, r)
          /\ r.op = "delete" => DeleteFits(p, r)
      BY <2>1, <3>0, BeingWritten
    <3>2. r.op # "delete" => UpsertFits(p, r)'
      BY <1>3, <3>1 DEF UpsertFits, Listed
    <3>3. r.op = "delete" => DeleteFits(p, r)'
      BY <3>1 DEF DeleteFits, Listed
    <3> QED
      BY <3>0, <3>1, <3>2, <3>3 DEF WriteFits
  <2>2. CASE pc[p] \notin Writing
    BY <2>2 DEF WriteFits
  <2> QED
    BY <2>1, <2>2
<1> QED
  BY <1>1, <1>2, <1>4, <1>5, <1>6 DEF IInv

\* Every operation keeps the invariant.
LEMMA StepInv == ASSUME OneEditor, ~AuthMayChange, IInv, [Next]_vars PROVE IInv'
<1>1. ASSUME NEW p \in Editor, NEW d \in Drafts, Upsert(p, d) PROVE IInv'
  BY <1>1, UpsertKeeps
<1>2. ASSUME NEW p \in Editor, NEW m \in Manifests, Import(p, m) PROVE IInv'
  BY <1>2, ImportKeeps
<1>3. ASSUME NEW p \in Editor, NEW id \in Id, Delete(p, id) PROVE IInv'
  BY <1>3, DeleteKeeps
<1>4. ASSUME NEW p \in Editor, ReadConnections(p) PROVE IInv'
  BY <1>4, ReadConnectionsKeeps
<1>5. ASSUME NEW p \in Editor, ReadSecrets(p) PROVE IInv'
  BY <1>5, ReadSecretsKeeps
<1>6. ASSUME NEW p \in Editor, WriteFirst(p) PROVE IInv'
  BY <1>6, WriteFirstKeeps
<1>7. ASSUME NEW p \in Editor, WriteSecond(p) PROVE IInv'
  BY <1>7, WriteSecondKeeps
<1>8. ASSUME NEW p \in Editor, Abort(p) PROVE IInv'
  BY <1>8, AbortKeeps
<1>9. CASE EngineReadsConnections \/ EngineReadsSecrets \/ UNCHANGED vars
  <2>1. rpc \in {"idle", "readSecrets"}
    BY DEF IInv, TypeOK
  <2> QED
    BY <1>9, <2>1, EngineKeeps
    DEF EngineReadsConnections, EngineReadsSecrets, vars, fileVars, editVars, readVars
<1> QED
  BY <1>1, <1>2, <1>3, <1>4, <1>5, <1>6, <1>7, <1>8, <1>9 DEF Next

\* The invariant holds throughout, for one editor.
LEMMA Invariance == ASSUME OneEditor, ~AuthMayChange PROVE Spec => []IInv
<1>1. IInv /\ [Next]_vars => IInv'
  BY StepInv
<1> QED
  BY InitInv, <1>1, PTL DEF Spec

\* What the two files say of each other is all that an engine needs.
LEMMA FilesAuthenticate == IInv => ListedAuthenticates
BY DEF IInv, TypeOK, Credentials, ListedAuthenticates

\* However a call is cut short, a listed connection that was saved with a
\* credential authenticates (writeStoreFiles' two orders).
THEOREM OrphansAreAllThatIsLeft ==
  ASSUME OneEditor, ~AuthMayChange
  PROVE  Spec => []ListedAuthenticates
BY Invariance, FilesAuthenticate, PTL

\* A tool call that reads both files while an edit is half-way finds the
\* credentials of the connections that are still listed when it is done
\* (getConnectionsForEngine).
THEOREM HalfwayReadsAuthenticate ==
  ASSUME OneEditor, ~AuthMayChange
  PROVE  Spec => EngineFindsCredentials
<1>1. IInv => (rpc = "readSecrets" /\ rpc' = "idle"
                 => \A id \in credentialed :
                      rconn[id] # Unlisted /\ Listed(id) => Authenticates(rconn, id))
  BY FilesAuthenticate DEF IInv, TypeOK, ReaderAgrees, ListedAuthenticates, Authenticates
<1> QED
  BY Invariance, <1>1, PTL DEF EngineFindsCredentials

\* No import adds a connection whose url and kind are listed, however often it
\* is cut short and run again (planImport's read is the one its upserts trust).
THEOREM ImportIsIdempotent ==
  ASSUME OneEditor, ~AuthMayChange
  PROVE  Spec => ImportNeverDuplicates
<1> DEFINE NeverDuplicates ==
      \A id \in Id : ~Listed(id) /\ connections'[id] # Unlisted
        => \A p \in Editor :
             pc[p] = "writeSecond" /\ pc'[p] # pc[p] /\ Head(todo[p]).op = "import"
               => \A other \in Id : Listed(other) => connections[other].key # connections'[id].key
<1>1. ASSUME IInv, [Next]_vars PROVE NeverDuplicates
  <2> SUFFICES ASSUME NEW id \in Id, ~Listed(id), connections'[id] # Unlisted, NEW p \in Editor,
                      pc[p] = "writeSecond", pc'[p] # pc[p], Head(todo[p]).op = "import"
               PROVE  \A other \in Id : Listed(other) => connections[other].key # connections'[id].key
    OBVIOUS
  <2>0. PICK r : r = Head(todo[p])
    OBVIOUS
  <2>1. r.id \in Id /\ UpsertFits(p, r) /\ r.op = "import"
    BY <1>1, <2>0, BeingWritten DEF Writing
  <2>2. connections' # connections
    BY DEF Listed
  <2>3. connections' = cfile[p]
    <3>1. \A q \in Editor : q = p
      BY DEF OneEditor
    <3>2. WriteSecond(p)
      BY <1>1, <2>2, <3>1
      DEF Next, vars, fileVars, Upsert, Import, Delete, Call, ReadConnections, ReadSecrets, WriteFirst,
          Abort, EngineReadsConnections, EngineReadsSecrets
    <3> QED
      BY <2>0, <2>1, <3>2 DEF WriteSecond, SecretsFirst, WriteConnections
  <2>4. connections' = [connections EXCEPT ![r.id] = [key |-> r.key, auth |-> r.auth]]
    BY <2>1, <2>3 DEF UpsertFits
  <2>5. id = r.id /\ connections'[id].key = r.key
    BY <1>1, <2>1, <2>4 DEF IInv, TypeOK, Listed
  <2> QED
    BY <2>1, <2>5 DEF UpsertFits
<1>2. IInv /\ [Next]_vars => [NeverDuplicates]_vars
  BY <1>1
<1> QED
  BY Invariance, <1>2, PTL DEF ImportNeverDuplicates, Spec
================================================================================
