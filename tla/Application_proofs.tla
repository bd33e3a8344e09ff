-------------------------- MODULE Application_proofs --------------------------
(***************************************************************************)
(* Theorems about Application and the modules it composes, for any         *)
(* goroutines, sessions, names, scripts and bounds.                        *)
(***************************************************************************)
EXTENDS Application, GoData_proofs

----------------------------------------------------------------------------
(* Sets that hold at most one element, as the optional values of the parts.  *)

OneAtMost(S) == \A x, y \in S : x = y

LEMMA OneAtMostCardinality ==
  ASSUME NEW S, OneAtMost(S)
  PROVE  Cardinality(S) <= 1
<1>1. CASE S = {}
  BY <1>1, FS_EmptySet
<1>2. ASSUME NEW x \in S PROVE Cardinality(S) <= 1
  <2>1. S = {x}
    BY <1>2 DEF OneAtMost
  <2> QED BY <2>1, FS_Singleton
<1> QED BY <1>1, <1>2

----------------------------------------------------------------------------
(* The session store.                                                       *)

\* A record whose creation was dated by a worker's clock or by the store's.
Dated(record, n) == record.created \in (1..n) \cup {StoreClock}

StoredInv == /\ DOMAIN sessions \subseteq Sessions
             /\ \A s \in DOMAIN sessions :
                  sessions[s] \in Loadable /\ Dated(sessions[s], turns) /\ sessions[s].session = s

BaseInv == /\ base \in [Workers -> SUBSET Loadable]
           /\ \A w \in Workers : OneAtMost(base[w]) /\ \A b \in base[w] : Dated(b, turns)

DraftInv == /\ draft \in [Workers -> SUBSET Records]
            /\ \A w \in Workers : /\ OneAtMost(draft[w])
                                  /\ \A r \in draft[w] : r.created = 0 \/ Dated(r, turns)

ConversationInv == turns \in 0..MaxTurns /\ conversation \in [Workers -> Seq(Workers)] /\ deleted \subseteq Sessions

RecordsInv == ConversationInv /\ StoredInv /\ BaseInv /\ DraftInv

\* What SaveSession stores can be loaded.
LEMMA ResultIs ==
  ASSUME RecordsInv, NEW r \in Records, r.created = 0 \/ Dated(r, turns), Supported(r)
  PROVE  /\ Result(r) \in Loadable /\ Dated(Result(r), turns) /\ Result(r).session = r.session
         /\ Stored(r.session) => /\ Result(r).version = sessions[r.session].version + 1
                                 /\ Result(r).created = sessions[r.session].created
         /\ ~Stored(r.session) => Result(r).created \in {r.created, StoreClock}
<1> DEFINE s == r.session
           schema  == Normalized(r.schema)
           version == IF Stored(s) THEN sessions[s].version + 1 ELSE IF r.version = 0 THEN 1 ELSE r.version
           created == IF Stored(s) THEN sessions[s].created ELSE IF r.created = 0 THEN StoreClock ELSE r.created
<1>1. Result(r) = [r EXCEPT !.schema = schema, !.version = version, !.created = created]
  BY DEF Result
<1>2. schema = CurrentSessionSchemaVersion /\ CurrentSessionSchemaVersion \in 0..2
  BY DEF Supported, CurrentSessionSchemaVersion
<1>3. StoreClock \in Nat /\ StoreClock > 0 /\ turns \in Nat /\ turns < StoreClock
  BY TurnsAssumption DEF StoreClock, RecordsInv, ConversationInv
<1>4. Stored(s) => /\ sessions[s].version \in Nat /\ sessions[s].created \in 0..StoreClock /\ sessions[s].created > 0
                   /\ sessions[s].created \in (1..turns) \cup {StoreClock}
  BY DEF RecordsInv, StoredInv, Stored, Loadable, Records, Dated
<1>5. version \in Nat /\ version > 0
  BY <1>4 DEF Records
<1>6. created \in 0..StoreClock /\ created > 0 /\ created \in (1..turns) \cup {StoreClock}
  BY <1>3, <1>4 DEF Records, Dated
<1> HIDE DEF schema, version, created
<1>7. /\ Result(r) \in Records /\ Result(r).schema = schema /\ Result(r).version = version
      /\ Result(r).created = created /\ Result(r).session = s
  BY <1>1, <1>2, <1>5, <1>6 DEF Records
<1> QED BY <1>2, <1>5, <1>6, <1>7 DEF Loadable, Dated, version, created

\* A record that is about to be saved: with no version, read before, or new.
LEMMA DraftsAre ==
  ASSUME RecordsInv, NEW w \in Workers, turns < MaxTurns, NEW r \in Drafts(w)
  PROVE  /\ r \in Records /\ (r.created = 0 \/ Dated(r, turns + 1))
         /\ \/ r.version = 0 /\ r.created = 0
            \/ \E b \in base[w] : r.session = b.session /\ r.version = b.version /\ r.created = b.created
            \/ r.created = turns + 1
<1>0. StoreClock \in Nat /\ turns \in Nat /\ turns + 1 \in 0..StoreClock /\ conversation[w] \in Seq(Workers) /\ base[w] \subseteq Loadable
  BY TurnsAssumption DEF RecordsInv, ConversationInv, BaseInv, StoreClock
<1>1. CASE r \in Revised(w)
  <2>1. PICK b \in base[w] : r = [b EXCEPT !.snapshot = conversation[w]]
    BY <1>1 DEF Revised
  <2>2. b \in Records /\ Dated(b, turns)
    BY <1>0 DEF RecordsInv, BaseInv, Loadable
  <2>3. r \in Records /\ r.session = b.session /\ r.version = b.version /\ r.created = b.created
    BY <1>0, <2>1, <2>2 DEF Records
  <2>4. Dated(r, turns + 1)
    BY <1>0, <2>2, <2>3 DEF Dated
  <2> QED BY <2>3, <2>4
<1>2. ASSUME NEW s \in Sessions, r \in {NewSessionRecord(w, s)} \cup BareRecords(w, s)
      PROVE  r \in Records /\ ((r.version = 0 /\ r.created = 0) \/ r.created = turns + 1)
  <2>1. CASE r = NewSessionRecord(w, s)
    BY <1>0, <2>1 DEF NewSessionRecord, Record, Records, CurrentSessionSchemaVersion, Now
  <2>2. ASSUME NEW schema \in {0, 2}, r = Record(s, schema, 0, conversation[w], 0)
        PROVE  r \in Records /\ r.version = 0 /\ r.created = 0
    <3>1. schema \in 0..2 /\ 0 \in 0..StoreClock
      BY <1>0, <2>2
    <3> QED BY <1>0, <2>2, <3>1 DEF Record, Records
  <2> QED BY <1>2, <2>1, <2>2 DEF BareRecords
<1>3. r.created = turns + 1 => Dated(r, turns + 1)
  BY <1>0 DEF Dated
<1> QED BY <1>1, <1>2, <1>3 DEF Drafts

LEMMA RecordsStep ==
  ASSUME RecordsInv, NEW w \in Workers, StoreStep(w)
  PROVE  RecordsInv'
<1> USE DEF RecordsInv
<1>0. /\ turns \in Nat /\ MaxTurns \in Nat
      /\ Turn => turns' = turns + 1 /\ turns < MaxTurns /\ turns' \in 0..MaxTurns
      /\ turns' = turns \/ turns' = turns + 1 => \A r : Dated(r, turns) => Dated(r, turns')
  BY TurnsAssumption DEF ConversationInv, Turn, Now, Dated
<1>1. UNCHANGED <<sessions, base, draft>> /\ (turns' = turns \/ Turn) => (StoredInv /\ BaseInv /\ DraftInv)'
  BY <1>0 DEF StoredInv, BaseInv, DraftInv
<1>2. CASE SaveSession(w)
  <2>1. PICK r \in draft[w] :
          IF Supported(r) /\ Accepts(r)
            THEN sessions' = With(sessions, r.session, Result(r)) /\ base' = [base EXCEPT ![w] = {Result(r)}]
            ELSE UNCHANGED <<sessions, base>>
    BY <1>2 DEF SaveSession
  <2>2. turns' = turns /\ draft' = [draft EXCEPT ![w] = {}] /\ ConversationInv'
    BY <1>2 DEF SaveSession, ConversationInv
  <2>3. r \in Records /\ (r.created = 0 \/ Dated(r, turns)) /\ r.session \in Sessions
    BY DEF DraftInv, Records
  <2>4. DraftInv'
    BY <2>2 DEF DraftInv, OneAtMost
  <2>5. CASE Supported(r) /\ Accepts(r)
    <3>1. Result(r) \in Loadable /\ Dated(Result(r), turns) /\ Result(r).session = r.session
      BY <2>3, <2>5, ResultIs
    <3>2. StoredInv'
      <4>1. /\ DOMAIN sessions' = DOMAIN sessions \cup {r.session} /\ sessions'[r.session] = Result(r)
            /\ \A t \in DOMAIN sessions : t # r.session => sessions'[t] = sessions[t]
        <5>1. sessions' = With(sessions, r.session, Result(r))
          BY <2>1, <2>5
        <5> QED BY <5>1 DEF With
      <4>2. ASSUME NEW t \in DOMAIN sessions'
            PROVE  /\ sessions'[t] \in Loadable /\ Dated(sessions'[t], turns) /\ sessions'[t].session = t
                   /\ t \in Sessions
        <5>1. CASE t = r.session
          BY <2>3, <3>1, <4>1, <5>1
        <5>2. CASE t # r.session
          BY <4>1, <4>2, <5>2 DEF StoredInv
        <5> QED BY <5>1, <5>2
      <4> QED BY <2>2, <4>2 DEF StoredInv
    <3>3. BaseInv'
      BY <2>1, <2>2, <2>5, <3>1 DEF BaseInv, OneAtMost
    <3> QED BY <2>2, <2>4, <3>2, <3>3
  <2>6. CASE ~(Supported(r) /\ Accepts(r))
    BY <2>1, <2>2, <2>4, <2>6 DEF StoredInv, BaseInv
  <2> QED BY <2>5, <2>6
<1>3. CASE Converse(w) \/ Reset(w)
  <2>1. PICK c \in Seq(Workers) : conversation' = [conversation EXCEPT ![w] = c]
    <3>1. Append(conversation[w], w) \in Seq(Workers) /\ <<>> \in Seq(Workers)
      BY DEF ConversationInv
    <3> QED BY <1>3, <3>1 DEF Converse, Reset
  <2>2. ConversationInv'
    BY <1>0, <1>3, <2>1 DEF Converse, Reset, ConversationInv
  <2> QED BY <1>0, <1>1, <1>3, <2>2 DEF Converse, Reset
<1>4. CASE Restore(w)
  <2>1. \A b \in base[w] : b.snapshot \in Seq(Workers)
    BY DEF BaseInv, Loadable, Records
  <2>2. ConversationInv'
    BY <1>0, <1>4, <2>1 DEF Restore, ConversationInv
  <2> QED BY <1>1, <1>4, <2>2 DEF Restore
<1>5. CASE Prepare(w)
  <2>1. PICK r \in Drafts(w) : draft' = [draft EXCEPT ![w] = {r}]
    BY <1>5 DEF Prepare
  <2>2. turns' = turns + 1 /\ turns < MaxTurns /\ ConversationInv' /\ UNCHANGED <<sessions, base>>
    BY <1>0, <1>5 DEF Prepare, ConversationInv
  <2>3. r \in Records /\ (r.created = 0 \/ Dated(r, turns'))
    BY <2>2, DraftsAre
  <2>4. DraftInv'
    BY <1>0, <2>1, <2>2, <2>3 DEF DraftInv, OneAtMost
  <2>5. StoredInv' /\ BaseInv'
    BY <1>0, <2>2 DEF StoredInv, BaseInv
  <2> QED BY <2>2, <2>4, <2>5
<1>6. ASSUME NEW s \in Sessions, LoadSession(w, s) PROVE RecordsInv'
  <2>1. sessions[s] \in Loadable /\ Dated(sessions[s], turns)
    BY <1>6 DEF LoadSession, Stored, StoredInv
  <2>2. base' = [base EXCEPT ![w] = {sessions[s]}] /\ UNCHANGED <<sessions, draft, conversation, deleted>> /\ Turn
    BY <1>6 DEF LoadSession
  <2>3. BaseInv'
    BY <1>0, <2>1, <2>2 DEF BaseInv, OneAtMost
  <2> QED BY <1>0, <2>2, <2>3 DEF StoredInv, DraftInv, ConversationInv
<1>7. ASSUME NEW s \in Sessions, DeleteSession(s) PROVE RecordsInv'
  <2>1. StoredInv'
    BY <1>0, <1>7 DEF DeleteSession, StoredInv, Without
  <2> QED BY <1>0, <1>7, <2>1 DEF DeleteSession, BaseInv, DraftInv, ConversationInv
<1>8. ASSUME NEW s \in Sessions, ListSessionEvents(w, s) PROVE RecordsInv'
  BY <1>1, <1>8 DEF ListSessionEvents, ConversationInv
<1>9. ASSUME NEW s \in Sessions, NEW id, NEW sequence, AppendSessionEvent(w, s, id, sequence) PROVE RecordsInv'
  BY <1>0, <1>1, <1>9 DEF AppendSessionEvent, ConversationInv
<1> QED BY <1>2, <1>3, <1>4, <1>5, <1>6, <1>7, <1>8, <1>9 DEF StoreStep

\* A record that a worker has read is no newer than the stored one, and equal to it
\* when it has its version; unless the session was deleted since.
Follows(b) == b.session \in DOMAIN sessions /\ b.version <= sessions[b.session].version
              /\ (b.version = sessions[b.session].version => b = sessions[b.session])

VersionsInv == \A w \in Workers : \A b \in base[w] : b.session \notin deleted => Follows(b)

\* No record but a draft of this worker was created at the time n.
Unused(w, n) == /\ \A s \in DOMAIN sessions : sessions[s].created # n
                /\ \A v \in Workers : \A b \in base[v] : b.created # n
                /\ \A v \in Workers \ {w} : \A r \in draft[v] : r.created # n

Revises(w, r) == \E b \in base[w] : r.session = b.session /\ r.version = b.version /\ r.created = b.created

\* What a worker is about to save has no version, or is a record it has read, or is new.
DraftsInv == \A w \in Workers : \A r \in draft[w] :
  r.version = 0 \/ Revises(w, r) \/ (r.created \in 1..turns /\ Unused(w, r.created))

LEMMA VersionsStep ==
  ASSUME RecordsInv, VersionsInv, NEW w \in Workers, StoreStep(w)
  PROVE  VersionsInv'
<1> SUFFICES ASSUME NEW v \in Workers, NEW b \in base'[v], b.session \notin deleted'
             PROVE  Follows(b)'
  BY DEF VersionsInv
<1>0. /\ base \in [Workers -> SUBSET Loadable]
      /\ \A c \in base[v] : c.session \notin deleted => Follows(c)
  BY DEF RecordsInv, BaseInv, VersionsInv
<1>1. UNCHANGED <<sessions, base, deleted>> => Follows(b)'
  BY <1>0 DEF Follows
<1>2. CASE SaveSession(w)
  <2>1. PICK r \in draft[w] :
          IF Supported(r) /\ Accepts(r)
            THEN sessions' = With(sessions, r.session, Result(r)) /\ base' = [base EXCEPT ![w] = {Result(r)}]
            ELSE UNCHANGED <<sessions, base>>
    BY <1>2 DEF SaveSession
  <2>2. deleted' = deleted
    BY <1>2 DEF SaveSession
  <2>3. CASE Supported(r) /\ Accepts(r)
    <3> DEFINE s == r.session
    <3>1. sessions' = With(sessions, s, Result(r)) /\ base' = [base EXCEPT ![w] = {Result(r)}]
      BY <2>1, <2>3
    <3>2. r \in Records /\ (r.created = 0 \/ Dated(r, turns))
      BY DEF RecordsInv, DraftInv
    <3>3. /\ Result(r) \in Loadable /\ Result(r).session = s
          /\ s \in DOMAIN sessions => Result(r).version = sessions[s].version + 1
      BY <2>3, <3>2, ResultIs DEF Stored
    <3>4. /\ DOMAIN sessions' = DOMAIN sessions \cup {s} /\ sessions'[s] = Result(r)
          /\ \A t \in DOMAIN sessions : t # s => sessions'[t] = sessions[t]
      BY <3>1 DEF With
    <3> HIDE DEF s
    <3>5. CASE b \in base[v]
      <4>1. Follows(b) /\ b.version \in Nat
        BY <1>0, <2>2, <3>5 DEF Loadable, Records
      <4>2. CASE b.session = s
        <5>1. sessions'[b.session].version = sessions[s].version + 1 /\ sessions[s].version \in Nat
          BY <3>3, <3>4, <4>1, <4>2 DEF Follows, RecordsInv, StoredInv, Loadable, Records
        <5> QED BY <3>4, <4>1, <4>2, <5>1 DEF Follows
      <4>3. CASE b.session # s
        BY <3>4, <4>1, <4>3 DEF Follows
      <4> QED BY <4>2, <4>3
    <3>6. CASE b \notin base[v]
      <4>1. b = Result(r)
        BY <1>0, <3>1, <3>6
      <4>2. b.session = s /\ b.version \in Nat
        BY <3>3, <4>1 DEF Loadable, Records
      <4> QED BY <3>4, <4>1, <4>2 DEF Follows
    <3> QED BY <3>5, <3>6
  <2>4. CASE ~(Supported(r) /\ Accepts(r))
    BY <1>1, <2>1, <2>2, <2>4
  <2> QED BY <2>3, <2>4
<1>3. ASSUME NEW s \in Sessions, LoadSession(w, s) PROVE Follows(b)'
  <2>1. base' = [base EXCEPT ![w] = {sessions[s]}] /\ s \in DOMAIN sessions /\ UNCHANGED <<sessions, deleted>>
    BY <1>3 DEF LoadSession, Stored
  <2>2. CASE b = sessions[s]
    <3>1. b.session = s /\ b.version \in Nat
      BY <2>1, <2>2 DEF RecordsInv, StoredInv, Loadable, Records
    <3> QED BY <2>1, <2>2, <3>1 DEF Follows
  <2>3. CASE b # sessions[s]
    <3>1. b \in base[v]
      BY <1>0, <2>1, <2>3
    <3> QED BY <1>0, <2>1, <3>1 DEF Follows
  <2> QED BY <2>2, <2>3
<1>4. ASSUME NEW s \in Sessions, DeleteSession(s) PROVE Follows(b)'
  <2>1. /\ base' = base /\ deleted' = deleted \cup {s}
        /\ DOMAIN sessions' = DOMAIN sessions \ {s} /\ \A t \in DOMAIN sessions \ {s} : sessions'[t] = sessions[t]
    BY <1>4 DEF DeleteSession, Without
  <2> QED BY <1>0, <2>1 DEF Follows
<1>5. CASE ~SaveSession(w) /\ ~(\E s \in Sessions : LoadSession(w, s) \/ DeleteSession(s))
  BY <1>1, <1>5 DEF StoreStep, Converse, Reset, Restore, Prepare, ListSessionEvents, AppendSessionEvent
<1> QED BY <1>2, <1>3, <1>4, <1>5

LEMMA DraftsStep ==
  ASSUME RecordsInv, DraftsInv, NEW w \in Workers, StoreStep(w)
  PROVE  DraftsInv'
<1> SUFFICES ASSUME NEW v \in Workers, NEW r \in draft'[v], r.version # 0, ~Revises(v, r)'
             PROVE  (r.created \in 1..turns /\ Unused(v, r.created))'
  BY DEF DraftsInv
<1>0. /\ turns \in Nat /\ turns <= MaxTurns /\ MaxTurns \in Nat
      /\ draft \in [Workers -> SUBSET Records] /\ base \in [Workers -> SUBSET Loadable]
      /\ \A u \in draft[v] : u.version # 0 /\ ~Revises(v, u) => u.created \in 1..turns /\ Unused(v, u.created)
      /\ \A u \in Workers : OneAtMost(draft[u])
  BY TurnsAssumption DEF RecordsInv, ConversationInv, DraftInv, BaseInv, DraftsInv
<1>1. \/ UNCHANGED <<sessions, base, draft>> /\ turns' \in {turns, turns + 1} => (r.created \in 1..turns /\ Unused(v, r.created))'
  BY <1>0 DEF Revises, Unused
<1>2. CASE SaveSession(w)
  <2>1. PICK q \in draft[w] :
          IF Supported(q) /\ Accepts(q)
            THEN sessions' = With(sessions, q.session, Result(q)) /\ base' = [base EXCEPT ![w] = {Result(q)}]
            ELSE UNCHANGED <<sessions, base>>
    BY <1>2 DEF SaveSession
  <2>2. draft' = [draft EXCEPT ![w] = {}] /\ turns' = turns
    BY <1>2 DEF SaveSession
  <2>3. v # w /\ r \in draft[v] /\ base'[v] = base[v]
    BY <1>0, <2>1, <2>2
  <2>4. r.created \in 1..turns /\ Unused(v, r.created)
    BY <1>0, <2>3 DEF Revises
  <2>5. q.created # r.created /\ StoreClock # r.created
    BY <1>0, <2>3, <2>4 DEF Unused, StoreClock
  <2>6. \A u \in Workers : draft'[u] \subseteq draft[u]
    BY <1>0, <2>2
  <2>7. CASE Supported(q) /\ Accepts(q)
    <3>1. sessions' = With(sessions, q.session, Result(q)) /\ base' = [base EXCEPT ![w] = {Result(q)}]
      BY <2>1, <2>7
    <3>2. q \in Records /\ (q.created = 0 \/ Dated(q, turns))
      BY DEF RecordsInv, DraftInv
    <3>3. Result(q).created # r.created
      BY <2>4, <2>5, <2>7, <3>2, ResultIs DEF Stored, Unused
    <3>4. \A s \in DOMAIN sessions' : sessions'[s].created # r.created
      BY <2>4, <3>1, <3>3 DEF With, Unused
    <3>5. \A u \in Workers : \A b \in base'[u] : b.created # r.created
      BY <1>0, <2>4, <3>1, <3>3 DEF Unused
    <3> QED BY <2>2, <2>4, <2>6, <3>4, <3>5 DEF Unused
  <2>8. CASE ~(Supported(q) /\ Accepts(q))
    BY <2>1, <2>2, <2>4, <2>6, <2>8 DEF Unused
  <2> QED BY <2>7, <2>8
<1>3. CASE Prepare(w)
  <2>1. PICK q \in Drafts(w) : draft' = [draft EXCEPT ![w] = {q}]
    BY <1>3 DEF Prepare
  <2>2. turns' = turns + 1 /\ turns < MaxTurns /\ UNCHANGED <<sessions, base>>
    BY <1>3 DEF Prepare, Turn, Now
  <2>3. (q.version = 0 /\ q.created = 0) \/ Revises(w, q) \/ q.created = turns + 1
    BY <2>2, DraftsAre DEF Revises
  <2>5. /\ \A s \in DOMAIN sessions : sessions[s].created # turns + 1
        /\ \A u \in Workers : \A b \in base[u] : b.created # turns + 1
        /\ \A u \in Workers : \A d \in draft[u] : d.created # turns + 1
    BY <1>0, <2>2 DEF RecordsInv, StoredInv, BaseInv, DraftInv, Dated, StoreClock
  <2>6. CASE v = w
    <3>1. r = q /\ r.created = turns + 1
      BY <1>0, <2>1, <2>2, <2>3, <2>6 DEF Revises
    <3>2. \A u \in Workers \ {v} : draft'[u] = draft[u]
      BY <1>0, <2>1, <2>6
    <3> QED BY <1>0, <2>2, <2>5, <3>1, <3>2 DEF Unused
  <2>7. CASE v # w
    <3>1. r \in draft[v] /\ r.created \in 1..turns /\ Unused(v, r.created)
      BY <1>0, <2>1, <2>2, <2>7 DEF Revises
    <3>2. CASE q.created # r.created
      BY <1>0, <2>1, <2>2, <3>1, <3>2 DEF Unused
    <3>3. CASE q.created = r.created
      <4>1. Revises(w, q)
        BY <1>0, <2>3, <3>1, <3>3
      <4> QED BY <3>1, <3>3, <4>1 DEF Revises, Unused
    <3> QED BY <3>2, <3>3
  <2> QED BY <2>6, <2>7
<1>4. ASSUME NEW s \in Sessions, LoadSession(w, s), draft[w] = {} PROVE (r.created \in 1..turns /\ Unused(v, r.created))'
  <2>1. base' = [base EXCEPT ![w] = {sessions[s]}] /\ s \in DOMAIN sessions /\ UNCHANGED <<sessions, draft>> /\ turns' = turns + 1
    BY <1>4 DEF LoadSession, Stored, Turn, Now
  <2>2. v # w
    BY <1>4, <2>1
  <2>3. r.created \in 1..turns /\ Unused(v, r.created)
    BY <1>0, <2>1, <2>2 DEF Revises
  <2> QED BY <1>0, <2>1, <2>3 DEF Unused
<1>5. ASSUME NEW s \in Sessions, DeleteSession(s) PROVE (r.created \in 1..turns /\ Unused(v, r.created))'
  <2>1. /\ base' = base /\ draft' = draft /\ turns' = turns + 1
        /\ DOMAIN sessions' = DOMAIN sessions \ {s} /\ \A t \in DOMAIN sessions \ {s} : sessions'[t] = sessions[t]
    BY <1>5 DEF DeleteSession, Without, Turn, Now
  <2> QED BY <1>0, <2>1 DEF Unused, Revises
<1>6. CASE Converse(w) \/ Reset(w) \/ Restore(w) \/ \E s \in Sessions :
             \/ ListSessionEvents(w, s)
             \/ \E id \in EventIDs \cup {Unset}, sequence \in {0, Cursor(w, s) + 1} : AppendSessionEvent(w, s, id, sequence)
  BY <1>1, <1>6 DEF Converse, Reset, Restore, ListSessionEvents, AppendSessionEvent, Turn, Now
<1> QED BY <1>2, <1>3, <1>4, <1>5, <1>6 DEF StoreStep

\* What is read, drafted and stored of the records, in every reachable state.
SavesInv == RecordsInv /\ VersionsInv /\ DraftsInv

\* A save that goes through with a version replaces what its worker has read.
LEMMA SaveFollows ==
  ASSUME SavesInv, NEW v \in Workers, StoreStep(v), NEW w \in Workers, NEW r \in draft[w],
         Stored(r.session), r.session \notin deleted, draft'[w] = {}, sessions' # sessions,
         r.version # 0, r.created = sessions[r.session].created
  PROVE  base[w] = {sessions[r.session]}
<1>0. draft \in [Workers -> SUBSET Records] /\ OneAtMost(draft[w]) /\ OneAtMost(base[w])
  BY DEF SavesInv, RecordsInv, DraftInv, BaseInv
<1>1. SaveSession(v) /\ v = w
  <2>1. CASE SaveSession(v)
    BY <1>0, <2>1 DEF SaveSession
  <2>2. CASE ~SaveSession(v)
    <3>1. draft[v] = {}
      BY <2>2 DEF StoreStep
    <3>2. Prepare(v) \/ draft' = draft
      BY <2>2 DEF StoreStep, Converse, Reset, Restore, LoadSession, DeleteSession, ListSessionEvents, AppendSessionEvent
    <3>3. Prepare(v) => sessions' = sessions
      BY DEF Prepare
    <3> QED BY <3>2, <3>3
  <2> QED BY <2>1, <2>2
<1>2. Accepts(r)
  <2>1. PICK q \in draft[v] : Accepts(q)
    BY <1>1 DEF SaveSession
  <2> QED BY <1>0, <1>1, <2>1 DEF OneAtMost
<1>3. r.version = sessions[r.session].version
  BY <1>2 DEF Accepts
<1>4. PICK b \in base[w] : r.session = b.session /\ r.version = b.version /\ r.created = b.created
  BY DEF SavesInv, DraftsInv, Revises, Unused, Stored
<1>5. b = sessions[b.session]
  BY <1>3, <1>4 DEF SavesInv, VersionsInv, Follows
<1> QED BY <1>0, <1>4, <1>5 DEF OneAtMost

LEMMA SavesUnchanged ==
  ASSUME SavesInv, UNCHANGED <<storeVars, turns>> \/ (UNCHANGED storeVars /\ Turn)
  PROVE  SavesInv'
<1>0. turns \in Nat /\ turns' \in {turns, turns + 1} /\ turns' \in 0..MaxTurns
  BY TurnsAssumption DEF SavesInv, RecordsInv, ConversationInv, Turn, Now
<1>1. /\ UNCHANGED storeVars /\ \A r : Dated(r, turns) => Dated(r, turns')
  BY <1>0 DEF Dated
<1>2. RecordsInv'
  BY <1>0, <1>1 DEF SavesInv, RecordsInv, ConversationInv, StoredInv, BaseInv, DraftInv, storeVars
<1>3. VersionsInv'
  BY <1>1 DEF SavesInv, VersionsInv, Follows, storeVars
<1>4. DraftsInv'
  BY <1>0, <1>1 DEF SavesInv, DraftsInv, Revises, Unused, storeVars
<1> QED BY <1>2, <1>3, <1>4 DEF SavesInv

\* A log whose events bear their places as sequences.
Numbered(log) == \A i \in DOMAIN log : log[i].sequence = i

\* Of such a log, the events after n are the rest of it from n on.
LEMMA AfterIs ==
  ASSUME NEW S, NEW log \in Seq(S), Numbered(log), NEW n \in Nat
  PROVE  /\ After(log, n) \in Seq(S)
         /\ Len(After(log, n)) = (IF n < Len(log) THEN Len(log) - n ELSE 0)
         /\ \A k \in 1..Len(After(log, n)) : After(log, n)[k] = log[n + k]
<1> DEFINE later == {i \in DOMAIN log : log[i].sequence > n}
           c     == IF n < Len(log) THEN Len(log) - n ELSE 0
<1>1. DOMAIN log = 1..Len(log) /\ Len(log) \in Nat /\ c \in Nat
  OBVIOUS
<1>2. later = (n + 1)..Len(log) /\ later \subseteq DOMAIN log
  BY <1>1 DEF Numbered
<1>3. After(log, n) = Picked(log, later)
  BY DEF After
<1> HIDE DEF later
<1>4. Cardinality(later) = c
  <2>1. /\ Cardinality(later) = Cardinality((n + 1)..Len(log))
        /\ n + 1 \in Int /\ Len(log) \in Int
    BY <1>1, <1>2
  <2>2. Cardinality((n + 1)..Len(log)) = IF n + 1 > Len(log) THEN 0 ELSE Len(log) - (n + 1) + 1
    BY <2>1, FS_Interval
  <2> QED BY <1>1, <2>1, <2>2
<1>5. ASSUME NEW i \in later PROVE Rank(later, i) = i - n
  <2>1. i \in Int /\ n + 1 \in Int /\ i > n /\ {j \in later : j <= i} = (n + 1)..i
    BY <1>1, <1>2
  <2>2. Rank(later, i) = Cardinality((n + 1)..i)
    BY <2>1 DEF Rank
  <2>3. Cardinality((n + 1)..i) = IF n + 1 > i THEN 0 ELSE i - (n + 1) + 1
    BY <2>1, FS_Interval
  <2> QED BY <2>1, <2>2, <2>3
<1>6. /\ After(log, n) \in Seq(S) /\ Len(After(log, n)) = c
      /\ \A i \in later : After(log, n)[Rank(later, i)] = log[i]
  BY <1>2, <1>3, <1>4, PickedIs
<1>7. ASSUME NEW k \in 1..c PROVE After(log, n)[k] = log[n + k]
  <2>1. n + k \in later
    BY <1>1, <1>2
  <2>2. Rank(later, n + k) = k
    BY <1>1, <1>5, <2>1
  <2> QED BY <1>6, <2>1, <2>2
<1> QED BY <1>6, <1>7

AnyEvent == [id: EventIDs \cup (Sessions \X Nat), sequence: Nat]

Named(log) == \A i, j \in DOMAIN log : log[i].id = log[j].id => i = j

GoodLog(s, log, n) == log \in Seq(Event(s)) /\ Len(log) <= n /\ Numbered(log) /\ Named(log)

Heads(seen, log) == Len(seen) <= Len(log) /\ \A i \in 1..Len(seen) : seen[i] = log[i]

\* The logs are numbered, and every worker has seen a first part of those it follows.
LogsInv ==
  /\ turns \in 0..MaxTurns /\ deleted \subseteq Sessions
  /\ DOMAIN events \subseteq Sessions /\ \A s \in Sessions : GoodLog(s, Log(s), turns)
  /\ DOMAIN followed = Workers /\ \A w \in Workers : DOMAIN followed[w] = Sessions
  /\ \A w \in Workers, s \in Sessions :
       followed[w][s] \in Seq(Event(s)) /\ (s \notin deleted => Heads(followed[w][s], Log(s)))

LEMMA GoodAppend ==
  ASSUME NEW s \in Sessions, NEW log, NEW id \in EventIDs \cup {Generated(s, Len(log) + 1)},
         NEW n \in Nat, n < MaxTurns, GoodLog(s, log, n), \A i \in DOMAIN log : log[i].id # id
  PROVE  /\ GoodLog(s, Append(log, [id |-> id, sequence |-> Len(log) + 1]), n + 1)
         /\ \A seen \in Seq(Event(s)) :
              Heads(seen, log) => Heads(seen, Append(log, [id |-> id, sequence |-> Len(log) + 1]))
<1> DEFINE event == [id |-> id, sequence |-> Len(log) + 1]
           new == Append(log, event)
<1>1. log \in Seq(Event(s)) /\ Len(log) \in Nat /\ Len(log) <= n /\ MaxTurns \in Nat /\ DOMAIN log = 1..Len(log)
  BY TurnsAssumption DEF GoodLog
<1>2. event \in Event(s)
  <2>1. Len(log) + 1 \in 1..MaxTurns
    BY <1>1
  <2> QED BY <2>1 DEF Event
<1>3. event.id = id /\ event.sequence = Len(log) + 1
  OBVIOUS
<1> HIDE DEF event
<1>4. /\ new \in Seq(Event(s)) /\ Len(new) = Len(log) + 1 /\ DOMAIN new = 1..(Len(log) + 1)
      /\ new[Len(log) + 1] = event /\ \A i \in DOMAIN log : new[i] = log[i]
  BY <1>1, <1>2
<1> HIDE DEF new
<1>5. \A i \in DOMAIN new : i \in DOMAIN log \/ i = Len(log) + 1
  BY <1>1, <1>4
<1>6. Numbered(new) /\ Named(new)
  BY <1>3, <1>4, <1>5 DEF GoodLog, Numbered, Named
<1>7. GoodLog(s, new, n + 1)
  BY <1>1, <1>4, <1>6 DEF GoodLog
<1>8. ASSUME NEW seen \in Seq(Event(s)), Heads(seen, log) PROVE Heads(seen, new)
  BY <1>1, <1>4, <1>8 DEF Heads
<1> QED BY <1>7, <1>8 DEF new, event

LEMMA GoodLater ==
  ASSUME NEW s, NEW log, NEW m \in Nat, NEW n \in Nat, m <= n, GoodLog(s, log, m)
  PROVE  GoodLog(s, log, n)
<1>1. log \in Seq(Event(s)) /\ Len(log) \in Nat /\ Len(log) <= m
  BY DEF GoodLog
<1>2. Len(log) <= n
  BY <1>1
<1> QED BY <1>2 DEF GoodLog

LEMMA LogsStep ==
  ASSUME LogsInv, NEW w \in Workers, StoreStep(w)
  PROVE  LogsInv'
<1>0. /\ turns \in Nat /\ MaxTurns \in Nat /\ turns <= MaxTurns
      /\ Turn => turns' = turns + 1 /\ turns < MaxTurns /\ turns' \in 0..MaxTurns
  BY TurnsAssumption DEF LogsInv, Turn, Now
<1>1. ASSUME UNCHANGED <<events, followed, deleted>>, turns' = turns \/ Turn PROVE LogsInv'
  BY <1>0, <1>1 DEF LogsInv, GoodLog, Log
<1>2. CASE \/ SaveSession(w) \/ Converse(w) \/ Reset(w) \/ Restore(w) \/ Prepare(w)
           \/ \E s \in Sessions : LoadSession(w, s)
  BY <1>1, <1>2 DEF SaveSession, Converse, Reset, Restore, Prepare, LoadSession
<1>3. ASSUME NEW s \in Sessions, DeleteSession(s) PROVE LogsInv'
  <2>1. /\ DOMAIN events' \subseteq Sessions /\ deleted' = deleted \cup {s} /\ followed' = followed
        /\ turns' \in 0..MaxTurns /\ turns' = turns + 1
    BY <1>0, <1>3 DEF DeleteSession, Without, LogsInv
  <2>2. \A t \in Sessions : (t # s /\ Log(t)' = Log(t)) \/ (t = s /\ Log(t)' = <<>>)
    BY <1>3 DEF DeleteSession, Without, Log
  <2>3. GoodLog(s, <<>>, turns')
    BY <1>0, <2>1 DEF GoodLog, Numbered, Named
  <2>4. \A t \in Sessions : GoodLog(t, Log(t)', turns')
    <3>1. \A t \in Sessions : GoodLog(t, Log(t), turns)
      BY DEF LogsInv
    <3>2. \A t \in Sessions : GoodLog(t, Log(t), turns')
      BY <1>0, <2>1, <3>1, GoodLater
    <3> QED BY <2>2, <2>3, <3>2
  <2> QED BY <2>1, <2>2, <2>4 DEF LogsInv
<1>4. ASSUME NEW s \in Sessions, ListSessionEvents(w, s) PROVE LogsInv'
  <2> DEFINE seen == followed[w][s]
             new  == After(Log(s), Cursor(w, s))
  <2>1. /\ followed' = [followed EXCEPT ![w][s] = seen \o new] /\ UNCHANGED <<events, deleted, turns>>
    BY <1>4 DEF ListSessionEvents
  <2>2. /\ seen \in Seq(Event(s)) /\ Log(s) \in Seq(Event(s)) /\ Numbered(Log(s))
    BY DEF LogsInv, GoodLog
  <2>3. Cursor(w, s) = (IF seen = <<>> THEN 0 ELSE seen[Len(seen)].sequence)
    BY DEF Cursor
  <2>4. Cursor(w, s) \in Nat
    <3>1. CASE seen # <<>>
      <4>1. seen[Len(seen)] \in Event(s)
        BY <2>2, <3>1
      <4> QED BY <1>0, <2>3, <3>1, <4>1 DEF Event
    <3> QED BY <2>3, <3>1
  <2>5. /\ new \in Seq(Event(s))
        /\ Len(new) = (IF Cursor(w, s) < Len(Log(s)) THEN Len(Log(s)) - Cursor(w, s) ELSE 0)
        /\ \A k \in 1..Len(new) : new[k] = Log(s)[Cursor(w, s) + k]
    BY <2>2, <2>4, AfterIs
  <2> HIDE DEF new
  <2>6. seen \o new \in Seq(Event(s))
    BY <2>2, <2>5
  <2>7. ASSUME s \notin deleted PROVE Heads(seen \o new, Log(s))
    <3>1. Heads(seen, Log(s))
      BY <2>7 DEF LogsInv
    <3>2. Cursor(w, s) = Len(seen)
      <4>1. CASE seen # <<>>
        <5>1. Len(seen) \in 1..Len(seen) /\ Len(seen) \in DOMAIN Log(s) /\ seen[Len(seen)] = Log(s)[Len(seen)]
          BY <2>2, <3>1, <4>1 DEF Heads
        <5> QED BY <2>2, <2>3, <4>1, <5>1 DEF Numbered
      <4>2. CASE seen = <<>>
        BY <2>3, <4>2
      <4> QED BY <4>1, <4>2
    <3>3. Len(seen) \in Nat /\ Len(Log(s)) \in Nat /\ Len(new) = Len(Log(s)) - Len(seen) /\ Len(seen \o new) = Len(Log(s))
      <4>1. Len(seen) \in Nat /\ Len(Log(s)) \in Nat /\ Len(seen) <= Len(Log(s)) /\ Len(new) \in Nat
        BY <2>2, <2>5, <3>1 DEF Heads
      <4>2. Len(new) = Len(Log(s)) - Len(seen)
        <5> HIDE DEF seen
        <5>1. Len(new) = IF Len(seen) < Len(Log(s)) THEN Len(Log(s)) - Len(seen) ELSE 0
          BY <2>5, <3>2
        <5> QED BY <4>1, <5>1
      <4>3. Len(seen \o new) = Len(seen) + Len(new)
        BY SMTT(30), <2>2, <2>5
      <4> QED BY <4>1, <4>2, <4>3
    <3>4. ASSUME NEW i \in 1..Len(seen \o new) PROVE (seen \o new)[i] = Log(s)[i]
      <4>1. CASE i <= Len(seen)
        BY <2>2, <2>5, <3>1, <3>3, <4>1 DEF Heads
      <4>2. CASE i > Len(seen)
        <5>1. i - Len(seen) \in 1..Len(new) /\ (seen \o new)[i] = new[i - Len(seen)]
          BY <2>2, <2>5, <3>3, <4>2
        <5>2. new[i - Len(seen)] = Log(s)[Cursor(w, s) + (i - Len(seen))]
          BY <2>5, <5>1
        <5> QED BY <3>2, <3>3, <5>1, <5>2
      <4> QED BY <3>3, <4>1, <4>2
    <3> QED BY <3>3, <3>4 DEF Heads
  <2> HIDE DEF seen
  <2>8. /\ DOMAIN followed' = Workers /\ \A v \in Workers : DOMAIN followed'[v] = Sessions
        /\ followed'[w][s] = seen \o new
        /\ \A v \in Workers, t \in Sessions : v # w \/ t # s => followed'[v][t] = followed[v][t]
    BY <2>1 DEF LogsInv
  <2>9. \A t \in Sessions : Log(t)' = Log(t)
    BY <2>1 DEF Log
  <2>10. ASSUME NEW v \in Workers, NEW t \in Sessions
         PROVE  followed'[v][t] \in Seq(Event(t)) /\ (t \notin deleted => Heads(followed'[v][t], Log(t)))
    <3>1. CASE v = w /\ t = s
      BY <2>6, <2>7, <2>8, <3>1
    <3>2. CASE ~(v = w /\ t = s)
      BY <2>8, <3>2 DEF LogsInv
    <3> QED BY <3>1, <3>2
  <2> QED BY <2>1, <2>8, <2>9, <2>10 DEF LogsInv
<1>5. ASSUME NEW s \in Sessions, NEW id \in EventIDs \cup {Unset}, NEW sequence, AppendSessionEvent(w, s, id, sequence)
      PROVE  LogsInv'
  <2> DEFINE name_ == IF id = Unset THEN Generated(s, Len(Log(s)) + 1) ELSE id
             new   == Append(Log(s), [id |-> name_, sequence |-> Len(Log(s)) + 1])
  <2>1. /\ events' = With(events, s, new) /\ UNCHANGED <<followed, deleted>> /\ Turn
        /\ \A i \in DOMAIN Log(s) : Log(s)[i].id # name_
    BY <1>5 DEF AppendSessionEvent
  <2>2. name_ \in EventIDs \cup {Generated(s, Len(Log(s)) + 1)}
    OBVIOUS
  <2>3. GoodLog(s, Log(s), turns)
    BY DEF LogsInv
  <2> HIDE DEF name_
  <2>4. GoodLog(s, new, turns + 1) /\ \A seen \in Seq(Event(s)) : Heads(seen, Log(s)) => Heads(seen, new)
    BY <1>0, <2>1, <2>2, <2>3, GoodAppend
  <2> HIDE DEF new
  <2>5. \A t \in Sessions : (t # s /\ Log(t)' = Log(t)) \/ (t = s /\ Log(t)' = new)
    BY <2>1 DEF Log, With
  <2>6. DOMAIN events' \subseteq Sessions
    BY <2>1 DEF With, LogsInv
  <2>7. \A t \in Sessions : GoodLog(t, Log(t)', turns')
    <3>1. \A t \in Sessions : GoodLog(t, Log(t), turns)
      BY DEF LogsInv
    <3>2. \A t \in Sessions : GoodLog(t, Log(t), turns')
      BY <1>0, <2>1, <3>1, GoodLater
    <3> QED BY <1>0, <2>1, <2>4, <2>5, <3>2
  <2>8. \A v \in Workers, t \in Sessions : t \notin deleted => Heads(followed[v][t], Log(t)')
    BY <2>4, <2>5 DEF LogsInv
  <2> QED BY <1>0, <2>1, <2>6, <2>7, <2>8 DEF LogsInv
<1> QED BY <1>2, <1>3, <1>4, <1>5 DEF StoreStep

\* A step is of the store, of the family or of neither; what is not of a part
\* leaves its state alone and may begin a turn.
OtherStep == UNCHANGED storeVars /\ (UNCHANGED turns \/ Turn)

LEMMA PartTurns ==
  ASSUME NEW w \in Workers
  PROVE  /\ StoreStep(w) => UNCHANGED turns \/ Turn
         /\ FamilyStep(w) => UNCHANGED turns \/ Turn
         /\ EvalStep(w) => UNCHANGED turns \/ Turn
<1>1. StoreStep(w) => UNCHANGED turns \/ Turn
  BY DEF StoreStep, SaveSession, Converse, Reset, Restore, Prepare, LoadSession, DeleteSession,
         ListSessionEvents, AppendSessionEvent
<1>2. FamilyStep(w) => UNCHANGED turns \/ Turn
  BY DEF FamilyStep, Acquire, GiveUp, Return, Spawned, Run, SendMessageToSubagent, SpawnSubagent,
         Fork, SendToParent, DrainSubagentMessages
<1>3. EvalStep(w) => UNCHANGED turns \/ Turn
  BY DEF EvalStep, EvalTurn, EvalRun, Generate, RecordModelExchange, ExecuteTool, CallTool, FailTool,
         RecordRun, Transcript, ResetRecorder
<1> QED BY <1>1, <1>2, <1>3

LEMMA StoreCases ==
  ASSUME [Next]_vars
  PROVE  (\E w \in Workers : StoreStep(w)) \/ OtherStep
BY PartTurns DEF Next, Step, vars, OtherStep

LEMMA FamilyCases ==
  ASSUME [Next]_vars
  PROVE  (\E w \in Workers : FamilyStep(w)) \/ (UNCHANGED familyVars /\ (UNCHANGED turns \/ Turn))
BY PartTurns DEF Next, Step, vars

LEMMA EvalCases ==
  ASSUME [Next]_vars
  PROVE  (\E w \in Workers : EvalStep(w)) \/ UNCHANGED evalVars
BY DEF Next, Step, vars

StoreInv == SavesInv /\ LogsInv

LEMMA StoreInvariant == Spec => []StoreInv
<1>1. Init => StoreInv
  <2> SUFFICES ASSUME Init PROVE StoreInv
    OBVIOUS
  <2>1. /\ turns = 0 /\ turns \in 0..MaxTurns /\ deleted = {} /\ sessions = << >> /\ events = << >>
        /\ conversation = [w \in Workers |-> <<>>] /\ base = [w \in Workers |-> {}]
        /\ draft = [w \in Workers |-> {}] /\ followed = [w \in Workers |-> [s \in Sessions |-> <<>>]]
    BY TurnsAssumption DEF Init, StoreInit
  <2>2. DOMAIN sessions = {} /\ DOMAIN events = {}
    BY <2>1
  <2>3. RecordsInv
    BY <2>1, <2>2 DEF RecordsInv, ConversationInv, StoredInv, BaseInv, DraftInv, OneAtMost
  <2>4. VersionsInv /\ DraftsInv
    BY <2>1, <2>2 DEF VersionsInv, DraftsInv
  <2>5. \A s \in Sessions : Log(s) = <<>>
    BY <2>2 DEF Log
  <2>6. \A s \in Sessions : GoodLog(s, <<>>, turns) /\ Heads(<<>>, <<>>) /\ <<>> \in Seq(Event(s))
    BY <2>1 DEF GoodLog, Numbered, Named, Heads
  <2>7. LogsInv
    BY <2>1, <2>2, <2>5, <2>6 DEF LogsInv
  <2> QED BY <2>3, <2>4, <2>7 DEF StoreInv, SavesInv
<1>2. StoreInv /\ [Next]_vars => StoreInv'
  <2>1. ASSUME StoreInv, NEW w \in Workers, StoreStep(w) PROVE StoreInv'
    BY <2>1, RecordsStep, VersionsStep, DraftsStep, LogsStep DEF StoreInv, SavesInv
  <2>2. ASSUME StoreInv, OtherStep PROVE StoreInv'
    <3>1. SavesInv'
      BY <2>2, SavesUnchanged DEF StoreInv, OtherStep, storeVars
    <3>2. /\ turns \in Nat /\ turns' \in 0..MaxTurns /\ turns' \in {turns, turns + 1}
          /\ UNCHANGED <<events, followed, deleted>>
      BY <2>2, TurnsAssumption DEF StoreInv, LogsInv, OtherStep, Turn, Now, storeVars
    <3>3. \A s \in Sessions : Log(s)' = Log(s) /\ GoodLog(s, Log(s), turns')
      <4>1. \A s \in Sessions : Log(s)' = Log(s) /\ GoodLog(s, Log(s), turns)
        BY <2>2, <3>2 DEF StoreInv, LogsInv, Log
      <4> QED BY <3>2, <4>1, GoodLater
    <3>4. LogsInv'
      BY <2>2, <3>2, <3>3 DEF StoreInv, LogsInv
    <3> QED BY <3>1, <3>4 DEF StoreInv
  <2> QED BY <2>1, <2>2, StoreCases
<1> QED BY <1>1, <1>2, PTL DEF Spec

\* A save that carries the version of a record its worker has read replaces that
\* very record: SaveSession (session_persistence.go:177-214) among any saves,
\* loads and deletions of others.
THEOREM SavesFollowReads == Spec => UpdateFollowsRead
<1>1. StoreInv /\ [Next]_vars =>
     [\A w \in Workers : \A record \in draft[w] :
       LET s == record.session
       IN /\ Stored(s) /\ s \notin deleted /\ draft'[w] = {} /\ sessions' # sessions
          /\ record.version # 0 /\ record.created = sessions[s].created
          => base[w] = {sessions[s]}]_storeVars
  <2> SUFFICES ASSUME StoreInv, [Next]_vars, ~UNCHANGED storeVars, NEW w \in Workers, NEW r \in draft[w],
                      Stored(r.session), r.session \notin deleted, draft'[w] = {}, sessions' # sessions,
                      r.version # 0, r.created = sessions[r.session].created
               PROVE  base[w] = {sessions[r.session]}
    OBVIOUS
  <2>1. PICK v \in Workers : StoreStep(v)
    BY StoreCases DEF OtherStep
  <2> QED BY <2>1, SaveFollows DEF StoreInv
<1> QED BY <1>1, StoreInvariant, PTL DEF Spec, UpdateFollowsRead

\* Whoever asks for the events after the last one it knows sees each event once,
\* in order, and an ID names one event (AppendSessionEvent and ListSessionEvents,
\* session_persistence.go:268-338).
THEOREM FollowersSee == Spec => []FollowersSeeLog
<1>1. StoreInv => FollowersSeeLog
  <2> SUFFICES ASSUME StoreInv, NEW s \in Sessions
               PROVE  /\ \A i, j \in DOMAIN Log(s) : Log(s)[i].id = Log(s)[j].id => i = j
                      /\ s \notin deleted => \A w \in Workers :
                           /\ Len(followed[w][s]) <= Len(Log(s))
                           /\ followed[w][s] = SubSeq(Log(s), 1, Len(followed[w][s]))
                           /\ InReplayOrder(followed[w][s])
    BY DEF FollowersSeeLog
  <2>1. Log(s) \in Seq(Event(s)) /\ Numbered(Log(s)) /\ Named(Log(s))
    BY DEF StoreInv, LogsInv, GoodLog
  <2>2. ASSUME NEW w \in Workers, s \notin deleted
        PROVE  /\ Len(followed[w][s]) <= Len(Log(s))
               /\ followed[w][s] = SubSeq(Log(s), 1, Len(followed[w][s]))
               /\ InReplayOrder(followed[w][s])
    <3> DEFINE seen == followed[w][s]
               log  == Log(s)
    <3>1. seen \in Seq(Event(s)) /\ log \in Seq(Event(s)) /\ Heads(seen, log)
      BY <2>1, <2>2 DEF StoreInv, LogsInv
    <3> HIDE DEF seen, log
    <3>2. /\ Len(seen) \in Nat /\ Len(log) \in Nat /\ Len(seen) <= Len(log)
          /\ DOMAIN seen = 1..Len(seen) /\ DOMAIN log = 1..Len(log)
          /\ \A i \in 1..Len(seen) : seen[i] = log[i]
      BY <3>1 DEF Heads
    <3>3. seen = SubSeq(log, 1, Len(seen))
      <4>1. SubSeq(log, 1, Len(seen)) \in Seq(Event(s)) /\ Len(SubSeq(log, 1, Len(seen))) = Len(seen)
        BY <3>1, <3>2
      <4>2. \A i \in 1..Len(seen) : SubSeq(log, 1, Len(seen))[i] = log[i]
        BY <3>1, <3>2
      <4> QED BY <3>1, <3>2, <4>1, <4>2
    <3>4. \A i \in DOMAIN seen : seen[i].sequence = i
      BY <2>1, <3>2 DEF Numbered, log
    <3>5. InReplayOrder(seen)
      <4> SUFFICES ASSUME NEW i \in DOMAIN seen
                   PROVE  seen[i].sequence > IF i = 1 THEN 0 ELSE seen[i - 1].sequence
        BY DEF InReplayOrder
      <4>1. i \in Nat /\ i > 0 /\ (i # 1 => i - 1 \in DOMAIN seen)
        BY <3>2
      <4>2. seen[i].sequence = i /\ (i # 1 => seen[i - 1].sequence = i - 1)
        BY <3>4, <4>1
      <4> QED BY <4>1, <4>2
    <3> QED BY <3>2, <3>3, <3>5 DEF seen, log
  <2> QED BY <2>1, <2>2 DEF Named
<1> QED BY <1>1, StoreInvariant, PTL

----------------------------------------------------------------------------
(* The family.                                                             *)

Spawners == {w \in Workers : spawning[w] # {}}

\* The agents are numbered, and each was paid for by a turn, as will be those that
\* are being spawned.
MadeInv ==
  /\ turns \in 0..MaxTurns
  /\ Cardinality(Agents) \in Nat \ {0} /\ Agents = 0..(Cardinality(Agents) - 1)
  /\ IsFiniteSet(Spawners) /\ Cardinality(Agents) + Cardinality(Spawners) <= turns + 1

KnownInv == \A a \in Agents :
  /\ IsFiniteSet(DOMAIN subagents[a])
  /\ \A id \in DOMAIN subagents[a] : id \in IDs /\ subagents[a][id] \in Agents

InboxInv == \A a \in Agents : \A id \in DOMAIN inbox[a] : id \in IDs /\ inbox[a][id] \in Seq(Agents)

TreeInv ==
  /\ parent \in [Agents -> {NoParent} \cup Agents] /\ name \in [Agents -> IDs]
  /\ DOMAIN subagents = Agents /\ DOMAIN inbox = Agents
  /\ KnownInv /\ InboxInv

\* A spawn between its critical sections has an ID that was free in the first.
ChainInv ==
  /\ chain \in [Workers -> Seq(Agents)] /\ wanted \in [Workers -> SUBSET Agents]
  /\ DOMAIN spawning = Workers
  /\ \A w \in Workers :
       /\ OneAtMost(wanted[w] \cup spawning[w])
       /\ \A child \in spawning[w] : child.of \in Agents /\ child.id \in IDs /\ child.id \notin child.known

FamilyInv == MadeInv /\ TreeInv /\ ChainInv

LEMMA SeqGrows ==
  ASSUME NEW S, NEW T, S \subseteq T, NEW q \in Seq(S)
  PROVE  q \in Seq(T)
OBVIOUS

\* What a new agent adds to the family.
LEMMA NewAgentIs ==
  ASSUME MadeInv, TreeInv, NEW id \in IDs, NEW of \in Agents \cup {NoParent}, NewAgent(id, of)
  PROVE  /\ Agents' = Agents \cup {Cardinality(Agents)} /\ Cardinality(Agents) \notin Agents
         /\ Agents' = 0..Cardinality(Agents) /\ Cardinality(Agents)' = Cardinality(Agents) + 1
         /\ TreeInv'
         /\ \A a \in Agents : \A known \in DOMAIN subagents[a] :
              \/ known \in DOMAIN subagents'[a] /\ subagents'[a][known] = subagents[a][known]
              \/ a = of /\ known = id
<1> DEFINE new == Cardinality(Agents)
<1>1. new \in Nat /\ Agents = 0..(new - 1) /\ new \notin Agents /\ NoParent \notin Agents
  BY DEF MadeInv, NoParent
<1>2. Agents \cup {new} = 0..new /\ Agents \subseteq Agents \cup {new}
  BY <1>1
<1>3. Cardinality(0..new) = new + 1
  <2>1. new \in Int /\ 0 \in Int /\ ~(0 > new)
    BY <1>1
  <2> HIDE DEF new
  <2> QED BY <2>1, FS_Interval
<1> HIDE DEF new
<1>4. /\ parent' = With(parent, new, of) /\ name' = With(name, new, id) /\ inbox' = With(inbox, new, << >>)
      /\ subagents' = IF of = NoParent THEN With(subagents, new, << >>)
                      ELSE [With(subagents, new, << >>) EXCEPT ![of] = With(@, id, new)]
  BY DEF NewAgent, new
<1>5. Agents' = Agents \cup {new}
  BY <1>4 DEF Agents, With
<1>6. Agents' = 0..new /\ Cardinality(Agents)' = new + 1
  BY <1>2, <1>3, <1>5
<1>7. parent' \in [Agents' -> {NoParent} \cup Agents'] /\ name' \in [Agents' -> IDs] /\ DOMAIN inbox' = Agents'
  BY <1>4, <1>5 DEF TreeInv, With
<1>8. /\ DOMAIN subagents' = Agents' /\ DOMAIN subagents'[new] = {}
      /\ \A a \in Agents : a # of => subagents'[a] = subagents[a]
      /\ of \in Agents => subagents'[of] = With(subagents[of], id, new)
  <2>1. DOMAIN subagents = Agents
    BY DEF TreeInv
  <2>2. DOMAIN With(subagents, new, << >>) = Agents' /\ With(subagents, new, << >>)[new] = << >>
        /\ \A a \in Agents : With(subagents, new, << >>)[a] = subagents[a]
    BY <1>1, <1>5, <2>1 DEF With
  <2>3. CASE of = NoParent
    BY <1>1, <1>4, <2>2, <2>3
  <2>4. CASE of \in Agents
    <3>1. subagents' = [With(subagents, new, << >>) EXCEPT ![of] = With(@, id, new)]
      BY <1>1, <1>4, <2>4
    <3> QED BY <1>1, <1>5, <2>2, <2>4, <3>1
  <2> QED BY <2>3, <2>4
<1>9. KnownInv'
  <2> SUFFICES ASSUME NEW a \in Agents'
               PROVE  IsFiniteSet(DOMAIN subagents'[a])
                      /\ \A known \in DOMAIN subagents'[a] : known \in IDs /\ subagents'[a][known] \in Agents'
    BY DEF KnownInv
  <2>1. CASE a = new
    BY <1>8, <2>1, FS_EmptySet
  <2>2. CASE a \in Agents /\ a # of
    BY <1>5, <1>8, <2>2 DEF TreeInv, KnownInv
  <2>3. CASE a \in Agents /\ a = of
    <3>1. DOMAIN subagents'[a] = DOMAIN subagents[a] \cup {id}
          /\ \A known \in DOMAIN subagents'[a] :
               subagents'[a][known] = IF known = id THEN new ELSE subagents[a][known]
      BY <1>8, <2>3 DEF With
    <3>2. IsFiniteSet(DOMAIN subagents[a])
      BY <2>3 DEF TreeInv, KnownInv
    <3>3. IsFiniteSet(DOMAIN subagents'[a])
      BY <3>1, <3>2, FS_AddElement
    <3> QED BY <1>5, <2>3, <3>1, <3>3 DEF TreeInv, KnownInv
  <2> QED BY <1>5, <2>1, <2>2, <2>3
<1>10. InboxInv'
  <2> SUFFICES ASSUME NEW a \in Agents', NEW from \in DOMAIN inbox'[a]
               PROVE  from \in IDs /\ inbox'[a][from] \in Seq(Agents')
    BY DEF InboxInv
  <2>1. a \in Agents /\ inbox'[a] = inbox[a]
    BY <1>1, <1>4, <1>5 DEF TreeInv, With
  <2>2. from \in IDs /\ inbox[a][from] \in Seq(Agents)
    BY <2>1 DEF TreeInv, InboxInv
  <2> QED BY <1>5, <2>1, <2>2, SeqGrows
<1>11. ASSUME NEW a \in Agents, NEW known \in DOMAIN subagents[a]
       PROVE  \/ known \in DOMAIN subagents'[a] /\ subagents'[a][known] = subagents[a][known]
              \/ a = of /\ known = id
  BY <1>8 DEF With
<1> QED BY <1>1, <1>5, <1>6, <1>7, <1>8, <1>9, <1>10, <1>11 DEF TreeInv, new

\* The agents are as they were, and no spawn began or ended.
LEMMA MadeKept ==
  ASSUME MadeInv, parent' = parent, Spawners' = Spawners, UNCHANGED turns \/ Turn
  PROVE  MadeInv'
<1>1. Agents' = Agents /\ turns \in Nat /\ turns' \in 0..MaxTurns /\ turns' >= turns
  BY TurnsAssumption DEF MadeInv, Agents, Turn, Now
<1>2. Cardinality(Agents)' = Cardinality(Agents) /\ Cardinality(Spawners)' = Cardinality(Spawners)
  BY <1>1
<1>3. Cardinality(Spawners) \in Nat
  BY FS_CardinalityType DEF MadeInv
<1> QED BY <1>1, <1>2, <1>3 DEF MadeInv

LEMMA MadeStep ==
  ASSUME FamilyInv, NEW w \in Workers, FamilyStep(w)
  PROVE  MadeInv'
<1>0. /\ turns \in Nat /\ Cardinality(Agents) \in Nat \ {0} /\ Agents = 0..(Cardinality(Agents) - 1)
      /\ IsFiniteSet(Spawners) /\ Cardinality(Agents) + Cardinality(Spawners) <= turns + 1
      /\ DOMAIN spawning = Workers /\ turns <= MaxTurns /\ MaxTurns \in Nat
  BY TurnsAssumption DEF FamilyInv, MadeInv, ChainInv
<1>1. Cardinality(Spawners) \in Nat
  BY <1>0, FS_CardinalityType
<1>2. Turn => turns' = turns + 1 /\ turns' \in 0..MaxTurns
  BY <1>0 DEF Turn, Now
<1>3. CASE SpawnSubagent(w) /\ spawning[w] = {}
  <2>1. /\ \A v \in Workers \ {w} : spawning'[v] = spawning[v]
        /\ spawning'[w] # {} /\ parent' = parent /\ Turn
    BY <1>0, <1>3 DEF SpawnSubagent, family
  <2>2. Spawners' = Spawners \cup {w} /\ w \notin Spawners
    BY <1>3, <2>1 DEF Spawners
  <2>3. IsFiniteSet(Spawners \cup {w}) /\ Cardinality(Spawners \cup {w}) = Cardinality(Spawners) + 1
    BY <1>0, <2>2, FS_AddElement
  <2>4. Cardinality(Spawners)' = Cardinality(Spawners) + 1 /\ IsFiniteSet(Spawners')
    BY <2>2, <2>3
  <2>5. Agents' = Agents /\ Cardinality(Agents)' = Cardinality(Agents)
    BY <2>1 DEF Agents
  <2> QED BY <1>0, <1>1, <1>2, <2>1, <2>4, <2>5 DEF MadeInv
<1>4. CASE Spawned(w)
  <2>1. PICK child \in spawning[w] :
          \/ NewAgent(child.id, child.of) /\ UNCHANGED turns
          \/ Turn /\ UNCHANGED family
    BY <1>4 DEF Spawned
  <2>2. /\ \A v \in Workers \ {w} : spawning'[v] = spawning[v]
        /\ spawning'[w] = {}
    BY <1>0, <1>4 DEF Spawned
  <2>3. Spawners' = Spawners \ {w} /\ w \in Spawners
    BY <2>1, <2>2 DEF Spawners
  <2>4. IsFiniteSet(Spawners \ {w}) /\ Cardinality(Spawners \ {w}) = Cardinality(Spawners) - 1
    BY <1>0, <2>3, FS_RemoveElement
  <2>5. Cardinality(Spawners)' = Cardinality(Spawners) - 1 /\ IsFiniteSet(Spawners')
    BY <2>3, <2>4
  <2>6. CASE NewAgent(child.id, child.of) /\ UNCHANGED turns
    <3>1. child.of \in Agents /\ child.id \in IDs
      BY <2>1 DEF FamilyInv, ChainInv
    <3>2. Agents' = 0..Cardinality(Agents) /\ Cardinality(Agents)' = Cardinality(Agents) + 1
      BY <2>6, <3>1, NewAgentIs DEF FamilyInv
    <3>3. Agents' = 0..(Cardinality(Agents)' - 1)
      BY <1>0, <3>2
    <3> QED BY <1>0, <1>1, <2>5, <2>6, <3>2, <3>3 DEF MadeInv
  <2>7. CASE Turn /\ UNCHANGED family
    <3>1. Agents' = Agents /\ Cardinality(Agents)' = Cardinality(Agents)
      BY <2>7 DEF Agents, family
    <3> QED BY <1>0, <1>1, <1>2, <2>5, <2>7, <3>1 DEF MadeInv
  <2> QED BY <2>1, <2>6, <2>7
<1>5. CASE Fork(w)
  <2>1. Agents' = 0..Cardinality(Agents) /\ Cardinality(Agents)' = Cardinality(Agents) + 1
    BY <1>5, NewAgentIs DEF FamilyInv, Fork, IDs, GeneratedID
  <2>2. Agents' = 0..(Cardinality(Agents)' - 1)
    BY <1>0, <2>1
  <2>3. Spawners' = Spawners /\ Turn
    BY <1>5 DEF Fork, Spawners
  <2>4. Cardinality(Spawners)' = Cardinality(Spawners)
    BY <2>3
  <2> QED BY <1>0, <1>1, <1>2, <2>1, <2>2, <2>3, <2>4 DEF MadeInv
<1>6. CASE \/ Acquire(w) \/ GiveUp(w) \/ Return(w) \/ Run(w) \/ SendMessageToSubagent(w)
           \/ SendToParent(w) \/ DrainSubagentMessages(w)
  <2>1. parent' = parent /\ spawning' = spawning /\ (UNCHANGED turns \/ Turn)
    BY <1>6 DEF Acquire, GiveUp, Return, Run, SendMessageToSubagent, SendToParent, DrainSubagentMessages, family
  <2>2. Spawners' = Spawners
    BY <2>1 DEF Spawners
  <2> QED BY <2>1, <2>2, MadeKept DEF FamilyInv
<1> QED BY <1>3, <1>4, <1>5, <1>6 DEF FamilyStep

LEMMA TreeStep ==
  ASSUME FamilyInv, NEW w \in Workers, FamilyStep(w)
  PROVE  TreeInv' /\ Agents \subseteq Agents'
<1>1. CASE UNCHANGED family
  BY <1>1 DEF FamilyInv, TreeInv, KnownInv, InboxInv, Agents, family
<1>2. CASE Spawned(w)
  <2>1. PICK child \in spawning[w] : NewAgent(child.id, child.of) \/ UNCHANGED family
    BY <1>2 DEF Spawned
  <2>2. child.of \in Agents /\ child.id \in IDs
    BY <2>1 DEF FamilyInv, ChainInv
  <2> QED BY <1>1, <2>1, <2>2, NewAgentIs DEF FamilyInv
<1>3. CASE Fork(w)
  BY <1>3, NewAgentIs DEF FamilyInv, Fork, IDs, GeneratedID
<1>4. ASSUME UNCHANGED <<parent, name, subagents>>, DOMAIN inbox' = Agents, NEW a \in Agents, NEW id \in IDs,
             NEW mail \in Seq(Agents),
             \A b \in Agents : b # a => inbox'[b] = inbox[b],
             \A from \in DOMAIN inbox'[a] : \/ from \in DOMAIN inbox[a] /\ inbox'[a][from] = inbox[a][from]
                                            \/ from = id /\ inbox'[a][from] = mail
      PROVE  TreeInv' /\ Agents \subseteq Agents'
  <2>1. Agents' = Agents /\ KnownInv'
    BY <1>4 DEF FamilyInv, TreeInv, KnownInv, Agents
  <2>2. InboxInv'
    <3> SUFFICES ASSUME NEW b \in Agents, NEW from \in DOMAIN inbox'[b]
                 PROVE  from \in IDs /\ inbox'[b][from] \in Seq(Agents)
      BY <2>1 DEF InboxInv
    <3>1. \A f \in DOMAIN inbox[b] : f \in IDs /\ inbox[b][f] \in Seq(Agents)
      BY DEF FamilyInv, TreeInv, InboxInv
    <3>2. CASE b # a
      BY <1>4, <3>1, <3>2
    <3>3. CASE b = a
      BY <1>4, <3>1, <3>3
    <3> QED BY <3>2, <3>3
  <2> QED BY <1>4, <2>1, <2>2 DEF FamilyInv, TreeInv
<1>5. CASE SendToParent(w)
  <2>1. PICK a \in Usable(w) :
          /\ parent[a] # NoParent
          /\ inbox' = [inbox EXCEPT ![parent[a]] =
                         With(@, name[a], Append(Mail(parent[a], name[a]), a))]
    BY <1>5 DEF SendToParent
  <2>2. a \in Agents
    BY DEF FamilyInv, ChainInv, Usable
  <2>3. parent[a] \in Agents /\ name[a] \in IDs /\ DOMAIN inbox = Agents
    BY <2>1, <2>2 DEF FamilyInv, TreeInv
  <2>4. Mail(parent[a], name[a]) \in Seq(Agents)
    BY <2>3 DEF FamilyInv, TreeInv, InboxInv, Mail
  <2>5. Append(Mail(parent[a], name[a]), a) \in Seq(Agents)
    BY <2>2, <2>4
  <2>6. inbox'[parent[a]] = With(inbox[parent[a]], name[a], Append(Mail(parent[a], name[a]), a))
        /\ DOMAIN inbox' = Agents /\ \A b \in Agents : b # parent[a] => inbox'[b] = inbox[b]
    BY <2>1, <2>3
  <2>7. \A from \in DOMAIN inbox'[parent[a]] :
          \/ from \in DOMAIN inbox[parent[a]] /\ inbox'[parent[a]][from] = inbox[parent[a]][from]
          \/ from = name[a] /\ inbox'[parent[a]][from] = Append(Mail(parent[a], name[a]), a)
    BY <2>6 DEF With
  <2>8. UNCHANGED <<parent, name, subagents>>
    BY <1>5 DEF SendToParent
  <2> QED BY <1>4, <2>3, <2>5, <2>6, <2>7, <2>8
<1>6. CASE DrainSubagentMessages(w)
  <2>0. PICK a \in Usable(w) : \E id \in DOMAIN inbox[a] :
          inbox' = [inbox EXCEPT ![a] = [other \in DOMAIN @ \ {id} |-> @[other]]]
    BY <1>6 DEF DrainSubagentMessages
  <2>1. PICK id \in DOMAIN inbox[a] :
          inbox' = [inbox EXCEPT ![a] = [other \in DOMAIN @ \ {id} |-> @[other]]]
    BY <2>0
  <2>2. a \in Agents /\ DOMAIN inbox = Agents
    BY DEF FamilyInv, ChainInv, TreeInv, Usable
  <2>3. id \in IDs /\ inbox[a][id] \in Seq(Agents)
    BY <2>1, <2>2 DEF FamilyInv, TreeInv, InboxInv
  <2>4. /\ DOMAIN inbox' = Agents /\ \A b \in Agents : b # a => inbox'[b] = inbox[b]
        /\ \A from \in DOMAIN inbox'[a] : from \in DOMAIN inbox[a] /\ inbox'[a][from] = inbox[a][from]
    BY <2>1, <2>2
  <2>5. UNCHANGED <<parent, name, subagents>>
    BY <1>6 DEF DrainSubagentMessages
  <2> QED BY <1>4, <2>2, <2>3, <2>4, <2>5
<1>7. CASE \/ Acquire(w) \/ GiveUp(w) \/ Return(w) \/ Run(w) \/ SendMessageToSubagent(w) \/ SpawnSubagent(w)
  BY <1>1, <1>7 DEF Acquire, GiveUp, Return, Run, SendMessageToSubagent, SpawnSubagent
<1> QED BY <1>2, <1>3, <1>5, <1>6, <1>7 DEF FamilyStep

LEMMA UsableIs ==
  ASSUME FamilyInv, NEW w \in Workers
  PROVE  Usable(w) \subseteq Agents /\ Elements(chain[w]) \subseteq Agents
<1>1. chain[w] \in Seq(Agents)
  BY DEF FamilyInv, ChainInv
<1>2. Elements(chain[w]) \subseteq Agents
  BY <1>1 DEF Elements
<1>3. chain[w] # <<>> => chain[w][Len(chain[w])] \in Agents
  BY <1>1
<1> QED BY <1>2, <1>3 DEF Usable

\* The ID that an agent gives by itself is one.
LEMMA FreeNamesAreIDs ==
  ASSUME FamilyInv, NEW a \in Agents, NEW id \in FreeNames(a)
  PROVE  id \in IDs /\ id \notin DOMAIN subagents[a]
<1>1. IsFiniteSet(DOMAIN subagents[a]) /\ a \in Nat
  BY DEF FamilyInv, MadeInv, TreeInv, KnownInv
<1>2. Cardinality(DOMAIN subagents[a]) + 1 \in Nat
  BY <1>1, FS_CardinalityType
<1>3. DefaultName(a) \in Nat \X Nat
  BY <1>1, <1>2 DEF DefaultName
<1> QED BY <1>3 DEF FreeNames, IDs

LEMMA ChainStep ==
  ASSUME FamilyInv, NEW w \in Workers, FamilyStep(w)
  PROVE  ChainInv'
<1>0. /\ chain \in [Workers -> Seq(Agents)] /\ wanted \in [Workers -> SUBSET Agents]
      /\ DOMAIN spawning = Workers
      /\ \A v \in Workers : /\ OneAtMost(wanted[v] \cup spawning[v])
                            /\ \A child \in spawning[v] : child.of \in Agents /\ child.id \in IDs /\ child.id \notin child.known
  BY DEF FamilyInv, ChainInv
<1>1. Agents \subseteq Agents'
  BY TreeStep
<1>2. ASSUME UNCHANGED chain, wanted' \in [Workers -> SUBSET Agents], DOMAIN spawning' = Workers,
             \A v \in Workers : v # w => wanted'[v] = wanted[v] /\ spawning'[v] = spawning[v],
             OneAtMost(wanted'[w] \cup spawning'[w]),
             \A child \in spawning'[w] : child.of \in Agents /\ child.id \in IDs /\ child.id \notin child.known
      PROVE  ChainInv'
  <2>1. chain' \in [Workers -> Seq(Agents')]
    <3>1. \A v \in Workers : chain[v] \in Seq(Agents')
      BY <1>0, <1>1, SeqGrows
    <3> QED BY <1>0, <1>2, <3>1
  <2>2. wanted' \in [Workers -> SUBSET Agents']
    BY <1>1, <1>2
  <2>3. ASSUME NEW v \in Workers
        PROVE  /\ OneAtMost(wanted'[v] \cup spawning'[v])
               /\ \A child \in spawning'[v] : child.of \in Agents' /\ child.id \in IDs /\ child.id \notin child.known
    BY <1>0, <1>1, <1>2
  <2> QED BY <1>2, <2>1, <2>2, <2>3 DEF ChainInv, OneAtMost
<1>3. ASSUME chain' \in [Workers -> Seq(Agents)], UNCHANGED spawning,
             wanted' = wanted \/ wanted' = [wanted EXCEPT ![w] = {}]
      PROVE  ChainInv'
  <2>1. chain' \in [Workers -> Seq(Agents')]
    <3>1. \A v \in Workers : chain'[v] \in Seq(Agents')
      BY <1>1, <1>3, SeqGrows
    <3> QED BY <1>3, <3>1
  <2>2. wanted' \in [Workers -> SUBSET Agents'] /\ \A v \in Workers : wanted'[v] \subseteq wanted[v]
    BY <1>0, <1>1, <1>3
  <2>3. ASSUME NEW v \in Workers
        PROVE  OneAtMost(wanted'[v] \cup spawning'[v])
               /\ \A child \in spawning'[v] : child.of \in Agents' /\ child.id \in IDs /\ child.id \notin child.known
    BY <1>0, <1>1, <1>3, <2>2 DEF OneAtMost
  <2> QED BY <1>0, <1>3, <2>1, <2>2, <2>3 DEF ChainInv, OneAtMost
<1>4. CASE Acquire(w)
  <2>1. PICK a \in wanted[w] : IF Active(w, a) THEN UNCHANGED chain
                               ELSE chain' = [chain EXCEPT ![w] = Append(@, a)]
    BY <1>4 DEF Acquire
  <2>2. a \in Agents /\ chain[w] \in Seq(Agents)
    BY <1>0
  <2>3. Append(chain[w], a) \in Seq(Agents)
    BY <2>2
  <2>4. chain' \in [Workers -> Seq(Agents)]
    BY <1>0, <2>1, <2>3
  <2> QED BY <1>3, <1>4, <2>4 DEF Acquire
<1>5. CASE GiveUp(w)
  BY <1>0, <1>3, <1>5 DEF GiveUp
<1>6. CASE Return(w)
  <2>1. chain[w] \in Seq(Agents) /\ chain[w] # <<>>
    BY <1>0, <1>6 DEF Return
  <2>2. SubSeq(chain[w], 1, Len(chain[w]) - 1) \in Seq(Agents)
    <3>1. Len(chain[w]) \in Nat /\ Len(chain[w]) > 0
      BY <2>1
    <3> QED BY <2>1, <3>1
  <2>3. chain' \in [Workers -> Seq(Agents)]
    BY <1>0, <1>6, <2>2 DEF Return
  <2> QED BY <1>3, <1>6, <2>3 DEF Return
<1>7. CASE Spawned(w) \/ Fork(w) \/ SendToParent(w) \/ DrainSubagentMessages(w)
  <2>1. UNCHANGED <<chain, wanted>> /\ (spawning' = spawning \/ spawning' = [spawning EXCEPT ![w] = {}])
    BY <1>7 DEF Spawned, Fork, SendToParent, DrainSubagentMessages
  <2>2. DOMAIN spawning' = Workers /\ \A v \in Workers : v # w => spawning'[v] = spawning[v]
    BY <1>0, <2>1
  <2>3. spawning'[w] \subseteq spawning[w]
    BY <1>0, <2>1
  <2>4. OneAtMost(wanted'[w] \cup spawning'[w])
        /\ \A child \in spawning'[w] : child.of \in Agents /\ child.id \in IDs /\ child.id \notin child.known
    BY <1>0, <2>1, <2>3 DEF OneAtMost
  <2> QED BY <1>0, <1>2, <2>1, <2>2, <2>4
<1>8. CASE (Run(w) \/ SendMessageToSubagent(w)) /\ spawning[w] = {}
  <2>1. UNCHANGED <<chain, spawning>> /\ \E a \in Agents : wanted' = [wanted EXCEPT ![w] = {a}]
    <3>1. CASE Run(w)
      BY <3>1, UsableIs DEF Run, Call
    <3>2. CASE SendMessageToSubagent(w)
      <4>1. PICK a \in Usable(w) : \E id \in DOMAIN subagents[a] : Call(w, subagents[a][id])
        BY <3>2 DEF SendMessageToSubagent
      <4>2. a \in Agents
        BY UsableIs
      <4>3. \A id \in DOMAIN subagents[a] : subagents[a][id] \in Agents
        BY <4>2 DEF FamilyInv, TreeInv, KnownInv
      <4> QED BY <3>2, <4>1, <4>3 DEF SendMessageToSubagent, Call
    <3> QED BY <1>8, <3>1, <3>2
  <2>2. wanted' \in [Workers -> SUBSET Agents] /\ (\E a \in Agents : wanted'[w] = {a})
        /\ \A v \in Workers : v # w => wanted'[v] = wanted[v]
    BY <1>0, <2>1
  <2>3. OneAtMost(wanted'[w] \cup spawning'[w]) /\ spawning'[w] = {}
    BY <1>8, <2>1, <2>2 DEF OneAtMost
  <2> QED BY <1>0, <1>2, <2>1, <2>2, <2>3
<1>9. CASE SpawnSubagent(w) /\ wanted[w] = {}
  <2>1. PICK a \in Usable(w) : \E id \in FreeNames(a) :
          spawning' = [spawning EXCEPT ![w] = {[of |-> a, id |-> id, known |-> DOMAIN subagents[a]]}]
    BY <1>9 DEF SpawnSubagent
  <2>2. PICK id \in FreeNames(a) :
          spawning' = [spawning EXCEPT ![w] = {[of |-> a, id |-> id, known |-> DOMAIN subagents[a]]}]
    BY <2>1
  <2>3. a \in Agents /\ id \in IDs /\ id \notin DOMAIN subagents[a]
    BY UsableIs, FreeNamesAreIDs
  <2>4. UNCHANGED <<chain, wanted>>
    BY <1>9 DEF SpawnSubagent
  <2>5. /\ spawning'[w] = {[of |-> a, id |-> id, known |-> DOMAIN subagents[a]]}
        /\ DOMAIN spawning' = Workers /\ \A v \in Workers : v # w => spawning'[v] = spawning[v]
    BY <1>0, <2>2
  <2>6. OneAtMost(wanted'[w] \cup spawning'[w])
        /\ \A child \in spawning'[w] : child.of \in Agents /\ child.id \in IDs /\ child.id \notin child.known
    BY <1>9, <2>3, <2>4, <2>5 DEF OneAtMost
  <2> QED BY <1>0, <1>2, <2>4, <2>5, <2>6
<1> QED BY <1>4, <1>5, <1>6, <1>7, <1>8, <1>9 DEF FamilyStep

LEMMA FamilyInvariant == Spec => []FamilyInv
<1>1. Init => FamilyInv
  <2> SUFFICES ASSUME Init PROVE FamilyInv
    OBVIOUS
  <2>1. /\ turns = 0 /\ parent = [a \in {0} |-> NoParent] /\ name = [a \in {0} |-> GeneratedID]
        /\ subagents = [a \in {0} |-> << >>] /\ inbox = [a \in {0} |-> << >>]
        /\ chain = [w \in Workers |-> <<>>]
        /\ wanted = [w \in Workers |-> {}] /\ spawning = [w \in Workers |-> {}]
    BY DEF Init, FamilyInit
  <2>2. Agents = {0} /\ Spawners = {}
    BY <2>1 DEF Agents, Spawners
  <2>3. MadeInv
    <3>1. Cardinality(Agents) = 1 /\ IsFiniteSet(Spawners) /\ Cardinality(Spawners) = 0
      BY <2>2, FS_EmptySet, FS_Singleton
    <3> QED BY <2>1, <2>2, <3>1, TurnsAssumption DEF MadeInv
  <2>4. DOMAIN subagents[0] = {} /\ DOMAIN inbox[0] = {} /\ IsFiniteSet({})
    BY <2>1, FS_EmptySet
  <2>5. TreeInv
    BY <2>1, <2>2, <2>4 DEF TreeInv, KnownInv, InboxInv, IDs, GeneratedID
  <2>6. ChainInv
    BY <2>1 DEF ChainInv, OneAtMost
  <2> QED BY <2>3, <2>5, <2>6 DEF FamilyInv
<1>2. FamilyInv /\ [Next]_vars => FamilyInv'
  <2> SUFFICES ASSUME FamilyInv, [Next]_vars PROVE FamilyInv'
    OBVIOUS
  <2>1. CASE \E w \in Workers : FamilyStep(w)
    BY <2>1, MadeStep, TreeStep, ChainStep DEF FamilyInv
  <2>2. CASE UNCHANGED familyVars /\ (UNCHANGED turns \/ Turn)
    <3>1. Spawners' = Spawners /\ Agents' = Agents
      BY <2>2 DEF Spawners, Agents, familyVars, family
    <3>2. MadeInv'
      BY <2>2, <3>1, MadeKept DEF FamilyInv, familyVars, family
    <3> QED BY <2>2, <3>1, <3>2 DEF FamilyInv, TreeInv, KnownInv, InboxInv, ChainInv, familyVars, family
  <2> QED BY <2>1, <2>2, FamilyCases
<1> QED BY <1>1, <1>2, PTL DEF Spec

\* A spawn takes no child's ID away but one that was registered since its first
\* look: SpawnSubagent (subagent.go:40-138) among the spawns, forks and runs of others.
THEOREM SiblingsKept == Spec => SpawnKeepsSiblings
<1>1. FamilyInv /\ [Next]_vars =>
     [\A a \in Agents : \A id \in DOMAIN subagents[a] :
       \/ id \in DOMAIN subagents'[a] /\ subagents'[a][id] = subagents[a][id]
       \/ \E w \in Workers : \E child \in spawning[w] :
            child.of = a /\ child.id = id /\ id \notin child.known]_familyVars
  <2> SUFFICES ASSUME FamilyInv, [Next]_vars, NEW a \in Agents, NEW id \in DOMAIN subagents[a]
               PROVE  \/ id \in DOMAIN subagents'[a] /\ subagents'[a][id] = subagents[a][id]
                      \/ \E w \in Workers : \E child \in spawning[w] :
                           child.of = a /\ child.id = id /\ id \notin child.known
    OBVIOUS
  <2>1. CASE UNCHANGED subagents
    BY <2>1
  <2>2. ASSUME NEW w \in Workers, Spawned(w), ~UNCHANGED subagents
        PROVE  \/ id \in DOMAIN subagents'[a] /\ subagents'[a][id] = subagents[a][id]
               \/ \E v \in Workers : \E child \in spawning[v] :
                    child.of = a /\ child.id = id /\ id \notin child.known
    <3>1. PICK child \in spawning[w] : NewAgent(child.id, child.of)
      BY <2>2 DEF Spawned, family
    <3>2. child.of \in Agents /\ child.id \in IDs /\ child.id \notin child.known
      BY <3>1 DEF FamilyInv, ChainInv
    <3> QED BY <3>1, <3>2, NewAgentIs DEF FamilyInv
  <2>3. ASSUME NEW w \in Workers, Fork(w)
        PROVE  id \in DOMAIN subagents'[a] /\ subagents'[a][id] = subagents[a][id]
    BY <2>3, NewAgentIs DEF FamilyInv, MadeInv, Fork, IDs, GeneratedID, NoParent
  <2>4. ASSUME NEW w \in Workers, FamilyStep(w) PROVE UNCHANGED subagents \/ Spawned(w) \/ Fork(w)
    BY <2>4 DEF FamilyStep, Acquire, GiveUp, Return, Run, SendMessageToSubagent, SpawnSubagent,
                SendToParent, DrainSubagentMessages, family
  <2> QED BY <2>1, <2>2, <2>3, <2>4, FamilyCases DEF familyVars, family
<1> QED BY <1>1, FamilyInvariant, PTL DEF Spec, SpawnKeepsSiblings

----------------------------------------------------------------------------
(* The evaluations, and the types of all parts.                            *)

Stages == {"idle", "generate", "exchange", "tool", "call", "refuse", "report", "transcript"}

EvalInv ==
  /\ at \in [Workers -> Stages] /\ DOMAIN answer = Workers
  /\ requestSeq \in [Workers -> Nat] /\ whole \in [Workers -> BOOLEAN]
  /\ \A w \in Workers : at[w] = "exchange" <=> answer[w] # {}

LEMMA EvalInvStep ==
  ASSUME EvalInv, NEW w \in Workers, EvalStep(w)
  PROVE  EvalInv'
<1>0. /\ at \in [Workers -> Stages] /\ DOMAIN answer = Workers
      /\ requestSeq \in [Workers -> Nat] /\ whole \in [Workers -> BOOLEAN]
      /\ \A v \in Workers : at[v] = "exchange" <=> answer[v] # {}
  BY DEF EvalInv
<1>1. ASSUME NEW stage \in Stages \ {"exchange"}, GoOn(w, stage), at[w] # "exchange", UNCHANGED answer,
             requestSeq' \in [Workers -> Nat], whole' \in [Workers -> BOOLEAN]
      PROVE  EvalInv'
  <2>1. at' = [at EXCEPT ![w] = stage]
    BY <1>1 DEF GoOn
  <2>2. at' \in [Workers -> Stages] /\ \A v \in Workers : at'[v] = "exchange" <=> at[v] = "exchange"
    BY <1>0, <1>1, <2>1
  <2> QED BY <1>0, <1>1, <2>2 DEF EvalInv
<1>2. CASE EvalRun(w)
  <2>1. whole' \in [Workers -> BOOLEAN]
    BY <1>0, <1>2 DEF EvalRun
  <2>2. "generate" \in Stages \ {"exchange"}
    BY DEF Stages
  <2> QED BY <1>0, <1>1, <1>2, <2>1, <2>2 DEF EvalRun
<1>3. CASE Generate(w)
  <2>1. CASE GoOn(w, "report") /\ UNCHANGED answer
    <3>1. "report" \in Stages \ {"exchange"}
      BY DEF Stages
    <3> QED BY <1>0, <1>1, <1>3, <2>1, <3>1 DEF Generate
  <2>2. ASSUME NEW step, answer' = [answer EXCEPT ![w] = {step}], GoOn(w, "exchange") PROVE EvalInv'
    <3>1. at' = [at EXCEPT ![w] = "exchange"] /\ "exchange" \in Stages
      BY <2>2 DEF GoOn, Stages
    <3>2. at' \in [Workers -> Stages] /\ DOMAIN answer' = Workers
      BY <1>0, <2>2, <3>1
    <3>3. \A v \in Workers : at'[v] = "exchange" <=> answer'[v] # {}
      BY <1>0, <2>2, <3>1
    <3> QED BY <1>0, <1>3, <3>2, <3>3 DEF EvalInv, Generate
  <2> QED BY <1>3, <2>1, <2>2 DEF Generate
<1>4. CASE RecordModelExchange(w)
  <2>1. PICK stage \in {"tool", "report"} : GoOn(w, stage)
    BY <1>4 DEF RecordModelExchange
  <2>2. at' = [at EXCEPT ![w] = stage] /\ answer' = [answer EXCEPT ![w] = {}] /\ stage \in Stages
    BY <1>4, <2>1 DEF RecordModelExchange, GoOn, Stages
  <2>3. at' \in [Workers -> Stages] /\ DOMAIN answer' = Workers
    BY <1>0, <2>2
  <2>4. \A v \in Workers : at'[v] = "exchange" <=> answer'[v] # {}
    BY <1>0, <2>1, <2>2
  <2> QED BY <1>0, <1>4, <2>3, <2>4 DEF EvalInv, RecordModelExchange
<1>5. CASE ExecuteTool(w)
  <2>1. requestSeq' \in [Workers -> Nat]
    BY <1>0, <1>5 DEF ExecuteTool
  <2>2. \E stage \in {"generate", "call", "refuse"} : GoOn(w, stage)
    <3>1. CASE GoOn(w, "generate")
      BY <3>1
    <3>2. CASE \E approved, failed \in BOOLEAN : GoOn(w, IF approved /\ ~failed THEN "call" ELSE "refuse")
      BY <3>2
    <3> QED BY <1>5, <3>1, <3>2 DEF ExecuteTool
  <2>3. {"generate", "call", "refuse"} \subseteq Stages \ {"exchange"}
    BY DEF Stages
  <2> QED BY <1>0, <1>1, <1>5, <2>1, <2>2, <2>3 DEF ExecuteTool
<1>6. CASE CallTool(w) \/ FailTool(w) \/ RecordRun(w) \/ Transcript(w)
  <2>1. \E stage \in {"generate", "report", "transcript", "idle"} : GoOn(w, stage)
    BY <1>6 DEF CallTool, FailTool, RecordRun, Transcript
  <2>2. {"generate", "report", "transcript", "idle"} \subseteq Stages \ {"exchange"}
    BY DEF Stages
  <2>3. at[w] # "exchange" /\ UNCHANGED <<answer, requestSeq, whole>>
    BY <1>6 DEF CallTool, FailTool, RecordRun, Transcript
  <2> QED BY <1>0, <1>1, <2>1, <2>2, <2>3
<1>7. CASE ResetRecorder(w)
  <2>1. whole' \in [Workers -> BOOLEAN]
    BY <1>0, <1>7 DEF ResetRecorder
  <2> QED BY <1>0, <1>7, <2>1 DEF EvalInv, ResetRecorder
<1> QED BY <1>2, <1>3, <1>4, <1>5, <1>6, <1>7 DEF EvalStep

LEMMA EvalInvariant == Spec => []EvalInv
<1>1. Init => EvalInv
  BY DEF Init, EvalInit, EvalInv, Stages
<1>2. EvalInv /\ [Next]_vars => EvalInv'
  <2>1. ASSUME EvalInv, UNCHANGED evalVars PROVE EvalInv'
    BY <2>1 DEF EvalInv, evalVars
  <2> QED BY <2>1, EvalInvStep, EvalCases
<1> QED BY <1>1, <1>2, PTL DEF Spec

\* Every part stays in its type, however many workers, sessions, names and turns
\* there are: what the store holds can be loaded (SaveSession,
\* session_persistence.go:177-214), and the family is a tree of numbered agents.
THEOREM PartsTyped == Spec => []TypeOK
<1>1. StoreInv => StoreTypeOK
  <2> SUFFICES ASSUME StoreInv PROVE StoreTypeOK
    OBVIOUS
  <2>1. /\ DOMAIN sessions \subseteq Sessions /\ \A s \in DOMAIN sessions : sessions[s] \in Loadable
        /\ conversation \in [Workers -> Seq(Workers)]
    BY DEF StoreInv, SavesInv, RecordsInv, StoredInv, ConversationInv
  <2>2. DOMAIN events \subseteq Sessions /\ \A s \in DOMAIN events : events[s] \in Seq(Event(s))
    BY DEF StoreInv, LogsInv, GoodLog, Log
  <2>3. ASSUME NEW w \in Workers
        PROVE  /\ base[w] \subseteq Loadable /\ Cardinality(base[w]) <= 1
               /\ draft[w] \subseteq Records /\ Cardinality(draft[w]) <= 1
               /\ \A s \in Sessions : followed[w][s] \in Seq(Event(s))
    <3>1. /\ base[w] \subseteq Loadable /\ OneAtMost(base[w]) /\ draft[w] \subseteq Records /\ OneAtMost(draft[w])
      BY DEF StoreInv, SavesInv, RecordsInv, BaseInv, DraftInv
    <3>2. \A s \in Sessions : followed[w][s] \in Seq(Event(s))
      BY DEF StoreInv, LogsInv
    <3> QED BY <3>1, <3>2, OneAtMostCardinality
  <2> QED BY <2>1, <2>2, <2>3 DEF StoreTypeOK
<1>2. FamilyInv => FamilyTypeOK
  <2> SUFFICES ASSUME FamilyInv PROVE FamilyTypeOK
    OBVIOUS
  <2>1. \E n \in 1..(MaxTurns + 1) : Agents = 0..(n - 1)
    <3>1. Cardinality(Spawners) \in Nat
      BY FS_CardinalityType DEF FamilyInv, MadeInv
    <3>2. Cardinality(Agents) \in 1..(MaxTurns + 1)
      BY <3>1, TurnsAssumption DEF FamilyInv, MadeInv
    <3> QED BY <3>2 DEF FamilyInv, MadeInv
  <2>2. /\ parent \in [Agents -> {NoParent} \cup Agents] /\ name \in [Agents -> IDs]
        /\ DOMAIN subagents = Agents /\ DOMAIN inbox = Agents
    BY DEF FamilyInv, TreeInv
  <2>3. \A a \in Agents :
          /\ \A id \in DOMAIN subagents[a] : id \in IDs /\ subagents[a][id] \in Agents
          /\ \A id \in DOMAIN inbox[a] : id \in IDs /\ inbox[a][id] \in Seq(Agents)
    BY DEF FamilyInv, TreeInv, KnownInv, InboxInv
  <2>4. ASSUME NEW w \in Workers
        PROVE  /\ chain[w] \in Seq(Agents) /\ wanted[w] \subseteq Agents
               /\ Cardinality(wanted[w] \cup spawning[w]) <= 1
    <3>1. chain[w] \in Seq(Agents) /\ wanted[w] \subseteq Agents /\ OneAtMost(wanted[w] \cup spawning[w])
      BY DEF FamilyInv, ChainInv
    <3> QED BY <3>1, OneAtMostCardinality
  <2> QED BY <2>1, <2>2, <2>3, <2>4 DEF FamilyTypeOK
<1>3. EvalInv => EvalTypeOK
  BY DEF EvalInv, EvalTypeOK, Stages
<1>4. FamilyInv => turns \in 0..MaxTurns
  BY DEF FamilyInv, MadeInv
<1> QED BY <1>1, <1>2, <1>3, <1>4, StoreInvariant, FamilyInvariant, EvalInvariant, PTL DEF TypeOK

----------------------------------------------------------------------------
(* The transcripts: what the recorder keeps, and what it shows of it.      *)

EvalSteps  == [nth: Nat, kind: Answers]
Errors     == {"", "schema", "tool", "approval"}
Requests   == Workers \X Nat
Exchanges  == [agent: Workers, step: EvalSteps]
Decisions  == [type: {"afterApproval"}, request: Requests, approved: BOOLEAN]
Ends       == [type: {"afterTool"}, request: Requests, error: Errors]
EvalEvents == Decisions \cup Ends
ShownCalls == [request: Requests, error: Errors, approved: SUBSET BOOLEAN]
LivedCalls == [request: Requests, outcome: {"invalid", "ran", "refused"}]

\* No event bears a request that its agent has yet to make.
Asked(log, seq) == \A i \in DOMAIN log : log[i].request[2] <= seq[log[i].request[1]]

\* An exchange is recorded: it is the next of its agent, and none of another.
LEMMA OwnExchangesAppend ==
  ASSUME NEW list \in Seq(Exchanges), NEW e \in Exchanges, NEW w
  PROVE  /\ OwnExchanges(list, w) \in Seq(Exchanges)
         /\ OwnExchanges(Append(list, e), w) =
              IF e.agent = w THEN Append(OwnExchanges(list, w), e) ELSE OwnExchanges(list, w)
<1> DEFINE t == Append(list, e)
           I == {i \in DOMAIN list : list[i].agent = w}
           J == {i \in DOMAIN t : t[i].agent = w}
<1>1. /\ Len(list) \in Nat /\ DOMAIN list = 1..Len(list) /\ DOMAIN t = 1..(Len(list) + 1)
      /\ t[Len(list) + 1] = e /\ \A i \in DOMAIN list : t[i] = list[i]
  OBVIOUS
<1>2. J = IF e.agent = w THEN I \cup {Len(list) + 1} ELSE I
  BY <1>1
<1>3. OwnExchanges(list, w) = Picked(list, I) /\ OwnExchanges(t, w) = Picked(t, J) /\ I \subseteq DOMAIN list
  BY DEF OwnExchanges
<1> HIDE DEF I, J
<1>4. Picked(list, I) \in Seq(Exchanges)
  BY <1>3, PickedIs
<1>5. Picked(t, I) = Picked(list, I) /\ Picked(t, I \cup {Len(list) + 1}) = Append(Picked(list, I), e)
  BY <1>3, PickedKept, PickedMore
<1> QED BY <1>2, <1>3, <1>4, <1>5

\* The same of the calls of a transcript.
LEMMA OwnCallsAppend ==
  ASSUME NEW list \in Seq(ShownCalls), NEW c \in ShownCalls, NEW w
  PROVE  /\ OwnCalls(list, w) \in Seq(ShownCalls)
         /\ OwnCalls(Append(list, c), w) =
              IF c.request[1] = w THEN Append(OwnCalls(list, w), c) ELSE OwnCalls(list, w)
<1> DEFINE t == Append(list, c)
           I == {i \in DOMAIN list : list[i].request[1] = w}
           J == {i \in DOMAIN t : t[i].request[1] = w}
<1>1. /\ Len(list) \in Nat /\ DOMAIN list = 1..Len(list) /\ DOMAIN t = 1..(Len(list) + 1)
      /\ t[Len(list) + 1] = c /\ \A i \in DOMAIN list : t[i] = list[i]
  OBVIOUS
<1>2. J = IF c.request[1] = w THEN I \cup {Len(list) + 1} ELSE I
  BY <1>1
<1>3. OwnCalls(list, w) = Picked(list, I) /\ OwnCalls(t, w) = Picked(t, J) /\ I \subseteq DOMAIN list
  BY DEF OwnCalls
<1> HIDE DEF I, J
<1>4. Picked(list, I) \in Seq(ShownCalls)
  BY <1>3, PickedIs
<1>5. Picked(t, I) = Picked(list, I) /\ Picked(t, I \cup {Len(list) + 1}) = Append(Picked(list, I), c)
  BY <1>3, PickedKept, PickedMore
<1> QED BY <1>2, <1>3, <1>4, <1>5

\* Another event changes the decision on a call only when it is one on it.
LEMMA DecidedAppend ==
  ASSUME NEW log \in Seq(EvalEvents), NEW e \in EvalEvents, NEW r
  PROVE  Decided(Append(log, e), r) =
           IF e.type = "afterApproval" /\ e.request = r THEN {e.approved} ELSE Decided(log, r)
<1> DEFINE t == Append(log, e)
           n == Len(log) + 1
           F == DecisionsOn(log, r)
           G == DecisionsOn(t, r)
           Latest(f) == {j \in f : \A k \in f : k <= j}
<1>1. /\ Len(log) \in Nat /\ DOMAIN log = 1..Len(log) /\ DOMAIN t = 1..n
      /\ t[n] = e /\ \A i \in DOMAIN log : t[i] = log[i]
  OBVIOUS
<1>2. F \subseteq DOMAIN log /\ G = IF e.type = "afterApproval" /\ e.request = r THEN F \cup {n} ELSE F
  BY <1>1 DEF DecisionsOn
<1>3. Decided(log, r) = {log[i].approved : i \in Latest(F)} /\ Decided(t, r) = {t[i].approved : i \in Latest(G)}
  BY DEF Decided
<1> HIDE DEF t, F, G, n
<1>4. ASSUME e.type = "afterApproval", e.request = r PROVE Decided(t, r) = {e.approved}
  <2>1. G = F \cup {n} /\ n \in Nat /\ \A i \in F : i \in Nat /\ i < n
    BY <1>1, <1>2, <1>4 DEF n
  <2>2. \A k \in G : k <= n
    BY <2>1
  <2>3. \A j \in Latest(G) : j = n
    BY <2>1
  <2>4. n \in Latest(G)
    BY <2>1, <2>2
  <2> HIDE DEF Latest
  <2>5. Latest(G) = {n}
    BY <2>3, <2>4
  <2>6. t[n] = e
    BY <1>1 DEF n
  <2> QED BY <1>3, <2>5, <2>6
<1>5. ASSUME ~(e.type = "afterApproval" /\ e.request = r) PROVE Decided(t, r) = Decided(log, r)
  <2>1. G = F
    BY <1>2, <1>5
  <2>2. \A i \in Latest(F) : t[i] = log[i]
    BY <1>1, <1>2
  <2> HIDE DEF Latest
  <2> QED BY <1>3, <2>1, <2>2
<1> QED BY <1>4, <1>5 DEF t

\* The places of the calls that are over.
OverPlaces(log) == {i \in DOMAIN log : log[i].type = "afterTool"}

\* A call of a transcript, from the event of its end.
Shown(log, e) == [request |-> e.request, error |-> e.error, approved |-> Decided(log, e.request)]

LEMMA CallsAre ==
  ASSUME NEW log \in Seq(EvalEvents)
  PROVE  LET over  == Picked(log, OverPlaces(log))
             calls == TranscriptToolCalls(log)
         IN  /\ over \in Seq(Ends) /\ calls \in Seq(ShownCalls) /\ Len(calls) = Len(over)
             /\ \A i \in 1..Len(over) : calls[i] = Shown(log, over[i])
<1> DEFINE over  == Picked(log, OverPlaces(log))
           calls == TranscriptToolCalls(log)
           n     == Len(over)
<1>1. OverPlaces(log) \subseteq DOMAIN log /\ \A i \in OverPlaces(log) : log[i].type = "afterTool" /\ log[i] \in EvalEvents
  BY DEF OverPlaces
<1>2. over \in Seq(EvalEvents) /\ n = Cardinality(OverPlaces(log)) /\ \A i \in OverPlaces(log) : over[Rank(OverPlaces(log), i)] = log[i]
  BY <1>1, PickedIs
<1>3. Len(log) \in Nat /\ DOMAIN log = 1..Len(log)
  OBVIOUS
<1>4. calls = [i \in DOMAIN over |-> Shown(log, over[i])]
  BY DEF TranscriptToolCalls, OverPlaces, Shown
<1> HIDE DEF over, calls, n
<1>5. n \in Nat /\ DOMAIN over = 1..n
  BY <1>2 DEF n
<1>6. ASSUME NEW k \in 1..n PROVE over[k] \in Ends
  <2>1. PICK i \in OverPlaces(log) : Rank(OverPlaces(log), i) = k
    BY <1>1, <1>2, <1>3, RankIs
  <2> QED BY <1>1, <1>2, <2>1 DEF EvalEvents, Decisions
<1>7. \A r : Decided(log, r) \in SUBSET BOOLEAN
  <2>1. \A r : DecisionsOn(log, r) \subseteq DOMAIN log /\ \A i \in DecisionsOn(log, r) : log[i] \in EvalEvents /\ log[i].type = "afterApproval"
    BY DEF DecisionsOn
  <2>2. \A r : \A i \in DecisionsOn(log, r) : log[i].approved \in BOOLEAN
    BY <2>1 DEF EvalEvents, Decisions, Ends
  <2> QED BY <2>2 DEF Decided
<1>8. \A k \in 1..n : Shown(log, over[k]) \in ShownCalls
  BY <1>6, <1>7 DEF Shown, ShownCalls, Ends
<1>9. over \in Seq(Ends)
  BY <1>2, <1>5, <1>6
<1>10. calls \in [1..n -> ShownCalls] /\ \A k \in 1..n : calls[k] = Shown(log, over[k])
  BY <1>4, <1>5, <1>8
<1>11. calls \in Seq(ShownCalls) /\ Len(calls) = n
  BY <1>5, <1>10
<1> QED BY <1>9, <1>10, <1>11 DEF over, calls, n

\* A call is over: the transcript has one more.
LEMMA CallEnds ==
  ASSUME NEW log \in Seq(EvalEvents), NEW e \in Ends
  PROVE  /\ TranscriptToolCalls(Append(log, e)) = Append(TranscriptToolCalls(log), Shown(log, e))
         /\ Shown(log, e) \in ShownCalls
<1> DEFINE t     == Append(log, e)
           p     == Picked(log, OverPlaces(log))
           q     == Picked(t, OverPlaces(t))
           calls == TranscriptToolCalls(log)
           more  == TranscriptToolCalls(t)
           r     == Append(calls, Shown(log, e))
<1>1. e \in EvalEvents /\ e.type = "afterTool"
  BY DEF EvalEvents, Ends
<1>2. t \in Seq(EvalEvents) /\ OverPlaces(log) \subseteq DOMAIN log
  BY <1>1 DEF OverPlaces
<1>3. OverPlaces(t) = OverPlaces(log) \cup {Len(log) + 1}
  BY <1>1 DEF OverPlaces
<1>4. q = Append(p, e)
  BY <1>1, <1>2, <1>3, PickedMore
<1>5. /\ p \in Seq(Ends) /\ calls \in Seq(ShownCalls) /\ Len(calls) = Len(p)
      /\ \A i \in 1..Len(p) : calls[i] = Shown(log, p[i])
  BY CallsAre
<1>6. /\ q \in Seq(Ends) /\ more \in Seq(ShownCalls) /\ Len(more) = Len(q)
      /\ \A i \in 1..Len(q) : more[i] = Shown(t, q[i])
  BY <1>2, CallsAre
<1>7. \A x : Shown(t, x) = Shown(log, x)
  BY <1>1, DecidedAppend DEF Shown
<1> HIDE DEF t, p, q, calls, more
<1>8. Len(p) \in Nat /\ Len(q) = Len(p) + 1 /\ q[Len(p) + 1] = e /\ \A i \in 1..Len(p) : q[i] = p[i]
  BY <1>4, <1>5
<1>9. Len(p) + 1 \in 1..Len(q)
  BY <1>8
<1>10. more[Len(p) + 1] = Shown(log, e)
  BY <1>6, <1>7, <1>8, <1>9
<1>11. Shown(log, e) \in ShownCalls
  BY <1>6, <1>9, <1>10
<1>12. r \in Seq(ShownCalls) /\ Len(r) = Len(p) + 1 /\ r[Len(p) + 1] = Shown(log, e) /\ \A i \in 1..Len(p) : r[i] = calls[i]
  BY <1>5, <1>8, <1>11
<1> HIDE DEF r
<1>13. ASSUME NEW i \in 1..Len(more) PROVE more[i] = r[i]
  <2>1. CASE i = Len(p) + 1
    BY <1>10, <1>12, <2>1
  <2>2. CASE i # Len(p) + 1
    <3>1. i \in 1..Len(p) /\ i \in 1..Len(q)
      BY <1>6, <1>8, <2>2
    <3> QED BY <1>5, <1>6, <1>7, <1>8, <1>12, <3>1
  <2> QED BY <2>1, <2>2
<1>14. more = r
  BY <1>6, <1>8, <1>12, <1>13, SeqEqual
<1> QED BY <1>11, <1>14 DEF more, r, t, calls

\* A decision on a call that no event tells of yet: the transcript stays.
LEMMA CallDecided ==
  ASSUME NEW log \in Seq(EvalEvents), NEW e \in Decisions, \A i \in DOMAIN log : log[i].request # e.request
  PROVE  TranscriptToolCalls(Append(log, e)) = TranscriptToolCalls(log)
<1> DEFINE t     == Append(log, e)
           p     == Picked(log, OverPlaces(log))
           q     == Picked(t, OverPlaces(t))
           calls == TranscriptToolCalls(log)
           more  == TranscriptToolCalls(t)
<1>1. e \in EvalEvents /\ e.type = "afterApproval"
  BY DEF EvalEvents, Decisions
<1>2. t \in Seq(EvalEvents) /\ OverPlaces(log) \subseteq DOMAIN log
  BY <1>1 DEF OverPlaces
<1>3. OverPlaces(t) = OverPlaces(log)
  BY <1>1 DEF OverPlaces
<1>4. q = p
  BY <1>1, <1>2, <1>3, PickedKept
<1>5. /\ p \in Seq(Ends) /\ calls \in Seq(ShownCalls) /\ Len(calls) = Len(p)
      /\ \A i \in 1..Len(p) : calls[i] = Shown(log, p[i])
  BY CallsAre
<1>6. /\ q \in Seq(Ends) /\ more \in Seq(ShownCalls) /\ Len(more) = Len(q)
      /\ \A i \in 1..Len(q) : more[i] = Shown(t, q[i])
  BY <1>2, CallsAre
<1>7. ASSUME NEW i \in 1..Len(p) PROVE p[i].request # e.request
  <2>1. OverPlaces(log) \subseteq 1..Len(log) /\ Len(log) \in Nat /\ Len(p) = Cardinality(OverPlaces(log))
    BY <1>2, PickedIs
  <2>2. PICK k \in OverPlaces(log) : Rank(OverPlaces(log), k) = i
    <3> HIDE DEF p
    <3> QED BY <2>1, RankIs
  <2>3. p[i] = log[k]
    BY <1>2, <2>2, PickedIs
  <2> QED BY <1>2, <2>3
<1>8. \A x : x.request # e.request => Shown(t, x) = Shown(log, x)
  BY <1>1, DecidedAppend DEF Shown
<1> HIDE DEF t, p, q, calls, more
<1>9. \A i \in 1..Len(calls) : more[i] = calls[i]
  BY <1>4, <1>5, <1>6, <1>7, <1>8
<1>10. more = calls
  BY <1>4, <1>5, <1>6, <1>9, SeqEqual
<1> QED BY <1>10 DEF more, calls, t

Recorder == [inputs: Seq(Workers), final: SUBSET Workers, exchanges: Seq(Exchanges), events: Seq(EvalEvents)]
Lives    == [steps: Seq(EvalSteps), calls: Seq(LivedCalls)]

KeptInv ==
  /\ steps \in Seq(EvalSteps)
  /\ recorder \in Recorder
  /\ answer \in [Workers -> SUBSET EvalSteps] /\ \A w \in Workers : OneAtMost(answer[w])
  /\ lived \in [Workers -> Lives]
  /\ Asked(recorder.events, requestSeq)
  /\ recorder.inputs # <<>> => recorder.final = {Last(recorder.inputs)}
  /\ DOMAIN transcripts = Workers
  /\ \A w \in Workers : transcripts[w] # {} => at[w] = "idle"

\* A step of the script is still to come, or is with one agent, or was
\* recorded once.
Script(left, taken, exchanges) ==
  /\ \A i, j \in DOMAIN left : i < j => left[i].nth < left[j].nth
  /\ \A j \in DOMAIN left : /\ left[j].nth > 0
                            /\ \A w \in Workers : \A x \in taken[w] : x.nth < left[j].nth
                            /\ \A i \in DOMAIN exchanges : exchanges[i].step.nth < left[j].nth
  /\ \A i, j \in DOMAIN exchanges : exchanges[i].step = exchanges[j].step => i = j \/ exchanges[i].step = Exhausted
  /\ \A w \in Workers : \A i \in DOMAIN exchanges : exchanges[i].step \in taken[w] => exchanges[i].step = Exhausted
  /\ \A w, v \in Workers : \A x \in taken[w] : x \in taken[v] => w = v \/ x = Exhausted

ScriptInv == Script(steps, answer, recorder.exchanges)

Calls(log, w) == OwnCalls(TranscriptToolCalls(log), w)

\* What the recorder has of the run of an agent, as long as nobody resets it:
\* an answer is recorded after it was taken.
ShownOf(w) ==
  /\ at[w] = "transcript" => \E i \in DOMAIN recorder.inputs : recorder.inputs[i] = w
  /\ EndsWithCalls(Calls(recorder.events, w), lived[w].calls)
  /\ at[w] = "call" => Decided(recorder.events, RequestID(w)) = {TRUE}
  /\ at[w] # "exchange" => EndsWithSteps(OwnExchanges(recorder.exchanges, w), lived[w].steps)
  /\ at[w] = "exchange" =>
       \E step \in answer[w], known \in Seq(EvalSteps) :
         lived[w].steps = Append(known, step) /\ EndsWithSteps(OwnExchanges(recorder.exchanges, w), known)

ShownInv == \A w \in Workers : whole[w] /\ at[w] # "idle" => ShownOf(w)

\* One more exchange of the run, and one more call.
LEMMA StepsMore ==
  ASSUME NEW own \in Seq(Exchanges), NEW taken \in Seq(EvalSteps), NEW e \in Exchanges, EndsWithSteps(own, taken)
  PROVE  EndsWithSteps(Append(own, e), Append(taken, e.step))
<1> DEFINE p == Append(own, e)
           q == Append(taken, e.step)
           n == Len(own)
           m == Len(taken)
<1>1. e.step \in EvalSteps
  BY DEF Exchanges
<1>2. /\ n \in Nat /\ Len(p) = n + 1 /\ p[n + 1] = e /\ \A i \in 1..n : p[i] = own[i]
  OBVIOUS
<1>3. /\ m \in Nat /\ Len(q) = m + 1 /\ DOMAIN q = 1..(m + 1) /\ q[m + 1] = e.step
      /\ DOMAIN taken = 1..m /\ \A i \in 1..m : q[i] = taken[i]
  BY <1>1
<1>4. n - m >= 0 /\ \A i \in DOMAIN taken : own[n - m + i].step = taken[i]
  BY DEF EndsWithSteps
<1> HIDE DEF p, q, n, m
<1>5. ASSUME NEW i \in 1..(m + 1) PROVE p[n - m + i].step = q[i]
  <2>1. CASE i = m + 1
    BY <1>2, <1>3, <2>1
  <2>2. CASE i # m + 1
    <3>1. i \in 1..m /\ n - m + i \in 1..n
      BY <1>2, <1>3, <1>4, <2>2
    <3> QED BY <1>2, <1>3, <1>4, <3>1
  <2> QED BY <2>1, <2>2
<1>6. Len(p) - Len(q) = n - m
  BY <1>2, <1>3
<1>7. EndsWithSteps(p, q)
  BY <1>3, <1>4, <1>5, <1>6 DEF EndsWithSteps
<1> QED BY <1>7 DEF p, q

LEMMA CallsMore ==
  ASSUME NEW own \in Seq(ShownCalls), NEW were \in Seq(LivedCalls), NEW c \in ShownCalls, NEW was \in LivedCalls,
         EndsWithCalls(own, were), Tells(c, was)
  PROVE  EndsWithCalls(Append(own, c), Append(were, was))
<1> DEFINE p == Append(own, c)
           q == Append(were, was)
           n == Len(own)
           m == Len(were)
<1>2. /\ n \in Nat /\ Len(p) = n + 1 /\ p[n + 1] = c /\ \A i \in 1..n : p[i] = own[i]
  OBVIOUS
<1>3. /\ m \in Nat /\ Len(q) = m + 1 /\ DOMAIN q = 1..(m + 1) /\ q[m + 1] = was
      /\ DOMAIN were = 1..m /\ \A i \in 1..m : q[i] = were[i]
  OBVIOUS
<1>4. n - m >= 0 /\ \A i \in DOMAIN were : Tells(own[n - m + i], were[i])
  BY DEF EndsWithCalls
<1> HIDE DEF p, q, n, m
<1>5. ASSUME NEW i \in 1..(m + 1) PROVE Tells(p[n - m + i], q[i])
  <2>1. CASE i = m + 1
    BY <1>2, <1>3, <2>1
  <2>2. CASE i # m + 1
    <3>1. i \in 1..m /\ n - m + i \in 1..n
      BY <1>2, <1>3, <1>4, <2>2
    <3> QED BY <1>2, <1>3, <1>4, <3>1
  <2> QED BY <2>1, <2>2
<1>6. Len(p) - Len(q) = n - m
  BY <1>2, <1>3
<1>7. EndsWithCalls(p, q)
  BY <1>3, <1>4, <1>5, <1>6 DEF EndsWithCalls
<1> QED BY <1>7 DEF p, q

LEMMA NoneYet ==
  /\ \A own \in Seq(Exchanges) : EndsWithSteps(own, <<>>)
  /\ \A own \in Seq(ShownCalls) : EndsWithCalls(own, <<>>)
<1>1. ASSUME NEW own \in Seq(Exchanges) PROVE EndsWithSteps(own, <<>>)
  BY DEF EndsWithSteps
<1>2. ASSUME NEW own \in Seq(ShownCalls) PROVE EndsWithCalls(own, <<>>)
  BY DEF EndsWithCalls
<1> QED BY <1>1, <1>2

\* A recorded event.
LEMMA EventRecorded ==
  ASSUME recorder \in Recorder, NEW e \in EvalEvents, RecordEvent(e)
  PROVE  /\ recorder' \in Recorder /\ recorder'.events = Append(recorder.events, e)
         /\ recorder'.inputs = recorder.inputs /\ recorder'.final = recorder.final
         /\ recorder'.exchanges = recorder.exchanges
<1>1. Append(recorder.events, e) \in Seq(EvalEvents)
  BY DEF Recorder
<1> QED BY <1>1 DEF Recorder, RecordEvent

\* A call that the run has been through.
LEMMA CallLived ==
  ASSUME lived \in [Workers -> Lives], NEW w \in Workers, NEW r \in Requests,
         NEW outcome \in {"invalid", "ran", "refused"}, Live(w, r, outcome)
  PROVE  /\ lived' \in [Workers -> Lives] /\ lived'[w].steps = lived[w].steps
         /\ lived'[w].calls = Append(lived[w].calls, [request |-> r, outcome |-> outcome])
         /\ \A v \in Workers \ {w} : lived'[v] = lived[v]
<1>1. Append(lived[w].calls, [request |-> r, outcome |-> outcome]) \in Seq(LivedCalls)
  <2>1. lived[w] \in Lives
    OBVIOUS
  <2>2. [request |-> r, outcome |-> outcome] \in LivedCalls
    BY DEF LivedCalls
  <2>3. lived[w].calls \in Seq(LivedCalls)
    BY <2>1 DEF Lives
  <2> QED BY <2>2, <2>3
<1>2. lived' = [lived EXCEPT ![w] = [lived[w] EXCEPT !.calls = Append(lived[w].calls, [request |-> r, outcome |-> outcome])]]
  BY DEF Live
<1>3. [lived[w] EXCEPT !.calls = Append(lived[w].calls, [request |-> r, outcome |-> outcome])] \in Lives
  BY <1>1 DEF Lives
<1> QED BY <1>2, <1>3 DEF Lives

\* An event of a call that its agent has made.
LEMMA AskedMore ==
  ASSUME NEW log \in Seq(EvalEvents), NEW e \in EvalEvents, NEW seq, Asked(log, seq),
         e.request[2] <= seq[e.request[1]]
  PROVE  Asked(Append(log, e), seq)
<1> DEFINE t == Append(log, e)
<1>1. /\ Len(log) \in Nat /\ DOMAIN log = 1..Len(log) /\ DOMAIN t = 1..(Len(log) + 1)
      /\ t[Len(log) + 1] = e /\ \A i \in DOMAIN log : t[i] = log[i]
  OBVIOUS
<1> HIDE DEF t
<1>2. ASSUME NEW i \in DOMAIN t PROVE t[i].request[2] <= seq[t[i].request[1]]
  <2>1. i = Len(log) + 1 \/ i \in DOMAIN log
    BY <1>1
  <2> QED BY <1>1, <2>1 DEF Asked
<1>3. Asked(t, seq)
  BY <1>2 DEF Asked
<1> QED BY <1>3 DEF t

LEMMA ErrorsAre == "schema" \in Errors /\ "tool" \in Errors /\ "approval" \in Errors
  BY Zenon DEF Errors

LEMMA EventIs ==
  /\ \A e \in EvalEvents : e.request \in Requests /\ e.request[1] \in Workers /\ e.request[2] \in Nat
  /\ \A r \in Requests, error \in Errors :
       AfterToolEvent(r, error) \in Ends /\ AfterToolEvent(r, error) \in EvalEvents
       /\ AfterToolEvent(r, error).request = r
<1>1. ASSUME NEW e \in EvalEvents PROVE e.request \in Requests
  <2>1. CASE e \in Decisions
    BY <2>1 DEF Decisions
  <2>2. CASE e \in Ends
    BY <2>2 DEF Ends
  <2> QED BY <2>1, <2>2 DEF EvalEvents
<1>2. \A r \in Requests : r[1] \in Workers /\ r[2] \in Nat
  BY DEF Requests
<1>3. ASSUME NEW r \in Requests, NEW error \in Errors
      PROVE  AfterToolEvent(r, error) \in Ends /\ AfterToolEvent(r, error).request = r
  BY DEF AfterToolEvent, Ends
<1> QED BY <1>1, <1>2, <1>3 DEF EvalEvents

\* The next request of an agent, and the others' stay what they were.
LEMMA NextRequest ==
  ASSUME requestSeq \in [Workers -> Nat], NEW w \in Workers, requestSeq' = [requestSeq EXCEPT ![w] = @ + 1]
  PROVE  /\ requestSeq' \in [Workers -> Nat] /\ requestSeq'[w] = requestSeq[w] + 1
         /\ RequestID(w)' = <<w, requestSeq[w] + 1>> /\ RequestID(w)' \in Requests
         /\ \A v \in Workers : requestSeq[v] <= requestSeq'[v]
         /\ \A log \in Seq(EvalEvents) : Asked(log, requestSeq) =>
              Asked(log, requestSeq') /\ \A i \in DOMAIN log : log[i].request # RequestID(w)'
<1>1. requestSeq' \in [Workers -> Nat] /\ requestSeq'[w] = requestSeq[w] + 1
  OBVIOUS
<1>2. RequestID(w)' = <<w, requestSeq[w] + 1>> /\ RequestID(w)' \in Requests
  BY <1>1 DEF RequestID, Requests
<1>3. ASSUME NEW v \in Workers PROVE requestSeq[v] <= requestSeq'[v]
  <2>1. requestSeq[v] \in Nat
    OBVIOUS
  <2> QED BY <2>1
<1>4. ASSUME NEW log \in Seq(EvalEvents), Asked(log, requestSeq), NEW i \in DOMAIN log
      PROVE  log[i].request[2] <= requestSeq'[log[i].request[1]] /\ log[i].request # RequestID(w)'
  <2>1. log[i] \in EvalEvents
    OBVIOUS
  <2>2. log[i].request \in Requests
    BY <2>1, EventIs
  <2>3. log[i].request[1] \in Workers /\ log[i].request[2] \in Nat /\ log[i].request[2] <= requestSeq[log[i].request[1]]
    BY <1>4, <2>1, EventIs DEF Asked
  <2>4. log[i].request[2] <= requestSeq'[log[i].request[1]]
    BY <1>1, <1>3, <2>3
  <2>5. ASSUME log[i].request = RequestID(w)' PROVE FALSE
    <3>1. log[i].request[1] = w /\ log[i].request[2] = requestSeq[w] + 1
      BY <1>2, <2>5
    <3> QED BY <2>3, <3>1
  <2> QED BY <2>4, <2>5
<1>5. \A log \in Seq(EvalEvents) : Asked(log, requestSeq) => Asked(log, requestSeq')
  BY <1>4 DEF Asked
<1> QED BY <1>1, <1>2, <1>3, <1>4, <1>5

LEMMA KeptStep ==
  ASSUME EvalInv, KeptInv, NEW w \in Workers, EvalStep(w)
  PROVE  KeptInv'
<1>0. /\ at \in [Workers -> Stages] /\ requestSeq \in [Workers -> Nat]
      /\ \A v \in Workers : at[v] = "exchange" <=> answer[v] # {}
      /\ steps \in Seq(EvalSteps) /\ recorder \in Recorder
      /\ answer \in [Workers -> SUBSET EvalSteps] /\ \A v \in Workers : OneAtMost(answer[v])
      /\ lived \in [Workers -> Lives] /\ Asked(recorder.events, requestSeq)
      /\ recorder.inputs # <<>> => recorder.final = {Last(recorder.inputs)}
      /\ DOMAIN transcripts = Workers /\ \A v \in Workers : transcripts[v] # {} => at[v] = "idle"
  BY DEF EvalInv, KeptInv
<1>1. /\ recorder.inputs \in Seq(Workers) /\ recorder.final \in SUBSET Workers
      /\ recorder.exchanges \in Seq(Exchanges) /\ recorder.events \in Seq(EvalEvents)
  BY <1>0 DEF Recorder
\* A run that goes on has no transcript yet.
<1>2. ASSUME NEW s \in Stages, GoOn(w, s), at[w] # "idle", UNCHANGED transcripts
      PROVE  DOMAIN transcripts' = Workers /\ \A v \in Workers : transcripts'[v] # {} => at'[v] = "idle"
  BY <1>0, <1>2 DEF GoOn
<1>3. CASE EvalRun(w)
  <2>1. /\ at' = [at EXCEPT ![w] = "generate"] /\ transcripts' = [transcripts EXCEPT ![w] = {}]
        /\ lived' = [lived EXCEPT ![w] = Nothing] /\ UNCHANGED <<steps, recorder, answer, requestSeq>>
    BY <1>3 DEF EvalRun, GoOn
  <2>2. Nothing \in Lives
    BY DEF Nothing, Lives
  <2>3. lived' \in [Workers -> Lives]
    BY <1>0, <2>1, <2>2
  <2>4. DOMAIN transcripts' = Workers /\ \A v \in Workers : transcripts'[v] # {} => at'[v] = "idle"
    BY <1>0, <2>1
  <2> QED BY <1>0, <2>1, <2>3, <2>4 DEF KeptInv
<1>4. CASE Generate(w)
  <2>1. at[w] = "generate" /\ UNCHANGED <<recorder, requestSeq, transcripts, whole>>
    BY <1>4 DEF Generate
  <2>2. CASE GoOn(w, "report") /\ UNCHANGED <<steps, answer, lived>>
    BY <1>0, <1>2, <2>1, <2>2 DEF KeptInv, Stages
  <2>3. ASSUME NEW step, step = (IF steps = <<>> THEN Exhausted ELSE Head(steps)), Pop,
               answer' = [answer EXCEPT ![w] = {step}], lived' = [lived EXCEPT ![w].steps = Append(@, step)],
               GoOn(w, "exchange")
        PROVE  KeptInv'
    <3>1. step \in EvalSteps /\ steps' \in Seq(EvalSteps)
      <4>1. Exhausted \in EvalSteps
        BY DEF Exhausted, EvalSteps, Answers
      <4> QED BY <1>0, <2>3, <4>1 DEF Pop
    <3>2. answer' \in [Workers -> SUBSET EvalSteps] /\ \A v \in Workers : OneAtMost(answer'[v])
      BY <1>0, <2>3, <3>1 DEF OneAtMost
    <3>3. lived' \in [Workers -> Lives]
      <4>1. lived[w] \in Lives /\ lived[w].steps \in Seq(EvalSteps)
        BY <1>0 DEF Lives
      <4>2. Append(lived[w].steps, step) \in Seq(EvalSteps)
        BY <3>1, <4>1
      <4>3. [lived[w] EXCEPT !.steps = Append(lived[w].steps, step)] \in Lives
        BY <4>1, <4>2 DEF Lives
      <4> QED BY <1>0, <2>3, <4>3
    <3> QED BY <1>0, <1>2, <2>1, <2>3, <3>1, <3>2, <3>3 DEF KeptInv, Stages
  <2> QED BY <1>4, <2>2, <2>3 DEF Generate
<1>5. CASE RecordModelExchange(w)
  <2>1. PICK step \in answer[w] :
          /\ recorder' = [recorder EXCEPT !.exchanges = Append(@, [agent |-> w, step |-> step])]
          /\ GoOn(w, IF step.kind = "call" THEN "tool" ELSE "report")
    BY <1>5 DEF RecordModelExchange
  <2>2. /\ at[w] = "exchange" /\ answer' = [answer EXCEPT ![w] = {}]
        /\ UNCHANGED <<steps, requestSeq, transcripts, lived, whole>>
    BY <1>5 DEF RecordModelExchange
  <2>3. Append(recorder.exchanges, [agent |-> w, step |-> step]) \in Seq(Exchanges)
    <3>1. [agent |-> w, step |-> step] \in Exchanges
      BY <1>0, <2>1 DEF Exchanges
    <3> QED BY <1>1, <3>1
  <2>4. recorder' \in Recorder /\ recorder'.events = recorder.events /\ recorder'.inputs = recorder.inputs
        /\ recorder'.final = recorder.final
    BY <1>0, <2>1, <2>3 DEF Recorder
  <2>5. answer' \in [Workers -> SUBSET EvalSteps] /\ \A v \in Workers : OneAtMost(answer'[v])
    BY <1>0, <2>2 DEF OneAtMost
  <2>6. DOMAIN transcripts' = Workers /\ \A v \in Workers : transcripts'[v] # {} => at'[v] = "idle"
    <3>1. PICK s \in {"tool", "report"} : GoOn(w, s)
      BY <2>1
    <3> QED BY <1>2, <2>2, <3>1 DEF Stages
  <2> QED BY <1>0, <2>2, <2>4, <2>5, <2>6 DEF KeptInv
\* An event of a tool call.
<1>6. ASSUME NEW e \in EvalEvents, RecordEvent(e), requestSeq' \in [Workers -> Nat], Asked(recorder.events, requestSeq'),
             e.request[2] <= requestSeq'[e.request[1]], at[w] # "idle",
             NEW s \in Stages, GoOn(w, s), lived' \in [Workers -> Lives], UNCHANGED <<steps, answer, transcripts>>
      PROVE  KeptInv'
  <2>1. Asked(recorder'.events, requestSeq')
    BY <1>0, <1>1, <1>6, EventRecorded, AskedMore
  <2> QED BY <1>0, <1>2, <1>6, <2>1, EventRecorded DEF KeptInv
<1>7. CASE ExecuteTool(w)
  <2>1. /\ at[w] = "tool" /\ requestSeq' = [requestSeq EXCEPT ![w] = @ + 1]
        /\ UNCHANGED <<steps, answer, transcripts, whole>>
    BY <1>7 DEF ExecuteTool
  <2>2. /\ requestSeq' \in [Workers -> Nat] /\ Asked(recorder.events, requestSeq') /\ RequestID(w)' \in Requests
        /\ RequestID(w)'[2] <= requestSeq'[RequestID(w)'[1]]
    <3>1. /\ requestSeq' \in [Workers -> Nat] /\ requestSeq'[w] = requestSeq[w] + 1
          /\ RequestID(w)' = <<w, requestSeq[w] + 1>> /\ RequestID(w)' \in Requests
          /\ \A log \in Seq(EvalEvents) : Asked(log, requestSeq) => Asked(log, requestSeq')
      <4>1. requestSeq \in [Workers -> Nat] /\ requestSeq' = [requestSeq EXCEPT ![w] = @ + 1]
        BY <1>0, <2>1
      <4> QED BY <4>1, NextRequest
    <3>2. Asked(recorder.events, requestSeq')
      BY <1>0, <1>1, <3>1
    <3>3. RequestID(w)'[2] = requestSeq'[w] /\ RequestID(w)'[1] = w /\ requestSeq'[w] \in Nat
      BY <3>1
    <3> QED BY <3>1, <3>2, <3>3
  <2>3. CASE RecordEvent(AfterToolEvent(RequestID(w)', "schema")) /\ Live(w, RequestID(w)', "invalid") /\ GoOn(w, "generate")
    <3>1. AfterToolEvent(RequestID(w)', "schema") \in EvalEvents /\ AfterToolEvent(RequestID(w)', "schema").request = RequestID(w)'
      BY <2>2, EventIs, ErrorsAre
    <3>2. lived' \in [Workers -> Lives]
      BY <1>0, <2>2, <2>3, CallLived
    <3> QED BY <1>6, <2>1, <2>2, <2>3, <3>1, <3>2 DEF Stages
  <2>4. ASSUME NEW approved \in BOOLEAN, NEW s \in {"call", "refuse"}, RecordEvent(AfterApprovalEvent(w, approved)), GoOn(w, s),
               UNCHANGED lived
        PROVE  KeptInv'
    <3>1. AfterApprovalEvent(w, approved) \in EvalEvents /\ AfterApprovalEvent(w, approved).request = RequestID(w)'
      BY <2>2 DEF AfterApprovalEvent, EvalEvents, Decisions
    <3> QED BY <1>0, <1>6, <2>1, <2>2, <2>4, <3>1 DEF Stages
  <2>5. ASSUME NEW approved \in BOOLEAN, NEW failed \in BOOLEAN, RecordEvent(AfterApprovalEvent(w, approved)),
               GoOn(w, IF approved /\ ~failed THEN "call" ELSE "refuse"), UNCHANGED lived
        PROVE  KeptInv'
    <3>1. PICK s \in {"call", "refuse"} : GoOn(w, s)
      BY <2>5
    <3> QED BY <2>4, <2>5, <3>1
  <2> QED BY <1>7, <2>3, <2>5 DEF ExecuteTool
\* The end of a call.
<1>8. ASSUME NEW error \in Errors, RecordEvent(AfterToolEvent(RequestID(w), error)),
             NEW outcome \in {"ran", "refused"}, Live(w, RequestID(w), outcome),
             NEW s \in {"generate", "report"}, GoOn(w, s), at[w] # "idle",
             UNCHANGED <<steps, answer, requestSeq, transcripts>>
      PROVE  KeptInv'
  <2>1. RequestID(w) \in Requests /\ RequestID(w)[1] = w /\ RequestID(w)[2] = requestSeq[w] /\ requestSeq[w] \in Nat
    BY <1>0 DEF RequestID, Requests
  <2>2. /\ AfterToolEvent(RequestID(w), error) \in EvalEvents
        /\ AfterToolEvent(RequestID(w), error).request = RequestID(w)
    BY <2>1, EventIs
  <2>3. lived' \in [Workers -> Lives]
    <3>1. lived \in [Workers -> Lives] /\ outcome \in {"invalid", "ran", "refused"} /\ Live(w, RequestID(w), outcome)
      BY <1>0, <1>8
    <3>2. RequestID(w) \in Requests
      BY <2>1
    <3> QED BY <3>1, <3>2, CallLived
  <2>4. s \in Stages
    BY DEF Stages
  <2>5. requestSeq' = requestSeq
    BY <1>8
  <2>6. AfterToolEvent(RequestID(w), error).request[2] <= requestSeq'[AfterToolEvent(RequestID(w), error).request[1]]
    BY <2>1, <2>2, <2>5
  <2>7. requestSeq' \in [Workers -> Nat] /\ Asked(recorder.events, requestSeq')
    BY <1>0, <2>5
  <2> QED BY <1>6, <1>8, <2>2, <2>3, <2>4, <2>6, <2>7
<1>12. CASE CallTool(w)
  <2>1. PICK error \in Errors : RecordEvent(AfterToolEvent(RequestID(w), error))
    <3>1. PICK error \in {"", "tool"} : RecordEvent(AfterToolEvent(RequestID(w), error))
      BY Zenon, <1>12 DEF CallTool
    <3> QED BY Zenon, <3>1 DEF Errors
  <2>2. Live(w, RequestID(w), "ran") /\ GoOn(w, "generate") /\ at[w] # "idle"
        /\ UNCHANGED <<steps, answer, requestSeq, transcripts>>
    <3>1. CallTool(w) => /\ at[w] = "call" /\ Live(w, RequestID(w), "ran") /\ GoOn(w, "generate")
                         /\ UNCHANGED <<steps, answer, requestSeq, transcripts>>
      BY Zenon DEF CallTool
    <3> QED BY <1>12, <3>1
  <2> QED BY <1>8, <2>1, <2>2
<1>13. CASE FailTool(w)
  BY <1>8, <1>13, ErrorsAre DEF FailTool
<1>9. CASE RecordRun(w)
  <2>1. /\ at[w] = "report" /\ recorder' = [recorder EXCEPT !.inputs = Append(@, w), !.final = {w}]
        /\ GoOn(w, "transcript") /\ UNCHANGED <<steps, answer, requestSeq, transcripts, lived, whole>>
    BY <1>9 DEF RecordRun
  <2>2. Append(recorder.inputs, w) \in Seq(Workers) /\ Last(Append(recorder.inputs, w)) = w
    BY <1>1 DEF Last
  <2>3. /\ recorder' \in Recorder /\ recorder'.inputs = Append(recorder.inputs, w) /\ recorder'.final = {w}
        /\ recorder'.events = recorder.events
    BY <1>0, <2>1, <2>2 DEF Recorder
  <2> QED BY <1>0, <1>2, <2>1, <2>2, <2>3 DEF KeptInv, Stages
<1>10. CASE Transcript(w)
  <2>1. /\ at' = [at EXCEPT ![w] = "idle"] /\ UNCHANGED <<steps, recorder, answer, requestSeq, lived, whole>>
        /\ DOMAIN transcripts' = DOMAIN transcripts
        /\ \A v \in Workers : v # w => transcripts'[v] = transcripts[v]
    BY <1>0, <1>10 DEF Transcript, GoOn
  <2>2. \A v \in Workers : transcripts'[v] # {} => at'[v] = "idle"
    BY <1>0, <2>1
  <2> QED BY <1>0, <2>1, <2>2 DEF KeptInv
<1>11. CASE ResetRecorder(w)
  <2>1. recorder' = NewEvalRecorder /\ UNCHANGED <<steps, at, answer, requestSeq, transcripts, lived>>
    BY <1>11 DEF ResetRecorder
  <2>2. NewEvalRecorder \in Recorder /\ NewEvalRecorder.inputs = <<>> /\ NewEvalRecorder.events = <<>>
    BY DEF NewEvalRecorder, Recorder
  <2>3. Asked(<<>>, requestSeq)
    BY DEF Asked
  <2> QED BY <1>0, <2>1, <2>2, <2>3 DEF KeptInv
<1> QED BY <1>3, <1>4, <1>5, <1>7, <1>9, <1>10, <1>11, <1>12, <1>13 DEF EvalStep

LEMMA ScriptTaken ==
  ASSUME NEW left \in Seq(EvalSteps), NEW taken \in [Workers -> SUBSET EvalSteps], NEW exchanges \in Seq(Exchanges),
         Script(left, taken, exchanges), NEW w \in Workers, taken[w] = {}
  PROVE  /\ left = <<>> => Script(left, [taken EXCEPT ![w] = {Exhausted}], exchanges)
         /\ left # <<>> => Script(Tail(left), [taken EXCEPT ![w] = {Head(left)}], exchanges)
<1>1. CASE left = <<>>
  <2> DEFINE more == [taken EXCEPT ![w] = {Exhausted}]
  <2>1. more[w] = {Exhausted} /\ \A v \in Workers : v # w => more[v] = taken[v]
    OBVIOUS
  <2>2. DOMAIN left = {}
    BY <1>1
  <2> HIDE DEF more
  <2>3. Script(left, more, exchanges)
    BY <2>1, <2>2 DEF Script
  <2> QED BY <1>1, <2>3 DEF more
<1>2. CASE left # <<>>
  <2> DEFINE more == [taken EXCEPT ![w] = {Head(left)}]
             rest == Tail(left)
             step == Head(left)
  <2>1. more[w] = {step} /\ \A v \in Workers : v # w => more[v] = taken[v]
    OBVIOUS
  <2>2. /\ DOMAIN left = 1..Len(left) /\ DOMAIN rest = 1..(Len(left) - 1) /\ Len(left) \in Nat /\ Len(left) >= 1
        /\ \A j \in DOMAIN rest : rest[j] = left[j + 1]
        /\ step = left[1]
    BY <1>2
  <2>3. \A j \in DOMAIN left : left[j].nth \in Nat
    <3>1. \A j \in DOMAIN left : left[j] \in EvalSteps
      OBVIOUS
    <3> QED BY <3>1 DEF EvalSteps
  <2>4. 1 \in DOMAIN left /\ \A j \in DOMAIN rest : j + 1 \in DOMAIN left /\ 1 < j + 1
    BY <2>2
  <2> HIDE DEF more, rest, step
  <2>5. \A i, j \in DOMAIN rest : i < j => rest[i].nth < rest[j].nth
    <3>1. \A i, j \in DOMAIN rest : i < j => i + 1 < j + 1
      BY <2>2
    <3> QED BY <2>2, <2>4, <3>1 DEF Script
  <2>6. /\ \A v \in Workers : \A x \in taken[v] : x.nth < step.nth
        /\ \A i \in DOMAIN exchanges : exchanges[i].step.nth < step.nth
        /\ \A j \in DOMAIN rest : step.nth < rest[j].nth
    BY <2>2, <2>4 DEF Script
  <2>7. step.nth \in Nat
    BY <2>2, <2>3, <2>4
  <2>8. \A v \in Workers : step \notin taken[v]
    BY <2>6, <2>7
  <2>9. \A i \in DOMAIN exchanges : exchanges[i].step # step
    BY <2>6, <2>7
  <2>10. ASSUME NEW j \in DOMAIN rest
         PROVE  /\ rest[j].nth > 0
                /\ \A v \in Workers : \A x \in more[v] : x.nth < rest[j].nth
                /\ \A i \in DOMAIN exchanges : exchanges[i].step.nth < rest[j].nth
    BY SMTT(30), <2>1, <2>2, <2>4, <2>6 DEF Script
  <2>11. \A v \in Workers : \A i \in DOMAIN exchanges : exchanges[i].step \in more[v] => exchanges[i].step = Exhausted
    BY <2>1, <2>9 DEF Script
  <2>12. \A u, v \in Workers : \A x \in more[u] : x \in more[v] => u = v \/ x = Exhausted
    BY <2>1, <2>8 DEF Script
  <2>13. Script(rest, more, exchanges)
    BY <2>5, <2>10, <2>11, <2>12 DEF Script
  <2> QED BY <1>2, <2>13 DEF more, rest
<1> QED BY <1>1, <1>2

LEMMA ScriptNoted ==
  ASSUME NEW left \in Seq(EvalSteps), NEW taken \in [Workers -> SUBSET EvalSteps], NEW exchanges \in Seq(Exchanges),
         Script(left, taken, exchanges), NEW w \in Workers, NEW step \in taken[w],
         NEW e, e.step = step
  PROVE  Script(left, [taken EXCEPT ![w] = {}], Append(exchanges, e))
<1> DEFINE less == [taken EXCEPT ![w] = {}]
           more == Append(exchanges, e)
           n == Len(exchanges)
<1>1. less[w] = {} /\ \A v \in Workers : v # w => less[v] = taken[v]
  OBVIOUS
<1>2. /\ n \in Nat /\ DOMAIN exchanges = 1..n /\ DOMAIN more = 1..(n + 1) /\ more[n + 1] = e
      /\ \A i \in DOMAIN exchanges : more[i] = exchanges[i]
  OBVIOUS
<1> HIDE DEF less, more, n
<1>3. \A i \in DOMAIN more : i \in DOMAIN exchanges \/ (i = n + 1 /\ more[i].step = step)
  BY <1>2
<1>4. \A i \in DOMAIN exchanges : exchanges[i].step = step => step = Exhausted
  BY DEF Script
<1>5. \A i, j \in DOMAIN more : more[i].step = more[j].step => i = j \/ more[i].step = Exhausted
  BY <1>2, <1>3, <1>4 DEF Script
<1>6. \A v \in Workers : \A i \in DOMAIN more : more[i].step \in less[v] => more[i].step = Exhausted
  BY <1>1, <1>2, <1>3 DEF Script
<1>7. \A u, v \in Workers : \A x \in less[u] : x \in less[v] => u = v \/ x = Exhausted
  BY <1>1 DEF Script
<1>8. ASSUME NEW j \in DOMAIN left
      PROVE  /\ left[j].nth > 0
             /\ \A v \in Workers : \A x \in less[v] : x.nth < left[j].nth
             /\ \A i \in DOMAIN more : more[i].step.nth < left[j].nth
  BY <1>1, <1>2, <1>3 DEF Script
<1>9. \A i, j \in DOMAIN left : i < j => left[i].nth < left[j].nth
  BY DEF Script
<1>10. Script(left, less, more)
  BY <1>5, <1>6, <1>7, <1>8, <1>9 DEF Script
<1> QED BY <1>10 DEF less, more

LEMMA ScriptCleared ==
  ASSUME NEW left, NEW taken, NEW exchanges, Script(left, taken, exchanges)
  PROVE  Script(left, taken, <<>>)
<1>1. DOMAIN <<>> = {}
  OBVIOUS
<1> QED BY <1>1 DEF Script

LEMMA ScriptStep ==
  ASSUME EvalInv, KeptInv, ScriptInv, NEW w \in Workers, EvalStep(w)
  PROVE  ScriptInv'
<1>0. /\ steps \in Seq(EvalSteps) /\ answer \in [Workers -> SUBSET EvalSteps]
      /\ recorder \in Recorder /\ recorder.exchanges \in Seq(Exchanges)
      /\ \A v \in Workers : at[v] = "exchange" <=> answer[v] # {}
      /\ Script(steps, answer, recorder.exchanges)
  BY DEF EvalInv, KeptInv, Recorder, ScriptInv
<1>1. ASSUME UNCHANGED <<steps, answer>>, recorder'.exchanges = recorder.exchanges
      PROVE  ScriptInv'
  BY <1>0, <1>1 DEF ScriptInv
<1>2. ASSUME NEW e, RecordEvent(e) PROVE recorder'.exchanges = recorder.exchanges
  BY <1>0, <1>2 DEF RecordEvent, Recorder
<1>3. CASE EvalRun(w)
  BY <1>1, <1>3 DEF EvalRun
<1>4. CASE Generate(w)
  <2>1. at[w] = "generate" /\ UNCHANGED recorder
    BY <1>4 DEF Generate
  <2>2. CASE UNCHANGED <<steps, answer, lived>>
    BY <1>1, <2>1, <2>2
  <2>3. ASSUME NEW step, step = (IF steps = <<>> THEN Exhausted ELSE Head(steps)), Pop,
               answer' = [answer EXCEPT ![w] = {step}]
        PROVE  ScriptInv'
    <3>1. answer[w] = {}
      BY <1>0, <2>1
    <3>2. CASE steps = <<>>
      BY <1>0, <2>1, <2>3, <3>1, <3>2, ScriptTaken DEF ScriptInv, Pop
    <3>3. CASE steps # <<>>
      BY <1>0, <2>1, <2>3, <3>1, <3>3, ScriptTaken DEF ScriptInv, Pop
    <3> QED BY <3>2, <3>3
  <2> QED BY <1>4, <2>2, <2>3 DEF Generate
<1>5. CASE RecordModelExchange(w)
  <2>1. PICK step \in answer[w] :
          recorder' = [recorder EXCEPT !.exchanges = Append(@, [agent |-> w, step |-> step])]
    BY <1>5 DEF RecordModelExchange
  <2>2. steps' = steps /\ answer' = [answer EXCEPT ![w] = {}]
    BY <1>5 DEF RecordModelExchange
  <2>3. recorder'.exchanges = Append(recorder.exchanges, [agent |-> w, step |-> step])
    BY <1>0, <2>1 DEF Recorder
  <2>4. [agent |-> w, step |-> step].step = step
    OBVIOUS
  <2>5. Script(steps, [answer EXCEPT ![w] = {}], Append(recorder.exchanges, [agent |-> w, step |-> step]))
    BY <1>0, <2>4, ScriptNoted
  <2> QED BY <2>2, <2>3, <2>5 DEF ScriptInv
<1>6. CASE ExecuteTool(w)
  <2>1. PICK e : RecordEvent(e)
    BY Zenon, <1>6 DEF ExecuteTool
  <2> QED BY <1>1, <1>2, <1>6, <2>1 DEF ExecuteTool
<1>7. CASE CallTool(w)
  <2>1. PICK e : RecordEvent(e)
    BY Zenon, <1>7 DEF CallTool
  <2>2. UNCHANGED <<steps, answer>>
    BY Zenon, <1>7 DEF CallTool
  <2> QED BY <1>1, <1>2, <2>1, <2>2
<1>8. CASE FailTool(w)
  BY <1>1, <1>2, <1>8 DEF FailTool
<1>9. CASE RecordRun(w)
  BY <1>0, <1>1, <1>9 DEF RecordRun, Recorder
<1>10. CASE Transcript(w)
  BY <1>1, <1>10 DEF Transcript
<1>11. CASE ResetRecorder(w)
  BY <1>0, <1>11, ScriptCleared DEF ResetRecorder, NewEvalRecorder, ScriptInv
<1> QED BY <1>3, <1>4, <1>5, <1>6, <1>7, <1>8, <1>9, <1>10, <1>11 DEF EvalStep

\* What the recorder has of a run changes with the agent's own records only.
LEMMA ShownKept ==
  ASSUME NEW v \in Workers, ShownOf(v), at'[v] = at[v], answer'[v] = answer[v], lived'[v] = lived[v],
         Calls(recorder'.events, v) = Calls(recorder.events, v),
         at[v] = "call" => Decided(recorder'.events, RequestID(v)') = Decided(recorder.events, RequestID(v)),
         OwnExchanges(recorder'.exchanges, v) = OwnExchanges(recorder.exchanges, v),
         (\E i \in DOMAIN recorder.inputs : recorder.inputs[i] = v) =>
           \E i \in DOMAIN recorder'.inputs : recorder'.inputs[i] = v
  PROVE  ShownOf(v)'
<1>1. /\ at'[v] = "transcript" => \E i \in DOMAIN recorder'.inputs : recorder'.inputs[i] = v
      /\ EndsWithCalls(Calls(recorder'.events, v), lived'[v].calls)
      /\ at'[v] = "call" => Decided(recorder'.events, RequestID(v)') = {TRUE}
  BY DEF ShownOf
<1>2. at'[v] # "exchange" => EndsWithSteps(OwnExchanges(recorder'.exchanges, v), lived'[v].steps)
  BY DEF ShownOf
<1>3. at'[v] = "exchange" =>
        \E step \in answer'[v], known \in Seq(EvalSteps) :
          lived'[v].steps = Append(known, step) /\ EndsWithSteps(OwnExchanges(recorder'.exchanges, v), known)
  BY DEF ShownOf
<1> QED BY <1>1, <1>2, <1>3 DEF ShownOf

\* An event changes what is known of the agent it is of.
LEMMA CallEnded ==
  ASSUME NEW log \in Seq(EvalEvents), NEW e \in Ends
  PROVE  /\ \A v : Calls(Append(log, e), v) = IF e.request[1] = v THEN Append(Calls(log, v), Shown(log, e)) ELSE Calls(log, v)
         /\ \A r : Decided(Append(log, e), r) = Decided(log, r)
         /\ Shown(log, e) \in ShownCalls /\ \A v : Calls(log, v) \in Seq(ShownCalls)
<1>1. /\ TranscriptToolCalls(Append(log, e)) = Append(TranscriptToolCalls(log), Shown(log, e))
      /\ Shown(log, e) \in ShownCalls /\ Shown(log, e).request = e.request
  BY CallEnds DEF Shown
<1>2. TranscriptToolCalls(log) \in Seq(ShownCalls)
  BY CallsAre
<1>3. ASSUME NEW v
      PROVE  /\ Calls(Append(log, e), v) = IF e.request[1] = v THEN Append(Calls(log, v), Shown(log, e)) ELSE Calls(log, v)
             /\ Calls(log, v) \in Seq(ShownCalls)
  BY <1>1, <1>2, OwnCallsAppend DEF Calls
<1>4. e.type # "afterApproval" /\ e \in EvalEvents
  BY DEF Ends, EvalEvents
<1>5. \A r : Decided(Append(log, e), r) = Decided(log, r)
  BY <1>4, DecidedAppend
<1> QED BY <1>1, <1>3, <1>5

LEMMA CallDecidedOn ==
  ASSUME NEW log \in Seq(EvalEvents), NEW e \in Decisions, \A i \in DOMAIN log : log[i].request # e.request
  PROVE  /\ \A v : Calls(Append(log, e), v) = Calls(log, v)
         /\ \A r : Decided(Append(log, e), r) = IF r = e.request THEN {e.approved} ELSE Decided(log, r)
<1>1. TranscriptToolCalls(Append(log, e)) = TranscriptToolCalls(log)
  BY CallDecided
<1>2. e.type = "afterApproval" /\ e \in EvalEvents
  BY DEF Decisions, EvalEvents
<1>3. \A r : Decided(Append(log, e), r) = IF r = e.request THEN {e.approved} ELSE Decided(log, r)
  BY <1>2, DecidedAppend
<1> QED BY <1>1, <1>3 DEF Calls

LEMMA NotDecided ==
  ASSUME NEW log, NEW r, \A i \in DOMAIN log : log[i].request # r
  PROVE  Decided(log, r) = {}
<1>1. DecisionsOn(log, r) = {}
  BY DEF DecisionsOn
<1> QED BY <1>1 DEF Decided

\* What the end of a call shows.
LEMMA EndTells ==
  ASSUME NEW r, NEW log
  PROVE  /\ Decided(log, r) = {} => Tells(Shown(log, AfterToolEvent(r, "schema")), [request |-> r, outcome |-> "invalid"])
         /\ Decided(log, r) = {TRUE} =>
              /\ Tells(Shown(log, AfterToolEvent(r, "")), [request |-> r, outcome |-> "ran"])
              /\ Tells(Shown(log, AfterToolEvent(r, "tool")), [request |-> r, outcome |-> "ran"])
         /\ Tells(Shown(log, AfterToolEvent(r, "approval")), [request |-> r, outcome |-> "refused"])
<1>1. ASSUME NEW error
      PROVE  /\ Shown(log, AfterToolEvent(r, error)).request = r
             /\ Shown(log, AfterToolEvent(r, error)).error = error
             /\ Shown(log, AfterToolEvent(r, error)).approved = Decided(log, r)
  BY DEF Shown, AfterToolEvent
<1>2. ASSUME NEW outcome PROVE [request |-> r, outcome |-> outcome].request = r /\ [request |-> r, outcome |-> outcome].outcome = outcome
  OBVIOUS
<1>3. {} # {FALSE} /\ {TRUE} # {FALSE}
  <2>1. FALSE \in {FALSE} /\ FALSE \notin {} /\ FALSE \notin {TRUE}
    BY Zenon
  <2>2. \A S, T, x : x \in S /\ x \notin T => T # S
    BY Zenon
  <2> QED BY Zenon, <2>1, <2>2
<1>4. /\ "schema" # "approval" /\ "" # "approval" /\ "tool" # "approval" /\ "approval" # "" /\ "schema" # ""
      /\ "invalid" # "refused" /\ "ran" # "refused" /\ "invalid" # "ran"
  BY Zenon
<1>5. ASSUME Decided(log, r) = {}
      PROVE  Tells(Shown(log, AfterToolEvent(r, "schema")), [request |-> r, outcome |-> "invalid"])
  BY Zenon, <1>1, <1>2, <1>3, <1>4, <1>5 DEF Tells, ShowsDenial
<1>6. ASSUME Decided(log, r) = {TRUE}
      PROVE  /\ Tells(Shown(log, AfterToolEvent(r, "")), [request |-> r, outcome |-> "ran"])
             /\ Tells(Shown(log, AfterToolEvent(r, "tool")), [request |-> r, outcome |-> "ran"])
  BY Zenon, <1>1, <1>2, <1>3, <1>4, <1>6 DEF Tells, ShowsDenial
<1>7. Tells(Shown(log, AfterToolEvent(r, "approval")), [request |-> r, outcome |-> "refused"])
  BY Zenon, <1>1, <1>2, <1>3, <1>4 DEF Tells, ShowsDenial
<1> QED BY Zenon, <1>5, <1>6, <1>7

\* The end of a call: of the other agents' runs the recorder has what it had.
LEMMA EndShown ==
  ASSUME EvalInv, KeptInv, ShownInv, NEW w \in Workers, NEW error \in Errors, NEW r \in Requests, r[1] = w,
         NEW outcome \in {"invalid", "ran", "refused"}, NEW s \in {"generate", "report"},
         RecordEvent(AfterToolEvent(r, error)), Live(w, r, outcome), GoOn(w, s),
         at[w] \in {"tool", "call", "refuse"},
         whole[w] => Tells(Shown(recorder.events, AfterToolEvent(r, error)), [request |-> r, outcome |-> outcome]),
         answer' = answer, whole' = whole, \A v \in Workers : v # w => requestSeq'[v] = requestSeq[v]
  PROVE  ShownInv'
<1> DEFINE e == AfterToolEvent(r, error)
           was == [request |-> r, outcome |-> outcome]
           log == recorder.events
<1>1. /\ at \in [Workers -> Stages] /\ log \in Seq(EvalEvents)
      /\ recorder \in Recorder /\ lived \in [Workers -> Lives]
  BY DEF EvalInv, KeptInv, Recorder
<1>2. e \in Ends /\ e \in EvalEvents /\ e.request = r
  BY EventIs
<1>3. /\ recorder'.events = Append(log, e) /\ recorder'.inputs = recorder.inputs
      /\ recorder'.exchanges = recorder.exchanges
  BY <1>1, <1>2, EventRecorded
<1>4. /\ lived'[w].steps = lived[w].steps /\ lived'[w].calls = Append(lived[w].calls, was)
      /\ \A v \in Workers \ {w} : lived'[v] = lived[v]
  BY <1>1, CallLived
<1>5. at'[w] = s /\ \A v \in Workers \ {w} : at'[v] = at[v]
  BY <1>1 DEF GoOn
<1>6. /\ \A v : Calls(Append(log, e), v) = IF e.request[1] = v THEN Append(Calls(log, v), Shown(log, e)) ELSE Calls(log, v)
      /\ \A q : Decided(Append(log, e), q) = Decided(log, q)
      /\ Shown(log, e) \in ShownCalls /\ Calls(log, w) \in Seq(ShownCalls)
  BY <1>1, <1>2, CallEnded
<1>7. whole[w] => Tells(Shown(log, e), was)
  OBVIOUS
<1> HIDE DEF e, was, log
<1>8. ASSUME NEW v \in Workers, v # w, whole'[v], at'[v] # "idle" PROVE ShownOf(v)'
  <2>1. ShownOf(v) /\ at'[v] = at[v] /\ lived'[v] = lived[v] /\ answer'[v] = answer[v]
    BY <1>4, <1>5, <1>8 DEF ShownInv
  <2>2. RequestID(v)' = RequestID(v)
    BY <1>8 DEF RequestID
  <2>3. Calls(recorder'.events, v) = Calls(recorder.events, v)
    BY <1>2, <1>3, <1>6, <1>8 DEF log
  <2>4. Decided(recorder'.events, RequestID(v)') = Decided(recorder.events, RequestID(v))
    BY <1>3, <1>6, <2>2 DEF log
  <2> QED BY <1>3, <2>1, <2>3, <2>4, ShownKept
<1>9. ASSUME whole'[w] PROVE ShownOf(w)'
  <2>1. ShownOf(w) /\ at[w] # "exchange"
    BY <1>9 DEF ShownInv
  <2>2. EndsWithCalls(Calls(log, w), lived[w].calls) /\ EndsWithSteps(OwnExchanges(recorder.exchanges, w), lived[w].steps)
    BY <2>1 DEF ShownOf, log
  <2>3. Calls(recorder'.events, w) = Append(Calls(log, w), Shown(log, e))
    BY <1>2, <1>3, <1>6
  <2>4. lived[w].calls \in Seq(LivedCalls)
    <3>1. lived[w] \in Lives
      BY <1>1
    <3> QED BY <3>1 DEF Lives
  <2>5. was \in LivedCalls
    BY DEF was, LivedCalls
  <2>6. EndsWithCalls(Calls(recorder'.events, w), lived'[w].calls)
    BY <1>4, <1>6, <1>7, <1>9, <2>2, <2>3, <2>4, <2>5, CallsMore
  <2>7. EndsWithSteps(OwnExchanges(recorder'.exchanges, w), lived'[w].steps)
    BY <1>3, <1>4, <2>2
  <2>8. at'[w] # "transcript" /\ at'[w] # "call" /\ at'[w] # "exchange"
    BY <1>5
  <2> QED BY <2>6, <2>7, <2>8 DEF ShownOf
<1> QED BY <1>8, <1>9 DEF ShownInv

\* A decision on a call.
LEMMA DecisionShown ==
  ASSUME EvalInv, KeptInv, ShownInv, NEW w \in Workers, NEW approved \in BOOLEAN, NEW failed \in BOOLEAN,
         RecordEvent(AfterApprovalEvent(w, approved)), GoOn(w, IF approved /\ ~failed THEN "call" ELSE "refuse"),
         at[w] = "tool", RequestID(w)' \in Requests, RequestID(w)'[1] = w,
         \A i \in DOMAIN recorder.events : recorder.events[i].request # RequestID(w)',
         UNCHANGED <<answer, lived, whole>>, \A v \in Workers : v # w => requestSeq'[v] = requestSeq[v]
  PROVE  ShownInv'
<1> DEFINE e == AfterApprovalEvent(w, approved)
           log == recorder.events
<1>1. /\ at \in [Workers -> Stages] /\ log \in Seq(EvalEvents) /\ recorder \in Recorder
  BY DEF EvalInv, KeptInv, Recorder
<1>2. e \in Decisions /\ e \in EvalEvents /\ e.request = RequestID(w)' /\ e.approved = approved
  <2>1. \A r \in Requests : [type |-> "afterApproval", request |-> r, approved |-> approved] \in Decisions
    BY DEF Decisions
  <2>2. e = [type |-> "afterApproval", request |-> RequestID(w)', approved |-> approved]
    BY DEF AfterApprovalEvent
  <2>3. e \in Decisions
    BY <2>1, <2>2
  <2>4. e.request = RequestID(w)' /\ e.approved = approved
    BY <2>2
  <2> QED BY <2>3, <2>4 DEF EvalEvents
<1>3. /\ recorder'.events = Append(log, e) /\ recorder'.inputs = recorder.inputs
      /\ recorder'.exchanges = recorder.exchanges
  BY <1>1, <1>2, EventRecorded
<1>4. at'[w] \in {"call", "refuse"} /\ (at'[w] = "call" => approved) /\ \A v \in Workers \ {w} : at'[v] = at[v]
  BY <1>1 DEF GoOn
<1>5. /\ \A v : Calls(Append(log, e), v) = Calls(log, v)
      /\ \A q : Decided(Append(log, e), q) = IF q = e.request THEN {e.approved} ELSE Decided(log, q)
  <2>1. e \in Decisions /\ log \in Seq(EvalEvents) /\ \A i \in DOMAIN log : log[i].request # e.request
    BY <1>1, <1>2
  <2> HIDE DEF e, log
  <2> QED BY <2>1, CallDecidedOn
<1> HIDE DEF e, log
<1>6. ASSUME NEW v \in Workers, v # w, whole'[v], at'[v] # "idle" PROVE ShownOf(v)'
  <2>1. ShownOf(v) /\ at'[v] = at[v] /\ lived'[v] = lived[v] /\ answer'[v] = answer[v]
    BY <1>4, <1>6 DEF ShownInv
  <2>2. RequestID(v)' = RequestID(v) /\ RequestID(v)[1] = v
    BY <1>6 DEF RequestID
  <2>3. Calls(recorder'.events, v) = Calls(recorder.events, v)
    BY <1>3, <1>5 DEF log
  <2>4. Decided(recorder'.events, RequestID(v)') = Decided(recorder.events, RequestID(v))
    BY <1>2, <1>3, <1>5, <1>6, <2>2 DEF log
  <2> QED BY <1>3, <2>1, <2>3, <2>4, ShownKept
<1>7. ASSUME whole'[w] PROVE ShownOf(w)'
  <2>1. ShownOf(w)
    BY <1>7 DEF ShownInv
  <2>2. EndsWithCalls(Calls(log, w), lived[w].calls) /\ EndsWithSteps(OwnExchanges(recorder.exchanges, w), lived[w].steps)
    BY <2>1 DEF ShownOf, log
  <2>3. EndsWithCalls(Calls(recorder'.events, w), lived'[w].calls)
    BY <1>3, <1>5, <2>2
  <2>4. EndsWithSteps(OwnExchanges(recorder'.exchanges, w), lived'[w].steps)
    BY <1>3, <2>2
  <2>5. at'[w] = "call" => Decided(recorder'.events, RequestID(w)') = {TRUE}
    <3>1. Decided(recorder'.events, RequestID(w)') = {approved}
      BY <1>2, <1>3, <1>5
    <3>2. approved => approved = TRUE
      BY Zenon
    <3>3. approved = TRUE => {approved} = {TRUE}
      BY Zenon
    <3> QED BY Zenon, <1>4, <3>1, <3>2, <3>3
  <2>6. at'[w] # "transcript" /\ at'[w] # "exchange"
    BY <1>4
  <2> QED BY Zenon, <2>3, <2>4, <2>5, <2>6 DEF ShownOf
<1> QED BY <1>6, <1>7 DEF ShownInv

LEMMA ShownStep ==
  ASSUME EvalInv, KeptInv, ShownInv, NEW w \in Workers, EvalStep(w)
  PROVE  ShownInv'
<1>0. /\ at \in [Workers -> Stages] /\ requestSeq \in [Workers -> Nat] /\ whole \in [Workers -> BOOLEAN]
      /\ steps \in Seq(EvalSteps) /\ recorder \in Recorder
      /\ answer \in [Workers -> SUBSET EvalSteps] /\ \A v \in Workers : OneAtMost(answer[v])
      /\ lived \in [Workers -> Lives] /\ Asked(recorder.events, requestSeq)
  BY DEF EvalInv, KeptInv
<1>1. /\ recorder.inputs \in Seq(Workers) /\ recorder.exchanges \in Seq(Exchanges) /\ recorder.events \in Seq(EvalEvents)
  BY <1>0 DEF Recorder
<1>2. \A v \in Workers : lived[v].steps \in Seq(EvalSteps) /\ lived[v].calls \in Seq(LivedCalls)
  <2>1. \A v \in Workers : lived[v] \in Lives
    BY <1>0
  <2> QED BY <2>1 DEF Lives
<1>3. \A v : OwnExchanges(recorder.exchanges, v) \in Seq(Exchanges) /\ Calls(recorder.events, v) \in Seq(ShownCalls)
  <2>1. TranscriptToolCalls(recorder.events) \in Seq(ShownCalls)
    BY <1>1, CallsAre
  <2>2. ASSUME NEW v PROVE Calls(recorder.events, v) \in Seq(ShownCalls)
    <3>1. PICK c : c \in ShownCalls \/ ShownCalls = {}
      OBVIOUS
    <3>2. c \in ShownCalls
      <4>1. <<w, requestSeq[w]>> \in Requests
        BY <1>0 DEF Requests
      <4>2. [request |-> <<w, requestSeq[w]>>, error |-> "schema", approved |-> {}] \in ShownCalls
        BY <4>1, ErrorsAre DEF ShownCalls
      <4> QED BY <3>1, <4>2
    <3> QED BY <2>1, <3>2, OwnCallsAppend DEF Calls
  <2>3. ASSUME NEW v PROVE OwnExchanges(recorder.exchanges, v) \in Seq(Exchanges)
    <3>1. [agent |-> w, step |-> Exhausted] \in Exchanges
      BY DEF Exhausted, Exchanges, EvalSteps, Answers
    <3> QED BY <1>1, <3>1, OwnExchangesAppend
  <2> QED BY <2>2, <2>3
\* The other agents, as long as their records stay what they are.
<1>4. ASSUME NEW v \in Workers, v # w, whole'[v], at'[v] # "idle", NEW s, GoOn(w, s), whole'[v] => whole[v],
             answer'[v] = answer[v], lived'[v] = lived[v], requestSeq'[v] = requestSeq[v],
             recorder'.events = recorder.events,
             OwnExchanges(recorder'.exchanges, v) = OwnExchanges(recorder.exchanges, v),
             \A i \in DOMAIN recorder.inputs : i \in DOMAIN recorder'.inputs /\ recorder'.inputs[i] = recorder.inputs[i]
      PROVE  ShownOf(v)'
  <2>1. at'[v] = at[v] /\ ShownOf(v)
    BY <1>0, <1>4 DEF ShownInv, GoOn
  <2>2. RequestID(v)' = RequestID(v)
    BY <1>4 DEF RequestID
  <2> QED BY <1>4, <2>1, <2>2, ShownKept
<1>5. CASE EvalRun(w)
  <2>1. /\ GoOn(w, "generate") /\ at' = [at EXCEPT ![w] = "generate"]
        /\ lived' = [lived EXCEPT ![w] = Nothing] /\ whole' = [whole EXCEPT ![w] = TRUE]
        /\ UNCHANGED <<steps, recorder, answer, requestSeq>>
    BY <1>5 DEF EvalRun, GoOn
  <2>2. ASSUME NEW v \in Workers, v # w, whole'[v], at'[v] # "idle" PROVE ShownOf(v)'
    <3>1. whole'[v] = whole[v] /\ lived'[v] = lived[v]
      BY <1>0, <2>1, <2>2
    <3> QED BY <1>4, <2>1, <2>2, <3>1
  <2>3. ShownOf(w)'
    <3>1. at'[w] = "generate" /\ lived'[w] = Nothing /\ recorder' = recorder
      BY <1>0, <2>1
    <3>2. Nothing.steps = <<>> /\ Nothing.calls = <<>>
      BY DEF Nothing
    <3>3. EndsWithCalls(Calls(recorder'.events, w), lived'[w].calls)
      BY <1>3, <3>1, <3>2, NoneYet
    <3>4. EndsWithSteps(OwnExchanges(recorder'.exchanges, w), lived'[w].steps)
      BY <1>3, <3>1, <3>2, NoneYet
    <3> QED BY <3>1, <3>3, <3>4 DEF ShownOf
  <2> QED BY <2>2, <2>3 DEF ShownInv
<1>6. CASE Generate(w)
  <2>1. at[w] = "generate" /\ UNCHANGED <<recorder, requestSeq, transcripts, whole>>
    BY <1>6 DEF Generate
  <2>2. CASE GoOn(w, "report") /\ UNCHANGED <<steps, answer, lived>>
    <3>1. ASSUME NEW v \in Workers, v # w, whole'[v], at'[v] # "idle" PROVE ShownOf(v)'
      BY <1>4, <2>1, <2>2, <3>1
    <3>2. ASSUME whole'[w] PROVE ShownOf(w)'
      <4>1. at'[w] = "report"
        BY <1>0, <2>2 DEF GoOn
      <4>2. ShownOf(w)
        BY <2>1, <3>2 DEF ShownInv
      <4> QED BY <2>1, <2>2, <4>1, <4>2 DEF ShownOf
    <3> QED BY <3>1, <3>2 DEF ShownInv
  <2>3. ASSUME NEW step, step = (IF steps = <<>> THEN Exhausted ELSE Head(steps)), Pop,
               answer' = [answer EXCEPT ![w] = {step}], lived' = [lived EXCEPT ![w].steps = Append(@, step)],
               GoOn(w, "exchange")
        PROVE  ShownInv'
    <3>1. ASSUME NEW v \in Workers, v # w, whole'[v], at'[v] # "idle" PROVE ShownOf(v)'
      <4>1. answer'[v] = answer[v] /\ lived'[v] = lived[v]
        BY <1>0, <2>3, <3>1
      <4> QED BY <1>4, <2>1, <2>3, <3>1, <4>1
    <3>2. ASSUME whole'[w] PROVE ShownOf(w)'
      <4>1. at'[w] = "exchange" /\ answer'[w] = {step}
        BY <1>0, <2>3 DEF GoOn
      <4>2. lived'[w].steps = Append(lived[w].steps, step) /\ lived'[w].calls = lived[w].calls
        <5>1. lived'[w] = [lived[w] EXCEPT !.steps = Append(lived[w].steps, step)] /\ lived[w] \in Lives
          BY <1>0, <2>3
        <5> QED BY <5>1 DEF Lives
      <4>3. ShownOf(w)
        BY <2>1, <3>2 DEF ShownInv
      <4>4. EndsWithSteps(OwnExchanges(recorder'.exchanges, w), lived[w].steps)
        BY <2>1, <4>3 DEF ShownOf
      <4>5. EndsWithCalls(Calls(recorder'.events, w), lived'[w].calls)
        BY <2>1, <4>2, <4>3 DEF ShownOf
      <4> QED BY <1>2, <4>1, <4>2, <4>4, <4>5 DEF ShownOf
    <3> QED BY <3>1, <3>2 DEF ShownInv
  <2> QED BY <1>6, <2>2, <2>3 DEF Generate
<1>7. CASE RecordModelExchange(w)
  <2>1. PICK step \in answer[w] :
          /\ recorder' = [recorder EXCEPT !.exchanges = Append(@, [agent |-> w, step |-> step])]
          /\ GoOn(w, IF step.kind = "call" THEN "tool" ELSE "report")
    BY <1>7 DEF RecordModelExchange
  <2>2. /\ at[w] = "exchange" /\ answer' = [answer EXCEPT ![w] = {}]
        /\ UNCHANGED <<steps, requestSeq, transcripts, lived, whole>>
    BY <1>7 DEF RecordModelExchange
  <2> DEFINE e == [agent |-> w, step |-> step]
  <2>3. e \in Exchanges /\ e.agent = w /\ e.step = step
    BY <1>0, <2>1 DEF Exchanges
  <2>4. /\ recorder'.exchanges = Append(recorder.exchanges, e) /\ recorder'.events = recorder.events
        /\ recorder'.inputs = recorder.inputs
    BY <1>0, <2>1 DEF Recorder
  <2> HIDE DEF e
  <2>5. ASSUME NEW v
        PROVE  OwnExchanges(recorder'.exchanges, v) =
                 IF v = w THEN Append(OwnExchanges(recorder.exchanges, v), e) ELSE OwnExchanges(recorder.exchanges, v)
    <3>1. OwnExchanges(Append(recorder.exchanges, e), v) =
            IF e.agent = v THEN Append(OwnExchanges(recorder.exchanges, v), e) ELSE OwnExchanges(recorder.exchanges, v)
      BY <1>1, <2>3, OwnExchangesAppend
    <3> QED BY <2>3, <2>4, <3>1
  <2>6. ASSUME NEW v \in Workers, v # w, whole'[v], at'[v] # "idle" PROVE ShownOf(v)'
    <3>1. answer'[v] = answer[v]
      BY <1>0, <2>2, <2>6
    <3> QED BY <1>4, <2>1, <2>2, <2>4, <2>5, <2>6, <3>1
  <2>7. ASSUME whole'[w] PROVE ShownOf(w)'
    <3>1. at'[w] \in {"tool", "report"}
      BY <1>0, <2>1 DEF GoOn
    <3>2. ShownOf(w)
      BY <2>2, <2>7 DEF ShownInv
    <3>3. PICK known \in Seq(EvalSteps) :
            lived[w].steps = Append(known, step) /\ EndsWithSteps(OwnExchanges(recorder.exchanges, w), known)
      BY <1>0, <2>1, <2>2, <3>2 DEF ShownOf, OneAtMost
    <3>4. EndsWithSteps(Append(OwnExchanges(recorder.exchanges, w), e), Append(known, e.step))
      BY <1>3, <2>3, <3>3, StepsMore
    <3>5. EndsWithSteps(OwnExchanges(recorder'.exchanges, w), lived'[w].steps)
      BY <2>2, <2>3, <2>5, <3>3, <3>4
    <3>6. EndsWithCalls(Calls(recorder'.events, w), lived'[w].calls)
      BY <2>2, <2>4, <3>2 DEF ShownOf
    <3> QED BY <3>1, <3>5, <3>6 DEF ShownOf
  <2> QED BY <2>6, <2>7 DEF ShownInv
<1>8. CASE ExecuteTool(w)
  <2>1. /\ at[w] = "tool" /\ requestSeq' = [requestSeq EXCEPT ![w] = @ + 1] /\ UNCHANGED <<answer, whole>>
    BY Zenon, <1>8 DEF ExecuteTool
  <2>2. /\ RequestID(w)' \in Requests /\ RequestID(w)'[1] = w
        /\ \A i \in DOMAIN recorder.events : recorder.events[i].request # RequestID(w)'
    <3>1. /\ RequestID(w)' = <<w, requestSeq[w] + 1>> /\ RequestID(w)' \in Requests
          /\ \A log \in Seq(EvalEvents) : Asked(log, requestSeq) => \A i \in DOMAIN log : log[i].request # RequestID(w)'
      BY <1>0, <2>1, NextRequest
    <3>2. RequestID(w)'[1] = w
      BY <3>1
    <3>3. \A i \in DOMAIN recorder.events : recorder.events[i].request # RequestID(w)'
      BY <1>0, <1>1, <3>1
    <3> QED BY <3>1, <3>2, <3>3
  <2>3. \A v \in Workers : v # w => requestSeq'[v] = requestSeq[v]
    BY <1>0, <2>1
  <2>4. CASE RecordEvent(AfterToolEvent(RequestID(w)', "schema")) /\ Live(w, RequestID(w)', "invalid") /\ GoOn(w, "generate")
    <3>1. Decided(recorder.events, RequestID(w)') = {}
      BY <2>2, NotDecided
    <3>2. Tells(Shown(recorder.events, AfterToolEvent(RequestID(w)', "schema")), [request |-> RequestID(w)', outcome |-> "invalid"])
      BY Zenon, <3>1, EndTells
    <3>3. "schema" \in Errors /\ "invalid" \in {"invalid", "ran", "refused"} /\ "generate" \in {"generate", "report"}
          /\ at[w] \in {"tool", "call", "refuse"} /\ answer' = answer /\ whole' = whole
      BY <2>1, ErrorsAre
    <3> QED BY <2>2, <2>3, <2>4, <3>2, <3>3, EndShown
  <2>5. ASSUME NEW approved \in BOOLEAN, NEW failed \in BOOLEAN, RecordEvent(AfterApprovalEvent(w, approved)),
               GoOn(w, IF approved /\ ~failed THEN "call" ELSE "refuse"), UNCHANGED lived
        PROVE  ShownInv'
    BY <2>1, <2>2, <2>3, <2>5, DecisionShown
  <2> QED BY <1>8, <2>4, <2>5 DEF ExecuteTool
\* The end of a call that its policy was asked for.
<1>9. RequestID(w) \in Requests /\ RequestID(w)[1] = w
  BY <1>0 DEF RequestID, Requests
<1>10. CASE CallTool(w)
  <2>1. /\ at[w] = "call" /\ Live(w, RequestID(w), "ran") /\ GoOn(w, "generate")
        /\ UNCHANGED <<answer, requestSeq, whole>>
    BY Zenon, <1>10 DEF CallTool
  <2>2. ASSUME whole[w] PROVE Decided(recorder.events, RequestID(w)) = {TRUE}
    BY <2>1, <2>2 DEF ShownInv, ShownOf
  <2>3. /\ "ran" \in {"invalid", "ran", "refused"} /\ "generate" \in {"generate", "report"}
        /\ at[w] \in {"tool", "call", "refuse"} /\ answer' = answer /\ whole' = whole
        /\ \A v \in Workers : v # w => requestSeq'[v] = requestSeq[v]
    BY <2>1
  <2>4. PICK error \in Errors :
          /\ RecordEvent(AfterToolEvent(RequestID(w), error))
          /\ whole[w] =>
               Tells(Shown(recorder.events, AfterToolEvent(RequestID(w), error)), [request |-> RequestID(w), outcome |-> "ran"])
    <3>1. PICK error \in {"", "tool"} : RecordEvent(AfterToolEvent(RequestID(w), error))
      BY Zenon, <1>10 DEF CallTool
    <3> QED BY Zenon, <2>2, <3>1, EndTells DEF Errors
  <2> QED BY <1>9, <2>1, <2>3, <2>4, EndShown
<1>11. CASE FailTool(w)
  <2>1. /\ at[w] = "refuse" /\ RecordEvent(AfterToolEvent(RequestID(w), "approval")) /\ Live(w, RequestID(w), "refused")
        /\ GoOn(w, "report") /\ UNCHANGED <<answer, requestSeq, whole>>
    BY <1>11 DEF FailTool
  <2>2. Tells(Shown(recorder.events, AfterToolEvent(RequestID(w), "approval")), [request |-> RequestID(w), outcome |-> "refused"])
    BY Zenon, EndTells
  <2>3. "approval" \in Errors /\ "refused" \in {"invalid", "ran", "refused"} /\ "report" \in {"generate", "report"}
        /\ at[w] \in {"tool", "call", "refuse"} /\ answer' = answer /\ whole' = whole
        /\ \A v \in Workers : v # w => requestSeq'[v] = requestSeq[v]
    BY <2>1, ErrorsAre
  <2> QED BY <1>9, <2>1, <2>2, <2>3, EndShown
<1>12. CASE RecordRun(w)
  <2>1. /\ at[w] = "report" /\ recorder' = [recorder EXCEPT !.inputs = Append(@, w), !.final = {w}]
        /\ GoOn(w, "transcript") /\ UNCHANGED <<steps, answer, requestSeq, transcripts, lived, whole>>
    BY <1>12 DEF RecordRun
  <2>2. /\ recorder'.inputs = Append(recorder.inputs, w) /\ recorder'.events = recorder.events
        /\ recorder'.exchanges = recorder.exchanges
    BY <1>0, <2>1 DEF Recorder
  <2>3. \A i \in DOMAIN recorder.inputs : i \in DOMAIN recorder'.inputs /\ recorder'.inputs[i] = recorder.inputs[i]
    BY <1>1, <2>2
  <2>4. \E i \in DOMAIN recorder'.inputs : recorder'.inputs[i] = w
    <3>1. Len(recorder.inputs) + 1 \in DOMAIN recorder'.inputs /\ recorder'.inputs[Len(recorder.inputs) + 1] = w
      BY <1>1, <2>2
    <3> QED BY <3>1
  <2>5. ASSUME NEW v \in Workers, v # w, whole'[v], at'[v] # "idle" PROVE ShownOf(v)'
    BY <1>4, <2>1, <2>2, <2>3, <2>5
  <2>6. ASSUME whole'[w] PROVE ShownOf(w)'
    <3>1. at'[w] = "transcript"
      BY <1>0, <2>1 DEF GoOn
    <3>2. ShownOf(w)
      BY <2>1, <2>6 DEF ShownInv
    <3> QED BY <2>1, <2>2, <2>4, <3>1, <3>2 DEF ShownOf
  <2> QED BY <2>5, <2>6 DEF ShownInv
<1>13. CASE Transcript(w)
  <2>1. GoOn(w, "idle") /\ UNCHANGED <<steps, recorder, answer, requestSeq, lived, whole>>
    BY <1>13 DEF Transcript
  <2>2. ASSUME NEW v \in Workers, whole'[v], at'[v] # "idle" PROVE ShownOf(v)'
    <3>1. v # w
      BY <1>0, <2>1, <2>2 DEF GoOn
    <3> QED BY <1>4, <2>1, <2>2, <3>1
  <2> QED BY <2>2 DEF ShownInv
<1>14. CASE ResetRecorder(w)
  <2>1. at' = at /\ whole' = [v \in Workers |-> whole[v] /\ at[v] = "idle"]
    BY <1>14 DEF ResetRecorder
  <2>2. \A v \in Workers : ~(whole'[v] /\ at'[v] # "idle")
    BY Zenon, <2>1
  <2> QED BY Zenon, <2>2 DEF ShownInv
<1> QED BY <1>5, <1>6, <1>7, <1>8, <1>10, <1>11, <1>12, <1>13, <1>14 DEF EvalStep

\* A transcript stays what it was until its agent runs again.
LEMMA TellStep ==
  ASSUME EvalInv, KeptInv, ScriptInv, ShownInv, TranscriptsTell, NEW w \in Workers, EvalStep(w)
  PROVE  TranscriptsTell'
<1> DEFINE Good(v, transcript, unbroken, life) ==
             /\ unbroken =>
                  /\ \E i \in DOMAIN transcript.inputs : transcript.inputs[i] = v
                  /\ EndsWithSteps(OwnExchanges(transcript.exchanges, v), life.steps)
                  /\ EndsWithCalls(OwnCalls(transcript.calls, v), life.calls)
             /\ transcript.inputs # <<>> => transcript.final = {Last(transcript.inputs)}
             /\ \A i, j \in DOMAIN transcript.exchanges :
                  transcript.exchanges[i].step = transcript.exchanges[j].step
                  => i = j \/ transcript.exchanges[i].step = Exhausted
<1>0. /\ at \in [Workers -> Stages] /\ whole \in [Workers -> BOOLEAN] /\ lived \in [Workers -> Lives]
      /\ DOMAIN transcripts = Workers /\ \A v \in Workers : transcripts[v] # {} => at[v] = "idle"
      /\ recorder.inputs # <<>> => recorder.final = {Last(recorder.inputs)}
  BY DEF EvalInv, KeptInv
<1>1. \A v \in Workers : \A t \in transcripts[v] : Good(v, t, whole[v], lived[v])
  BY DEF TranscriptsTell
<1>2. (\A v \in Workers : \A t \in transcripts'[v] : Good(v, t, whole'[v], lived'[v])) => TranscriptsTell'
  BY DEF TranscriptsTell
<1>3. ASSUME NEW v, NEW t, NEW unbroken \in BOOLEAN, NEW still \in BOOLEAN, still => unbroken, NEW life, Good(v, t, unbroken, life)
      PROVE  Good(v, t, still, life)
  BY Zenon, <1>3
<1> HIDE DEF Good
\* A run that goes on has no transcript.
<1>4. ASSUME at[w] # "idle", UNCHANGED <<transcripts, whole>>, \A v \in Workers : v # w => lived'[v] = lived[v]
      PROVE  TranscriptsTell'
  BY <1>0, <1>1, <1>2, <1>4
<1>5. ASSUME NEW step, lived' = [lived EXCEPT ![w].steps = Append(@, step)]
      PROVE  \A v \in Workers : v # w => lived'[v] = lived[v]
  BY <1>0, <1>5
<1>6. ASSUME NEW r, NEW outcome, Live(w, r, outcome)
      PROVE  \A v \in Workers : v # w => lived'[v] = lived[v]
  BY <1>0, <1>6 DEF Live
<1>7. CASE EvalRun(w)
  <2>1. /\ transcripts' = [transcripts EXCEPT ![w] = {}] /\ lived' = [lived EXCEPT ![w] = Nothing]
        /\ whole' = [whole EXCEPT ![w] = TRUE]
    BY <1>7 DEF EvalRun
  <2>2. transcripts'[w] = {}
    BY <1>0, <2>1
  <2>3. ASSUME NEW v \in Workers, v # w
        PROVE  transcripts'[v] = transcripts[v] /\ lived'[v] = lived[v] /\ whole'[v] = whole[v]
    BY <1>0, <2>1, <2>3
  <2> QED BY <1>1, <1>2, <2>2, <2>3
<1>8. CASE Generate(w)
  <2>1. at[w] # "idle" /\ UNCHANGED <<transcripts, whole>>
    BY <1>8 DEF Generate
  <2>2. \A v \in Workers : v # w => lived'[v] = lived[v]
    BY <1>5, <1>8 DEF Generate
  <2> QED BY <1>4, <2>1, <2>2
<1>9. CASE RecordModelExchange(w)
  BY <1>4, <1>9 DEF RecordModelExchange
<1>10. CASE ExecuteTool(w)
  <2>1. at[w] # "idle" /\ UNCHANGED <<transcripts, whole>>
    BY Zenon, <1>10 DEF ExecuteTool
  <2>2. CASE Live(w, RequestID(w)', "invalid")
    BY <1>4, <1>6, <2>1, <2>2
  <2>3. CASE UNCHANGED lived
    BY <1>4, <2>1, <2>3
  <2> QED BY Zenon, <1>10, <2>2, <2>3 DEF ExecuteTool
<1>11. CASE CallTool(w)
  <2>1. at[w] # "idle" /\ UNCHANGED <<transcripts, whole>> /\ Live(w, RequestID(w), "ran")
    BY Zenon, <1>11 DEF CallTool
  <2> QED BY <1>4, <1>6, <2>1
<1>12. CASE FailTool(w)
  <2>1. at[w] # "idle" /\ UNCHANGED <<transcripts, whole>> /\ Live(w, RequestID(w), "refused")
    BY <1>12 DEF FailTool
  <2> QED BY <1>4, <1>6, <2>1
<1>13. CASE RecordRun(w)
  BY <1>4, <1>13 DEF RecordRun
<1>14. CASE Transcript(w)
  <2> DEFINE t == [inputs |-> recorder.inputs, final |-> recorder.final, exchanges |-> recorder.exchanges,
                   calls |-> TranscriptToolCalls(recorder.events)]
  <2>1. at[w] = "transcript" /\ transcripts' = [transcripts EXCEPT ![w] = {t}] /\ UNCHANGED <<lived, whole>>
    BY <1>14 DEF Transcript
  <2>2. /\ t.inputs = recorder.inputs /\ t.final = recorder.final /\ t.exchanges = recorder.exchanges
        /\ t.calls = TranscriptToolCalls(recorder.events)
    OBVIOUS
  <2> HIDE DEF t
  <2>3. transcripts'[w] = {t} /\ \A v \in Workers : v # w => transcripts'[v] = transcripts[v]
    BY <1>0, <2>1
  <2>4. whole[w] =>
          /\ \E i \in DOMAIN t.inputs : t.inputs[i] = w
          /\ EndsWithSteps(OwnExchanges(t.exchanges, w), lived[w].steps)
          /\ EndsWithCalls(OwnCalls(t.calls, w), lived[w].calls)
    <3>1. whole[w] => ShownOf(w)
      BY <2>1 DEF ShownInv
    <3> QED BY <2>1, <2>2, <3>1 DEF ShownOf, Calls
  <2>5. t.inputs # <<>> => t.final = {Last(t.inputs)}
    BY <1>0, <2>2
  <2>6. \A i, j \in DOMAIN t.exchanges : t.exchanges[i].step = t.exchanges[j].step => i = j \/ t.exchanges[i].step = Exhausted
    BY <2>2 DEF ScriptInv, Script
  <2>7. Good(w, t, whole[w], lived[w])
    BY <2>4, <2>5, <2>6 DEF Good
  <2>8. \A v \in Workers : \A x \in transcripts'[v] : Good(v, x, whole[v], lived[v])
    BY <1>1, <2>3, <2>7
  <2> QED BY <1>2, <2>1, <2>8
<1>15. CASE ResetRecorder(w)
  <2>1. transcripts' = transcripts /\ lived' = lived /\ whole' = [v \in Workers |-> whole[v] /\ at[v] = "idle"]
    BY <1>15 DEF ResetRecorder
  <2>2. ASSUME NEW v \in Workers PROVE whole'[v] \in BOOLEAN /\ whole[v] \in BOOLEAN /\ (whole'[v] => whole[v])
    <3>1. whole[v] \in BOOLEAN
      BY <1>0
    <3>2. whole'[v] = (whole[v] /\ at[v] = "idle")
      BY Zenon, <2>1
    <3> QED BY <3>1, <3>2
  <2>3. \A v \in Workers : \A x \in transcripts[v] : Good(v, x, whole'[v], lived[v])
    BY <1>1, <1>3, <2>2
  <2> QED BY <1>2, <2>1, <2>3
<1> QED BY <1>7, <1>8, <1>9, <1>10, <1>11, <1>12, <1>13, <1>14, <1>15 DEF EvalStep

LEMMA TellInit ==
  ASSUME EvalInit
  PROVE  EvalInv /\ KeptInv /\ ScriptInv /\ ShownInv /\ TranscriptsTell
<1>1. PICK script \in Scripts : steps = [k \in DOMAIN script |-> [nth |-> k, kind |-> script[k]]]
  BY DEF EvalInit
<1>2. /\ recorder = NewEvalRecorder
      /\ at = [w \in Workers |-> "idle"] /\ answer = [w \in Workers |-> {}]
      /\ requestSeq = [w \in Workers |-> 0] /\ transcripts = [w \in Workers |-> {}]
      /\ lived = [w \in Workers |-> Nothing] /\ whole = [w \in Workers |-> TRUE]
  BY DEF EvalInit
<1>3. script \in Seq(Answers)
  BY ScriptsAssumption
<1>4. DOMAIN script = 1..Len(script) /\ Len(script) \in Nat /\ \A k \in DOMAIN script : script[k] \in Answers /\ k \in Nat /\ k > 0
  BY <1>3
<1>5. DOMAIN steps = DOMAIN script /\ \A k \in DOMAIN script : steps[k].nth = k /\ steps[k] \in EvalSteps
  BY <1>1, <1>4 DEF EvalSteps
<1>6. steps \in Seq(EvalSteps)
  <2>1. steps = [k \in 1..Len(script) |-> [nth |-> k, kind |-> script[k]]]
    BY <1>1, <1>4
  <2>2. steps \in [1..Len(script) -> EvalSteps]
    BY <1>4, <1>5, <2>1
  <2> QED BY <1>4, <2>2
<1>7. NewEvalRecorder \in Recorder /\ NewEvalRecorder.inputs = <<>> /\ NewEvalRecorder.events = <<>>
      /\ NewEvalRecorder.exchanges = <<>>
  BY DEF NewEvalRecorder, Recorder
<1>8. Nothing \in Lives
  BY DEF Nothing, Lives
<1>9. Asked(<<>>, requestSeq)
  BY DEF Asked
<1>10. EvalInv
  BY <1>2 DEF EvalInv, Stages
<1>11. KeptInv
  BY <1>2, <1>6, <1>7, <1>8, <1>9 DEF KeptInv, OneAtMost
<1>12. Script(steps, answer, <<>>)
  <2>1. DOMAIN <<>> = {} /\ \A w \in Workers : answer[w] = {}
    BY <1>2
  <2> QED BY <1>4, <1>5, <2>1 DEF Script
<1> QED BY <1>2, <1>7, <1>10, <1>11, <1>12 DEF ScriptInv, ShownInv, TranscriptsTell

TellInv == EvalInv /\ KeptInv /\ ScriptInv /\ ShownInv /\ TranscriptsTell

LEMMA TellUnchanged ==
  ASSUME TellInv, UNCHANGED evalVars
  PROVE  TellInv'
<1>1. UNCHANGED <<steps, recorder, at, answer, requestSeq, transcripts, lived, whole>>
  BY DEF evalVars
<1>2. EvalInv' /\ KeptInv' /\ ScriptInv'
  BY <1>1 DEF TellInv, EvalInv, KeptInv, ScriptInv
<1>3. \A w \in Workers : ShownOf(w)' <=> ShownOf(w)
  <2>1. \A w : RequestID(w)' = RequestID(w)
    BY <1>1 DEF RequestID
  <2> QED BY <1>1, <2>1 DEF ShownOf
<1>4. ShownInv'
  BY <1>1, <1>3 DEF TellInv, ShownInv
<1>5. TranscriptsTell'
  BY <1>1 DEF TellInv, TranscriptsTell
<1> QED BY <1>2, <1>4, <1>5 DEF TellInv

\* A transcript is as good as the assertions on it need it, whatever agents share
\* the script and the recorder, and however long the script is (Generate,
\* eval.go:63-94; recordModelExchange, 379-394; Transcript, 333-356, with
\* transcriptToolCalls, 869-903).
THEOREM AssertionsHold == Spec => []TranscriptsTell
<1>1. Init => TellInv
  BY TellInit DEF Init, TellInv
<1>2. TellInv /\ [Next]_vars => TellInv'
  <2>1. ASSUME TellInv, NEW w \in Workers, EvalStep(w) PROVE TellInv'
    BY <2>1, EvalInvStep, KeptStep, ScriptStep, ShownStep, TellStep DEF TellInv
  <2> QED BY <2>1, TellUnchanged, EvalCases
<1>3. TellInv => TranscriptsTell
  BY DEF TellInv
<1> QED BY <1>1, <1>2, <1>3, PTL DEF Spec
=============================================================================
