---------------------------- MODULE SessionStore ----------------------------
(***************************************************************************)
(* MemorySessionStore (session_persistence.go): records with optimistic    *)
(* versions and an event log for each session, used by the goroutines of   *)
(* an application, each with an agent whose conversation it restores from  *)
(* a record and snapshots into one (session.go).                           *)
(*                                                                         *)
(* An operation of the store is one critical section of its mutex.  What   *)
(* lies between them is the application's: a record that was loaded is old *)
(* when it is saved.                                                       *)
(*                                                                         *)
(* Abstractions: a turn of a conversation is its author; a record keeps of *)
(* its times when it was created, by its maker's clock or by the store's;  *)
(* metadata is left out; a blank ID, a missing record, a done context and  *)
(* an invalid role are refused like an unsupported schema, without effect. *)
(***************************************************************************)
EXTENDS Turns, Sequences

CONSTANTS
  Sessions,      \* session IDs
  EventIDs,      \* IDs that callers choose for events
  Unset          \* "no ID", for the store to generate one

CurrentSessionSchemaVersion == 1

VARIABLES
  sessions,      \* MemorySessionStore.sessions
  events,        \* MemorySessionStore.events
  conversation,  \* a.messages of the agent of each worker
  base,          \* {} or {the record it loaded or saved last}
  draft,         \* {} or {the record it is about to save}
  followed,      \* the events it has listed so far
  deleted        \* history: sessions that have been deleted

storeVars == <<sessions, events, conversation, base, draft, followed, deleted>>

StoreClock == MaxTurns + 1

StoreInit ==
  /\ sessions = << >> /\ events = << >>
  /\ conversation = [w \in Workers |-> <<>>]
  /\ base = [w \in Workers |-> {}] /\ draft = [w \in Workers |-> {}]
  /\ followed = [w \in Workers |-> [s \in Sessions |-> <<>>]]
  /\ deleted = {}

----------------------------------------------------------------------------
(* The agent of a worker.                                                  *)

Converse(w) ==
  /\ Turn
  /\ conversation' = [conversation EXCEPT ![w] = Append(@, w)]
  /\ UNCHANGED <<sessions, events, base, draft, followed, deleted>>

Reset(w) ==
  /\ conversation[w] # <<>> /\ Turn
  /\ conversation' = [conversation EXCEPT ![w] = <<>>]
  /\ UNCHANGED <<sessions, events, base, draft, followed, deleted>>

Restore(w) ==
  /\ Turn
  /\ \E record \in base[w] : conversation' = [conversation EXCEPT ![w] = record.snapshot]
  /\ UNCHANGED <<sessions, events, base, draft, followed, deleted>>

----------------------------------------------------------------------------
(* Records.                                                                *)

Record(s, schema, version, snapshot, created) ==
  [session |-> s, schema |-> schema, version |-> version, snapshot |-> snapshot,
   created |-> created]

NewSessionRecord(w, s) == Record(s, CurrentSessionSchemaVersion, 1, conversation[w], Now)

\* A record built by hand: no version, no creation time, any schema.
BareRecords(w, s) == {Record(s, schema, 0, conversation[w], 0) : schema \in {0, 2}}

\* The record read before, with a new snapshot.
Revised(w) == {[record EXCEPT !.snapshot = conversation[w]] : record \in base[w]}

Drafts(w) == Revised(w) \cup UNION {{NewSessionRecord(w, s)} \cup BareRecords(w, s) : s \in Sessions}

\* Snapshot, and the record that will carry it.
Prepare(w) ==
  /\ Turn
  /\ \E record \in Drafts(w) : draft' = [draft EXCEPT ![w] = {record}]
  /\ UNCHANGED <<sessions, events, conversation, base, followed, deleted>>

\* normalizeSessionSchemaVersion and validateSessionSchemaVersion.
Normalized(schema) == IF schema = 0 THEN CurrentSessionSchemaVersion ELSE schema
Supported(record) == Normalized(record.schema) = CurrentSessionSchemaVersion

Stored(s) == s \in DOMAIN sessions

\* Mutant: the version is not compared.
AcceptsAnyVersion(record) == TRUE

\* A version that is given must be that of the stored record.
Accepts(record) ==
  Stored(record.session) /\ record.version # 0 => record.version = sessions[record.session].version

\* What SaveSession stores.
Result(record) ==
  LET s == record.session
  IN [record EXCEPT
        !.schema  = Normalized(@),
        !.version = IF Stored(s) THEN sessions[s].version + 1 ELSE IF @ = 0 THEN 1 ELSE @,
        !.created = IF Stored(s) THEN sessions[s].created ELSE IF @ = 0 THEN StoreClock ELSE @]

\* Mutant: the schema is stored as it came.
SaveAsIs(w) ==
  /\ \E record \in draft[w] :
       IF Accepts(record)
         THEN /\ sessions' = With(sessions, record.session,
                                [Result(record) EXCEPT !.schema = record.schema])
              /\ base' = [base EXCEPT ![w] = {Result(record)}]
         ELSE UNCHANGED <<sessions, base>>
  /\ draft' = [draft EXCEPT ![w] = {}]
  /\ UNCHANGED <<events, conversation, followed, deleted, turns>>

SaveSession(w) ==
  /\ \E record \in draft[w] :
       IF Supported(record) /\ Accepts(record)
         THEN /\ sessions' = With(sessions, record.session, Result(record))
              /\ base' = [base EXCEPT ![w] = {Result(record)}]
         ELSE UNCHANGED <<sessions, base>>
  /\ draft' = [draft EXCEPT ![w] = {}]
  /\ UNCHANGED <<events, conversation, followed, deleted, turns>>

LoadSession(w, s) ==
  /\ Stored(s) /\ Supported(sessions[s]) /\ Turn
  /\ base' = [base EXCEPT ![w] = {sessions[s]}]
  /\ UNCHANGED <<sessions, events, conversation, draft, followed, deleted>>

Without(f, s) == [t \in DOMAIN f \ {s} |-> f[t]]

\* The record and its log; a log without a record is out of reach.
DeleteSession(s) ==
  /\ Stored(s) /\ Turn
  /\ sessions' = Without(sessions, s)
  /\ events' = Without(events, s)
  /\ deleted' = deleted \cup {s}
  /\ UNCHANGED <<conversation, base, draft, followed>>

----------------------------------------------------------------------------
(* Events.                                                                 *)

Log(s) == IF s \in DOMAIN events THEN events[s] ELSE <<>>

\* fmt.Sprintf("%s:%d", sessionID, sequence)
Generated(s, n) == <<s, n>>

Cursor(w, s) ==
  IF followed[w][s] = <<>> THEN 0 ELSE followed[w][s][Len(followed[w][s])].sequence

\* Mutant: the sequence a caller gives is taken as it is.
AppendUnchecked(w, s, id, sequence) ==
  LET n     == IF sequence = 0 THEN Len(Log(s)) + 1 ELSE sequence
      event == [id |-> IF id = Unset THEN Generated(s, n) ELSE id, sequence |-> n]
  IN /\ \A i \in DOMAIN Log(s) : Log(s)[i].id # event.id
     /\ Turn
     /\ events' = With(events, s, Append(Log(s), event))
     /\ UNCHANGED <<sessions, conversation, base, draft, followed, deleted>>

\* The next sequence, given or not, and an ID of its own, given or not; any
\* other event is a conflict and leaves no trace.  The session need not exist.
AppendSessionEvent(w, s, id, sequence) ==
  LET n     == Len(Log(s)) + 1
      event == [id |-> IF id = Unset THEN Generated(s, n) ELSE id, sequence |-> n]
  IN /\ sequence \in {0, n}
     /\ \A i \in DOMAIN Log(s) : Log(s)[i].id # event.id
     /\ Turn
     /\ events' = With(events, s, Append(Log(s), event))
     /\ UNCHANGED <<sessions, conversation, base, draft, followed, deleted>>

\* The events of a log with a sequence above n, in the order of the log.
After(log, n) == Picked(log, {i \in DOMAIN log : log[i].sequence > n})

\* The events after the last one this worker has seen.
ListSessionEvents(w, s) ==
  LET new == After(Log(s), Cursor(w, s))
  IN /\ new # <<>>
     /\ followed' = [followed EXCEPT ![w][s] = @ \o new]
     /\ UNCHANGED <<sessions, events, conversation, base, draft, deleted, turns>>

\* ReplaySessionEvents accepts a list (eval.go); each sequence is compared with
\* the one before it, and an event without a sequence passes.
InReplayOrder(list) ==
  \A i \in DOMAIN list : list[i].sequence # 0 =>
    list[i].sequence > IF i = 1 THEN 0 ELSE list[i - 1].sequence

----------------------------------------------------------------------------
\* A worker with a record in hand saves it before it does anything else.
StoreStep(w) ==
  \/ SaveSession(w)
  \/ /\ draft[w] = {}
     /\ \/ Converse(w) \/ Reset(w) \/ Restore(w) \/ Prepare(w)
        \/ \E s \in Sessions :
             \/ LoadSession(w, s) \/ DeleteSession(s) \/ ListSessionEvents(w, s)
             \/ \E id \in EventIDs \cup {Unset}, sequence \in {0, Cursor(w, s) + 1} :
                  AppendSessionEvent(w, s, id, sequence)

----------------------------------------------------------------------------
Records  == [session: Sessions, schema: 0..2, version: Nat, snapshot: Seq(Workers),
             created: 0..StoreClock]
Loadable == {record \in Records : /\ record.schema = CurrentSessionSchemaVersion
                                  /\ record.version > 0 /\ record.created > 0}
Event(s) == [id: EventIDs \cup {Generated(s, n) : n \in 1..MaxTurns},
             sequence: 1..MaxTurns]

StoreTypeOK ==
  /\ DOMAIN sessions \subseteq Sessions /\ \A s \in DOMAIN sessions : sessions[s] \in Loadable
  /\ DOMAIN events \subseteq Sessions /\ \A s \in DOMAIN events : events[s] \in Seq(Event(s))
  /\ conversation \in [Workers -> Seq(Workers)]
  /\ \A w \in Workers : /\ base[w] \subseteq Loadable /\ Cardinality(base[w]) <= 1
                        /\ draft[w] \subseteq Records /\ Cardinality(draft[w]) <= 1
                        /\ \A s \in Sessions : followed[w][s] \in Seq(Event(s))

\* "`version` for optimistic save/update flows" (docs/sdk/en/sessions.md): a
\* save that carries the version of a record its worker has read replaces that
\* very record, and nothing another worker has stored since.  The version 1 of
\* NewSessionRecord does not count, which was read by nobody, and neither does a
\* session that was deleted: it may come back with a version it had before.
UpdateFollowsRead ==
  [][\A w \in Workers : \A record \in draft[w] :
       LET s == record.session
       IN /\ Stored(s) /\ s \notin deleted /\ draft'[w] = {} /\ sessions' # sessions
          /\ record.version # 0 /\ record.created = sessions[s].created
          => base[w] = {sessions[s]}]_storeVars

\* "Events have stable IDs, monotonic sequences" (docs/sdk/en/sessions.md): a
\* worker that asks for the events after the last one it knows gets each event
\* once and in order, whatever others append in between, so that it can replay
\* what it has seen, and an ID names one event.  (After a deletion the cursor of a
\* reader means nothing.)
FollowersSeeLog ==
  \A s \in Sessions :
    /\ \A i, j \in DOMAIN Log(s) : Log(s)[i].id = Log(s)[j].id => i = j
    /\ s \notin deleted => \A w \in Workers :
         LET seen == followed[w][s]
         IN /\ Len(seen) <= Len(Log(s)) /\ seen = SubSeq(Log(s), 1, Len(seen))
            /\ InReplayOrder(seen)
=============================================================================
