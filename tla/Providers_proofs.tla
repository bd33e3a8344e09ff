-------------------------- MODULE Providers_proofs --------------------------
(***************************************************************************)
(* The contract of a provider's stream, and the pairing of the calls and    *)
(* results in the requests of a conversation, for any number of tool calls, *)
(* any text and any conversation.                                           *)
(***************************************************************************)
EXTENDS Providers, GoData_proofs

----------------------------------------------------------------------------
(* The inductive invariant.                                                *)

Labels == Seq(Nat \X Nat \X Nat)
ArgTexts == {NoArguments, <<1>>, Arguments}

Tellings == [label : Labels, args : ArgTexts, named : BOOLEAN, stopped : BOOLEAN]
Assemblies == [label : Labels, args : ArgTexts, input : {NoArguments, Arguments}]

\* The events of an answer: of its text, and of the boundaries of its calls.
Talk == [type : {"delta"}, text : Nat] \cup {ThinkingEvent}
Notes == [type : {"call started", "call done"}, index : Calls, label : Labels]
Terminal(e) == e.type \in {"done", "error"}

Listed(events) == events \in Seq(Range(events))

SaidOK(s) == /\ s \in [text : Seq(Nat), thought : BOOLEAN, calls : Seq(Tellings), finished : BOOLEAN]
             /\ Len(s.calls) <= MaxCalls

HeardOK(h) ==
  /\ h \in [text : Seq(Nat), final : Seq(Nat), thought : BOOLEAN, calls : {h.calls}, order : Seq(Keys),
            named : SUBSET Calls, started : SUBSET Keys, done : SUBSET Keys, boundary : Seq(Notes)]
  /\ h.calls \in [DOMAIN h.calls -> Assemblies]

\* The handler has the text of the answer.
TextHeard(s, h) ==
  /\ h.text = s.text
  /\ h.final = <<>> \/ (s.finished /\ h.final = s.text)

\* The key of a call, by the identity it was opened with.
KeyOf(s, i) == <<i, IF s.calls[i].named THEN "item" ELSE "index">>

\* What is told of a call i, and what is assembled of it.
Agree(r, f, i, told, call) ==
  /\ call.label = told.label
  /\ IF f = "chat" THEN \E k \in 0..2 : told.label = SubSeq(Label(r, i), 1, k) ELSE told.label = Label(r, i)
  /\ told.named => f = "responses"
  /\ IF f = "anthropic"
     THEN \/ call.input = NoArguments /\ call.args = told.args
          \/ call.input = Arguments /\ call.args = NoArguments /\ told.args = Arguments
     ELSE call.args = told.args

\* The handler has the calls of the answer, in their order.
CallsHeard(r, f, s, h) ==
  /\ h.named = {i \in DOMAIN s.calls : s.calls[i].named}
  /\ DOMAIN h.calls = {KeyOf(s, i) : i \in DOMAIN s.calls}
  /\ f # "anthropic" => h.order = [i \in DOMAIN s.calls |-> KeyOf(s, i)]
  /\ \A i \in DOMAIN s.calls : Agree(r, f, i, s.calls[i], h.calls[KeyOf(s, i)])

IsStart(e, i) == e.type = "call started" /\ e.index = i
IsDone(e, i) == e.type = "call done" /\ e.index = i

\* The boundaries b hold the start of call i once and, if it is finished, its end once,
\* behind the start.
Noted(b, i, finished) ==
  \E m \in DOMAIN b :
    /\ IsStart(b[m], i) /\ \A k \in DOMAIN b : IsStart(b[k], i) => k = m
    /\ IF finished THEN \E n \in DOMAIN b : m < n /\ IsDone(b[n], i) /\ \A k \in DOMAIN b : IsDone(b[k], i) => k = n
       ELSE \A k \in DOMAIN b : ~IsDone(b[k], i)

Unnoted(b, i) == \A k \in DOMAIN b : b[k].index # i

Finished(f, s, h, i) == IF f = "anthropic" THEN s.calls[i].stopped ELSE KeyOf(s, i) \in h.done

\* The handler has noted the boundaries of the calls.
BoundariesNoted(r, f, s, h) ==
  /\ f # "anthropic" => h.started = DOMAIN h.calls /\ h.done \subseteq DOMAIN h.calls
  /\ \A i \in DOMAIN s.calls : Noted(h.boundary, i, Finished(f, s, h, i))
  /\ \A i \in Calls \ DOMAIN s.calls : Unnoted(h.boundary, i)
  /\ f # "chat" => \A k \in DOMAIN h.boundary : h.boundary[k].label = Label(r, h.boundary[k].index)

Hears(r, f, s, h) ==
  SaidOK(s) /\ HeardOK(h) /\ TextHeard(s, h) /\ CallsHeard(r, f, s, h) /\ BoundariesNoted(r, f, s, h)

\* Texts and thinking, before the calls of an answer.
Fronts == Seq({Text, Thinking})

\* The items of an answer as it came name its calls, after texts and thinking; those of
\* a Responses answer may name none.
RawTells(raw, calls) ==
  \/ raw = NoRaw
  \/ /\ raw.format \in {"responses", "anthropic"}
     /\ \E front \in Fronts : raw.items = front \o Uses(calls)
  \/ raw.format = "responses" /\ raw.items \in Fronts

Sound(m) == m.role = "assistant" /\ RawTells(m.raw, m.calls)

Counted(calls) == \E k \in Nat : DOMAIN calls = 1..k

\* The events up to done tell the whole answer, and so do its items.
Tells(events, m) == Whole(events, m) /\ Sound(m) /\ Counted(m.calls)

\* The events of a stream, received or to be sent.
Flow == delivered \o outbox

\* What has been sent of an answer that goes on.
Talking(events, s) == events \in Seq(Talk) /\ DeltaText(events) = s.text

StreamInv ==
  /\ round \in Nat /\ format \in Formats /\ phase \in {"idle", "reading", "closed"}
  /\ cancelled \in BOOLEAN /\ timedOut \in BOOLEAN
  /\ Listed(delivered) /\ Listed(outbox)
  /\ \A n \in DOMAIN Flow : Terminal(Flow[n]) => n = Len(Flow)
  /\ \A n \in DOMAIN Flow : Flow[n].type = "done" => Tells(Flow, Flow[n].message)
  /\ phase = "idle" => delivered = <<>> /\ outbox = <<>>
  /\ phase = "closed" => outbox = <<>> /\ (cancelled \/ timedOut \/ \E n \in DOMAIN delivered : Terminal(delivered[n]))
  /\ phase = "reading" =>
       /\ \A n \in DOMAIN delivered : ~Terminal(delivered[n])
       /\ (\A n \in DOMAIN outbox : ~Terminal(outbox[n])) =>
            Talking(Flow, said) /\ Hears(round, format, said, heard)

----------------------------------------------------------------------------
(* Labels.                                                                 *)

\* A fragment that goes on from where a value ended, or that repeats it from its
\* beginning, makes one longer value.
LEMMA Assembles ==
  ASSUME NEW S, NEW L \in Seq(S), Len(L) = 2, L[1] # L[2], NEW k \in 0..2, NEW m \in k..2, NEW from \in {1, k + 1}
  PROVE  AppendStreamValue(SubSeq(L, 1, k), SubSeq(L, from, m)) = SubSeq(L, 1, m)
<1> DEFINE old == SubSeq(L, 1, k)
           new == SubSeq(L, from, m)
           all == SubSeq(L, 1, m)
<1>1. /\ old \in Seq(S) /\ Len(old) = k /\ \A n \in 1..k : old[n] = L[n]
      /\ new \in Seq(S) /\ Len(new) = (IF from <= m THEN m - from + 1 ELSE 0) /\ \A n \in 1..(m - from + 1) : new[n] = L[from + n - 1]
      /\ all \in Seq(S) /\ Len(all) = m /\ \A n \in 1..m : all[n] = L[n]
  <2>1. old \in Seq(S) /\ Len(old) = k /\ \A n \in 1..k : old[n] = L[n]
    OBVIOUS
  <2>2. all \in Seq(S) /\ Len(all) = m /\ \A n \in 1..m : all[n] = L[n]
    BY SMTT(30)
  <2>3. new \in Seq(S) /\ Len(new) = (IF from <= m THEN m - from + 1 ELSE 0) /\ \A n \in 1..(m - from + 1) : new[n] = L[from + n - 1]
    <3>1. from \in 1..Len(L) + 1 /\ m \in (from - 1)..Len(L)
      OBVIOUS
    <3> QED BY <3>1, SubSeqProperties
  <2> QED BY <2>1, <2>2, <2>3
<1> HIDE DEF old, new, all
<1>2. CASE from = 1
  <2>1. new = all
    BY <1>2 DEF new, all
  <2>2. Len(old) <= Len(new) /\ SubSeq(old, 1, Len(old)) = SubSeq(new, 1, Len(old))
    <3>1. SubSeq(old, 1, Len(old)) = old
      BY <1>1
    <3>2. SubSeq(new, 1, k) \in Seq(S) /\ Len(SubSeq(new, 1, k)) = k /\ \A n \in 1..k : SubSeq(new, 1, k)[n] = L[n]
      <4>1. new \in Seq(S) /\ Len(new) = m /\ \A n \in 1..m : new[n] = L[n]
        BY <1>1, <2>1
      <4>2. k \in Nat /\ k <= m
        OBVIOUS
      <4> HIDE DEF new
      <4> QED BY <4>1, <4>2
    <3>3. \A n \in 1..k : SubSeq(new, 1, k)[n] = old[n]
      BY <1>1, <3>2
    <3>4. SubSeq(new, 1, k) = old
      BY <1>1, <3>2, <3>3, SeqEqual
    <3>5. Len(old) = k /\ Len(new) = m /\ k <= m
      BY <1>1, <1>2
    <3> QED BY <3>1, <3>4, <3>5
  <2> QED BY <2>1, <2>2 DEF AppendStreamValue, IsPrefix, old, new, all
<1>3. CASE from = k + 1 /\ k > 0 /\ m = k
  <2>1. ~(Len(old) <= Len(new)) /\ Len(new) = 0
    BY <1>1, <1>3
  <2>2. SubSeq(new, 1, Len(new)) = SubSeq(old, 1, Len(new))
    BY <1>1, <2>1
  <2>3. old = all
    BY <1>3 DEF old, all
  <2> QED BY <1>1, <2>1, <2>2, <2>3 DEF AppendStreamValue, IsPrefix, old, new, all
<1>4. CASE from = k + 1 /\ k > 0 /\ m # k
  <2>1. k = 1 /\ m = 2 /\ Len(old) = 1 /\ Len(new) = 1 /\ old[1] = L[1] /\ new[1] = L[2]
    BY <1>1, <1>4
  <2>2. SubSeq(old, 1, 1)[1] = L[1] /\ SubSeq(new, 1, 1)[1] = L[2]
    BY <1>1, <2>1
  <2>3. ~IsPrefix(old, new) /\ ~IsPrefix(new, old)
    BY <2>1, <2>2 DEF IsPrefix
  <2>4. old \o new \in Seq(S) /\ Len(old \o new) = 2 /\ (old \o new)[1] = L[1] /\ (old \o new)[2] = L[2]
    BY <1>1, <2>1
  <2>5. old \o new = all
    <3>1. Len(all) = 2 /\ all[1] = L[1] /\ all[2] = L[2] /\ all \in Seq(S)
      BY <1>1, <2>1
    <3>2. \A n \in 1..2 : n = 1 \/ n = 2
      OBVIOUS
    <3>3. \A n \in 1..2 : (old \o new)[n] = all[n]
      BY <2>4, <3>1, <3>2
    <3> HIDE DEF old, new
    <3> QED BY <2>4, <3>1, <3>3, SeqEqual
  <2> QED BY <2>3, <2>5 DEF AppendStreamValue, old, new, all
<1> QED BY <1>2, <1>3, <1>4

LEMMA LabelIs ==
  ASSUME NEW r \in Nat, NEW i \in Calls
  PROVE  /\ Label(r, i) \in Labels /\ Len(Label(r, i)) = 2 /\ Label(r, i)[1] # Label(r, i)[2]
         /\ \A k \in 0..2 : /\ SubSeq(Label(r, i), 1, k) \in Labels /\ Len(SubSeq(Label(r, i), 1, k)) = k
                            /\ k = 2 => SubSeq(Label(r, i), 1, k) = Label(r, i)
<1> DEFINE P == Nat \X Nat \X Nat
           L == Label(r, i)
<1>1. i \in Nat
  BY ProviderStreamsAssumption DEF Calls
<1>2. L = [n \in 1..2 |-> <<r, i, n>>]
  BY DEF Label
<1>3. L \in [1..2 -> P]
  BY <1>1, <1>2
<1>4. L \in Seq(P) /\ Len(L) = 2
  <2> DEFINE two == 2
  <2>1. two \in Nat /\ L \in [1..two -> P]
    BY <1>3
  <2> HIDE DEF two, L, P
  <2>2. L \in Seq(P) /\ Len(L) = two
    BY <2>1
  <2> QED BY <2>2 DEF two
<1>5. L[1] # L[2]
  BY <1>2
<1> HIDE DEF L, P
<1>6. ASSUME NEW k \in 0..2 PROVE SubSeq(L, 1, k) \in Seq(P) /\ Len(SubSeq(L, 1, k)) = k /\ (k = 2 => SubSeq(L, 1, k) = L)
  BY SMTT(30), <1>4
<1> QED BY <1>4, <1>5, <1>6 DEF L, P, Labels

----------------------------------------------------------------------------
(* Sequences of events.                                                    *)

LEMMA ListedIn ==
  ASSUME NEW s, Listed(s), NEW S, Range(s) \subseteq S
  PROVE  s \in Seq(S)
<1>1. s \in Seq(Range(s))
  BY DEF Listed
<1>2. Len(s) \in Nat /\ s \in [1..Len(s) -> Range(s)]
  BY <1>1
<1>3. s \in [1..Len(s) -> S]
  BY <1>2
<1> QED BY <1>2, <1>3

LEMMA InListed ==
  ASSUME NEW S, NEW s \in Seq(S)
  PROVE  Listed(s) /\ Range(s) \subseteq S
<1>1. Len(s) \in Nat /\ s \in [1..Len(s) -> S] /\ DOMAIN s = 1..Len(s)
  OBVIOUS
<1>2. Range(s) \subseteq S /\ s \in [1..Len(s) -> Range(s)]
  BY <1>1 DEF Range
<1> QED BY <1>1, <1>2 DEF Listed

\* A concatenation, place by place.
LEMMA Joined ==
  ASSUME NEW s, NEW t, Listed(s), Listed(t)
  PROVE  /\ Listed(s \o t) /\ Len(s \o t) = Len(s) + Len(t) /\ Len(s) \in Nat /\ Len(t) \in Nat
         /\ DOMAIN s = 1..Len(s) /\ DOMAIN t = 1..Len(t) /\ DOMAIN (s \o t) = 1..(Len(s) + Len(t))
         /\ \A n \in DOMAIN s : (s \o t)[n] = s[n]
         /\ \A n \in DOMAIN (s \o t) : n \in DOMAIN s \/ \E k \in DOMAIN t : n = Len(s) + k
<1> DEFINE S == Range(s) \cup Range(t)
<1>1. s \in Seq(S) /\ t \in Seq(S)
  BY ListedIn
<1> HIDE DEF S
<1>2. s \o t \in Seq(S)
  BY <1>1
<1>3. Listed(s \o t)
  BY <1>2, InListed
<1>4. /\ Len(s \o t) = Len(s) + Len(t) /\ Len(s) \in Nat /\ Len(t) \in Nat
      /\ DOMAIN s = 1..Len(s) /\ DOMAIN t = 1..Len(t) /\ DOMAIN (s \o t) = 1..(Len(s) + Len(t))
      /\ \A n \in DOMAIN s : (s \o t)[n] = s[n]
  BY <1>1
<1>6. ASSUME NEW n \in DOMAIN (s \o t), n \notin DOMAIN s PROVE \E k \in DOMAIN t : n = Len(s) + k
  <2>1. n - Len(s) \in DOMAIN t /\ n = Len(s) + (n - Len(s))
    BY <1>4, <1>6
  <2> QED BY <2>1
<1> QED BY <1>3, <1>4, <1>6

LEMMA Behind ==
  ASSUME NEW s, NEW t, Listed(s), Listed(t), NEW n \in DOMAIN t, NEW m, m = Len(s) + n
  PROVE  m \in DOMAIN (s \o t) /\ (s \o t)[m] = t[n]
<1> DEFINE S == Range(s) \cup Range(t)
<1>1. s \in Seq(S) /\ t \in Seq(S)
  BY ListedIn
<1> HIDE DEF S
<1>2. Len(s) \in Nat /\ Len(t) \in Nat /\ n \in 1..Len(t) /\ DOMAIN (s \o t) = 1..(Len(s) + Len(t))
  BY <1>1
<1>3. m \in 1..(Len(s) + Len(t)) /\ m > Len(s) /\ m - Len(s) = n
  BY <1>2
<1>4. (s \o t)[m] = IF m <= Len(s) THEN s[m] ELSE t[m - Len(s)]
  BY <1>1, <1>3, ConcatProperties
<1> QED BY <1>2, <1>3, <1>4

\* Sending an event leaves the flow as it is.
LEMMA SendKeepsFlow ==
  ASSUME NEW s, NEW t, Listed(s), Listed(t), t # <<>>
  PROVE  /\ Append(s, Head(t)) \o Tail(t) = s \o t
         /\ Listed(Append(s, Head(t))) /\ Listed(Tail(t)) /\ Len(Append(s, Head(t))) = Len(s) + 1
         /\ \A n \in DOMAIN s : Append(s, Head(t))[n] = s[n]
         /\ Append(s, Head(t))[Len(s) + 1] = Head(t) /\ Len(Tail(t)) = Len(t) - 1 /\ Head(t) = t[1]
         /\ \A n \in DOMAIN Tail(t) : n + 1 \in DOMAIN t /\ Tail(t)[n] = t[n + 1]
<1> DEFINE S == Range(s) \cup Range(t)
           u == Append(s, Head(t))
           v == Tail(t)
<1>1. s \in Seq(S) /\ t \in Seq(S)
  BY ListedIn
<1> HIDE DEF S
<1>2. Head(t) = t[1] /\ Head(t) \in S /\ v \in Seq(S) /\ Len(v) = Len(t) - 1 /\ Len(t) \in Nat /\ Len(t) >= 1 /\ \A n \in 1..Len(v) : v[n] = t[n + 1]
  BY <1>1
<1>3. u \in Seq(S) /\ Len(u) = Len(s) + 1 /\ Len(s) \in Nat /\ u[Len(s) + 1] = Head(t) /\ \A n \in 1..Len(s) : u[n] = s[n]
  BY <1>1, <1>2
<1>4. Listed(u) /\ Listed(v)
  BY <1>2, <1>3, InListed
<1>5. \A n \in DOMAIN v : n + 1 \in DOMAIN t /\ v[n] = t[n + 1]
  BY <1>1, <1>2
<1> HIDE DEF u, v
<1>6. u \o v \in Seq(S) /\ s \o t \in Seq(S) /\ Len(u \o v) = Len(s) + Len(t) /\ Len(s \o t) = Len(s) + Len(t)
  <2>1. u \o v \in Seq(S) /\ Len(u \o v) = Len(u) + Len(v)
    <3>1. u \in Seq(S) /\ v \in Seq(S)
      BY <1>2, <1>3
    <3> QED BY <3>1
  <2>2. s \o t \in Seq(S) /\ Len(s \o t) = Len(s) + Len(t)
    BY <1>1
  <2> QED BY <1>2, <1>3, <2>1, <2>2
<1>7. ASSUME NEW n \in 1..Len(u \o v) PROVE (u \o v)[n] = (s \o t)[n]
  <2> n \in Nat
    OBVIOUS
  <2>1. CASE n \in 1..Len(s)
    BY <1>1, <1>2, <1>3, <2>1
  <2>2. CASE n = Len(s) + 1
    BY <1>1, <1>2, <1>3, <2>2
  <2>3. ASSUME NEW k \in DOMAIN v, n = Len(u) + k PROVE (u \o v)[n] = (s \o t)[n]
    <3>1. (u \o v)[n] = v[k]
      BY <1>4, <2>3, Behind
    <3> DEFINE j == k + 1
    <3>2. v[k] = t[j] /\ j \in DOMAIN t
      BY <1>5, <2>3
    <3>3. n = Len(s) + j
      <4>1. k \in 1..Len(v)
        BY <1>2, <2>3
      <4>2. k \in Int /\ Len(s) \in Int /\ Len(u) = Len(s) + 1
        BY <1>3, <4>1
      <4> HIDE DEF u
      <4> QED BY <2>3, <4>2
    <3> HIDE DEF j
    <3>4. (s \o t)[n] = t[j]
      BY <3>2, <3>3, Behind
    <3> QED BY <3>1, <3>2, <3>4
  <2>4. n \in DOMAIN u \/ \E k \in DOMAIN v : n = Len(u) + k
    <3>1. n \in DOMAIN (u \o v)
      BY <1>6
    <3> QED BY ZenonT(30), <1>4, <3>1, Joined
  <2>5. n \in DOMAIN u => n \in 1..Len(s) \/ n = Len(s) + 1
    BY <1>3
  <2> QED BY <2>1, <2>2, <2>3, <2>4, <2>5
<1>8. u \o v = s \o t
  BY <1>6, <1>7, SeqEqual
<1> QED BY <1>1, <1>2, <1>3, <1>4, <1>5, <1>8 DEF u, v

----------------------------------------------------------------------------
(* The text of the deltas.                                                 *)

Deltas(events) == {n \in DOMAIN events : events[n].type = "delta"}

LEMMA TextIs ==
  ASSUME NEW events, Listed(events)
  PROVE  /\ Deltas(events) \subseteq DOMAIN events
         /\ Picked(events, Deltas(events)) \in Seq(Range(events))
         /\ DeltaText(events) = [n \in DOMAIN Picked(events, Deltas(events)) |-> Picked(events, Deltas(events))[n].text]
<1>1. events \in Seq(Range(events)) /\ Deltas(events) \subseteq DOMAIN events
  BY DEF Listed, Deltas
<1>2. Picked(events, Deltas(events)) \in Seq(Range(events))
  BY <1>1, PickedIs
<1> QED BY <1>1, <1>2 DEF DeltaText, Deltas

\* Nothing has been said in no events.
LEMMA NoText == DeltaText(<<>>) = <<>>
<1>1. <<>> \in Seq(Nat) /\ Deltas(<<>>) = {} /\ DOMAIN <<>> = {}
  BY DEF Deltas
<1>2. Listed(<<>>)
  BY <1>1, InListed
<1> DEFINE p == Picked(<<>>, {})
           d == [n \in DOMAIN p |-> p[n].text]
<1>3. Len(p) = 0 /\ p \in Seq(Nat)
  BY <1>1, PickedIs, FS_EmptySet
<1>4. DeltaText(<<>>) = d
  BY <1>1, <1>2, TextIs
<1> HIDE DEF p
<1>5. DOMAIN p = 1..0
  BY <1>3
<1>6. d \in Seq(Nat) /\ Len(d) = 0
  BY <1>5
<1> HIDE DEF d
<1>7. d = <<>>
  BY <1>6
<1> QED BY <1>4, <1>7

\* What follows that is no delta adds no text.
LEMMA SameText ==
  ASSUME NEW s, NEW t, Listed(s), Listed(t), \A n \in DOMAIN t : t[n].type # "delta"
  PROVE  DeltaText(s \o t) = DeltaText(s)
<1> DEFINE S == Range(s) \cup Range(t)
<1>1. s \in Seq(S) /\ t \in Seq(S)
  BY ListedIn
<1> HIDE DEF S
<1>2. Deltas(s \o t) = Deltas(s)
  <2>1. ASSUME NEW n \in Deltas(s \o t) PROVE n \in Deltas(s)
    <3>1. n \in DOMAIN (s \o t) /\ (s \o t)[n].type = "delta"
      BY <2>1 DEF Deltas
    <3>2. ASSUME NEW k \in DOMAIN t, n = Len(s) + k PROVE FALSE
      BY <3>1, <3>2, Behind
    <3>3. n \in DOMAIN s
      BY <3>1, <3>2, Joined
    <3> QED BY <3>1, <3>3, Joined DEF Deltas
  <2>2. ASSUME NEW n \in Deltas(s) PROVE n \in Deltas(s \o t)
    <3>1. n \in DOMAIN s /\ s[n].type = "delta"
      BY <2>2 DEF Deltas
    <3>2. n \in DOMAIN (s \o t) /\ (s \o t)[n] = s[n]
      BY <1>1, <3>1
    <3> QED BY <3>1, <3>2 DEF Deltas
  <2> QED BY <2>1, <2>2
<1>3. Deltas(s) \subseteq DOMAIN s /\ Listed(s \o t)
  BY Joined DEF Deltas
<1>4. Picked(s \o t, Deltas(s \o t)) = Picked(s, Deltas(s))
  BY <1>1, <1>2, <1>3, PickedConcat
<1> QED BY <1>3, <1>4, TextIs

\* A delta adds its text.
LEMMA MoreTextSent ==
  ASSUME NEW s \in Seq(Talk), NEW token \in Nat
  PROVE  Append(s, DeltaEvent(token)) \in Seq(Talk) /\ DeltaText(Append(s, DeltaEvent(token))) = Append(DeltaText(s), token)
<1> DEFINE e == DeltaEvent(token)
           t == Append(s, e)
           I == Deltas(s)
           n == Len(s) + 1
<1>1. e \in Talk /\ e.type = "delta" /\ e.text = token
  BY DEF DeltaEvent, Talk
<1> HIDE DEF e
<1>2. /\ t \in Seq(Talk) /\ Len(s) \in Nat /\ DOMAIN s = 1..Len(s) /\ DOMAIN t = 1..n /\ n \notin DOMAIN s
      /\ t[n] = e /\ \A i \in DOMAIN s : t[i] = s[i]
  BY <1>1
<1>3. Listed(s) /\ Listed(t)
  BY <1>2, InListed
<1> HIDE DEF t
<1>4. Deltas(t) = I \cup {n}
  <2>1. DOMAIN t = DOMAIN s \cup {n}
    BY <1>2
  <2> HIDE DEF n
  <2> QED BY <1>1, <1>2, <2>1 DEF Deltas
<1>5. I \subseteq DOMAIN s
  BY DEF Deltas
<1> DEFINE p == Picked(s, I)
           q == Picked(t, Deltas(t))
<1>6. q = Append(p, e)
  BY <1>1, <1>4, <1>5, PickedMore DEF t
<1>7. p \in Seq(Range(s)) /\ DeltaText(s) = [k \in DOMAIN p |-> p[k].text] /\ DeltaText(t) = [k \in DOMAIN q |-> q[k].text]
  BY <1>3, TextIs
<1> DEFINE S == {p[k].text : k \in DOMAIN p} \cup {token}
           u == [k \in DOMAIN p |-> p[k].text]
           v == [k \in DOMAIN q |-> q[k].text]
           w == Append(u, token)
           c == Len(p)
<1> HIDE DEF p, q, I, n
<1>8. c \in Nat /\ DOMAIN p = 1..c /\ DOMAIN q = 1..(c + 1) /\ q[c + 1] = e /\ \A k \in 1..c : q[k] = p[k]
  BY <1>6, <1>7
<1> HIDE DEF c
<1>9. u \in [1..c -> S] /\ v \in [1..(c + 1) -> S] /\ v[c + 1] = token /\ \A k \in 1..c : v[k] = u[k]
  <2>1. \A k \in 1..(c + 1) : k \in 1..c \/ k = c + 1
    BY <1>8
  <2>2. \A k \in 1..(c + 1) : q[k].text \in S
    BY <1>1, <1>8, <2>1
  <2> QED BY <1>1, <1>8, <2>2
<1>10. u \in Seq(S) /\ Len(u) = c /\ v \in Seq(S) /\ Len(v) = c + 1 /\ token \in S
  BY <1>8, <1>9
<1> HIDE DEF S, u, v
<1>11. w \in Seq(S) /\ Len(w) = c + 1 /\ \A k \in 1..(c + 1) : w[k] = IF k = c + 1 THEN token ELSE u[k]
  BY <1>8, <1>10
<1> HIDE DEF w
<1>12. \A k \in 1..(c + 1) : w[k] = v[k]
  BY <1>8, <1>9, <1>11
<1>13. w = v
  BY <1>10, <1>11, <1>12, SeqEqual
<1> QED BY <1>2, <1>7, <1>13 DEF u, v, w, t, e

----------------------------------------------------------------------------
(* The boundaries of calls.                                                *)

LEMMA AppendNote ==
  ASSUME NEW b \in Seq(Notes), NEW e \in Notes
  PROVE  /\ Append(b, e) \in Seq(Notes) /\ Len(b) \in Nat /\ Len(b) + 1 \notin DOMAIN b
         /\ DOMAIN Append(b, e) = DOMAIN b \cup {Len(b) + 1}
         /\ Append(b, e)[Len(b) + 1] = e /\ \A k \in DOMAIN b : Append(b, e)[k] = b[k] /\ k < Len(b) + 1
<1>1. Append(b, e) \in Seq(Notes) /\ Len(b) \in Nat /\ DOMAIN b = 1..Len(b) /\ DOMAIN Append(b, e) = 1..(Len(b) + 1)
  OBVIOUS
<1>2. Append(b, e)[Len(b) + 1] = e /\ \A k \in DOMAIN b : Append(b, e)[k] = b[k] /\ k < Len(b) + 1
  OBVIOUS
<1>3. DOMAIN Append(b, e) = DOMAIN b \cup {Len(b) + 1}
  BY <1>1
<1> QED BY <1>1, <1>2, <1>3

\* A boundary of another call.
LEMMA NoteOther ==
  ASSUME NEW b \in Seq(Notes), NEW e \in Notes, NEW i, e.index # i
  PROVE  /\ \A d \in BOOLEAN : Noted(b, i, d) => Noted(Append(b, e), i, d)
         /\ Unnoted(b, i) => Unnoted(Append(b, e), i)
<1> DEFINE c == Append(b, e)
           z == Len(b) + 1
<1>1. /\ DOMAIN c = DOMAIN b \cup {z} /\ z \notin DOMAIN b /\ c[z] = e /\ \A k \in DOMAIN b : c[k] = b[k]
  BY AppendNote
<1> HIDE DEF c, z
<1>2. ~IsStart(c[z], i) /\ ~IsDone(c[z], i)
  BY <1>1 DEF IsStart, IsDone
<1>3. ASSUME NEW d \in BOOLEAN, Noted(b, i, d) PROVE Noted(c, i, d)
  BY <1>1, <1>2, <1>3 DEF Noted
<1>4. Unnoted(b, i) => Unnoted(c, i)
  BY <1>1 DEF Unnoted
<1> QED BY <1>3, <1>4 DEF c

\* The start of a call, the first of its boundaries.
LEMMA NoteStart ==
  ASSUME NEW b \in Seq(Notes), NEW e \in Notes, NEW i, IsStart(e, i), Unnoted(b, i)
  PROVE  Noted(Append(b, e), i, FALSE)
<1> DEFINE c == Append(b, e)
           z == Len(b) + 1
<1>1. /\ DOMAIN c = DOMAIN b \cup {z} /\ z \notin DOMAIN b /\ c[z] = e /\ \A k \in DOMAIN b : c[k] = b[k]
  BY AppendNote
<1> HIDE DEF c, z
<1>2. \A k \in DOMAIN b : ~IsStart(c[k], i) /\ ~IsDone(c[k], i)
  BY <1>1 DEF IsStart, IsDone, Unnoted
<1>3. IsStart(c[z], i) /\ ~IsDone(c[z], i)
  BY <1>1 DEF IsStart, IsDone
<1>4. Noted(c, i, FALSE)
  BY <1>1, <1>2, <1>3 DEF Noted
<1> QED BY <1>4 DEF c

\* The boundaries that follow, t, hold the end of a call that was not finished, and
\* no other boundary of it.
LEMMA NoteEnd ==
  ASSUME NEW b \in Seq(Notes), NEW t \in Seq(Notes), NEW i, Noted(b, i, FALSE),
         NEW k \in DOMAIN t, IsDone(t[k], i), \A l \in DOMAIN t : t[l].index = i => l = k
  PROVE  Noted(b \o t, i, TRUE)
<1> DEFINE c == b \o t
<1>1. Listed(b) /\ Listed(t)
  BY InListed
<1>2. PICK m \in DOMAIN b : /\ IsStart(b[m], i) /\ \A l \in DOMAIN b : IsStart(b[l], i) => l = m
                            /\ \A l \in DOMAIN b : ~IsDone(b[l], i)
  BY DEF Noted
<1> DEFINE n == Len(b) + k
<1>3. /\ m \in DOMAIN c /\ c[m] = b[m] /\ n \in DOMAIN c /\ c[n] = t[k] /\ m < n
  <2>1. m \in DOMAIN c /\ c[m] = b[m] /\ m \in 1..Len(b) /\ Len(b) \in Nat
    BY <1>1, Joined
  <2>2. n \in DOMAIN c /\ c[n] = t[k]
    BY <1>1, Behind
  <2>3. k \in 1..Len(t)
    BY <1>1, Joined
  <2> QED BY <2>1, <2>2, <2>3
<1>4. ASSUME NEW l \in DOMAIN c PROVE (IsStart(c[l], i) => l = m) /\ (IsDone(c[l], i) => l = n)
  <2>1. CASE l \in DOMAIN b
    BY <1>1, <1>2, <2>1, Joined
  <2>2. ASSUME NEW j \in DOMAIN t, l = Len(b) + j PROVE (IsStart(c[l], i) => l = m) /\ (IsDone(c[l], i) => l = n)
    <3>1. c[l] = t[j]
      BY <1>1, <2>2, Behind
    <3>2. ~IsStart(t[k], i)
      BY DEF IsStart, IsDone
    <3>3. j # k => ~IsStart(t[j], i) /\ ~IsDone(t[j], i)
      BY DEF IsStart, IsDone
    <3> QED BY <2>2, <3>1, <3>2, <3>3
  <2> QED BY <1>1, <2>1, <2>2, Joined
<1> HIDE DEF c, n
<1>5. IsStart(c[m], i) /\ IsDone(c[n], i)
  BY <1>2, <1>3
<1>6. Noted(c, i, TRUE)
  BY <1>3, <1>4, <1>5 DEF Noted
<1> QED BY <1>6 DEF c

\* The boundaries that follow are of other calls.
LEMMA NoteOthers ==
  ASSUME NEW b \in Seq(Notes), NEW t \in Seq(Notes), NEW i, NEW d \in BOOLEAN, Noted(b, i, d),
         \A l \in DOMAIN t : t[l].index # i
  PROVE  Noted(b \o t, i, d)
<1> DEFINE c == b \o t
<1>1. Listed(b) /\ Listed(t)
  BY InListed
<1>2. \A l \in DOMAIN b : l \in DOMAIN c /\ c[l] = b[l]
  BY <1>1, Joined
<1>3. ASSUME NEW l \in DOMAIN c, l \notin DOMAIN b PROVE ~IsStart(c[l], i) /\ ~IsDone(c[l], i)
  <2>1. ASSUME NEW j \in DOMAIN t, l = Len(b) + j PROVE ~IsStart(c[l], i) /\ ~IsDone(c[l], i)
    <3>1. c[l] = t[j]
      BY <1>1, <2>1, Behind
    <3> QED BY <3>1 DEF IsStart, IsDone
  <2> QED BY <1>1, <1>3, <2>1, Joined
<1> HIDE DEF c
<1>4. Noted(c, i, d)
  BY <1>2, <1>3 DEF Noted
<1> QED BY <1>4 DEF c

\* Boundaries with other labels.
LEMMA NoteLabels ==
  ASSUME NEW b, NEW c, NEW i, NEW d \in BOOLEAN, Noted(b, i, d), DOMAIN c = DOMAIN b,
         \A l \in DOMAIN b : c[l].type = b[l].type /\ c[l].index = b[l].index
  PROVE  Noted(c, i, d)
<1>1. \A l \in DOMAIN b : (IsStart(c[l], i) <=> IsStart(b[l], i)) /\ (IsDone(c[l], i) <=> IsDone(b[l], i))
  BY DEF IsStart, IsDone
<1> QED BY <1>1 DEF Noted

\* Deltas, the boundaries, and done: a finished call is announced once.
LEMMA AnnouncesOnce ==
  ASSUME NEW s \in Seq(Talk), NEW b \in Seq(Notes), NEW message, NEW i, NEW label, Noted(b, i, TRUE),
         \A l \in DOMAIN b : b[l].index = i => b[l].label = label
  PROVE  AnnouncedOnce(s \o (b \o <<DoneEvent(message)>>), i, label)
<1> DEFINE e == <<DoneEvent(message)>>
           t == b \o e
           u == s \o t
<1>1. /\ Listed(s) /\ Listed(b) /\ Listed(e) /\ DOMAIN e = {1} /\ e[1].type = "done" /\ Len(e) = 1
  <2>1. e \in Seq({DoneEvent(message)}) /\ DOMAIN e = {1} /\ e[1] = DoneEvent(message) /\ Len(e) = 1
    OBVIOUS
  <2> QED BY <2>1, InListed DEF DoneEvent
<1> HIDE DEF e
<1>2. Listed(t)
  BY <1>1, Joined
<1>3. /\ \A l \in DOMAIN b : l \in DOMAIN t /\ t[l] = b[l]
      /\ \A l \in DOMAIN t : l \in DOMAIN b \/ t[l].type = "done"
  <2>1. ASSUME NEW l \in DOMAIN t, l \notin DOMAIN b PROVE t[l].type = "done"
    <3>1. ASSUME NEW j \in DOMAIN e, l = Len(b) + j PROVE t[l].type = "done"
      <4>1. t[l] = e[j]
        BY <1>1, <3>1, Behind
      <4> QED BY <1>1, <4>1
    <3> QED BY ZenonT(30), <1>1, <2>1, <3>1, Joined
  <2> QED BY <1>1, <2>1, Joined
<1> HIDE DEF t
<1>4. PICK m \in DOMAIN b, n \in DOMAIN b :
        /\ m < n /\ IsStart(b[m], i) /\ IsDone(b[n], i)
        /\ \A l \in DOMAIN b : (IsStart(b[l], i) => l = m) /\ (IsDone(b[l], i) => l = n)
  BY DEF Noted
<1> DEFINE x == Len(s) + m
           y == Len(s) + n
<1>5. x \in DOMAIN u /\ y \in DOMAIN u /\ u[x] = b[m] /\ u[y] = b[n]
  BY <1>1, <1>2, <1>3, Behind
<1>6. x < y
  <2>1. m \in Int /\ n \in Int /\ Len(s) \in Int
    OBVIOUS
  <2> QED BY <1>4, <2>1
<1>7. ASSUME NEW k \in DOMAIN u, u[k].type \in {"call started", "call done"}, u[k].index = i PROVE k \in {x, y}
  <2>1. k \notin DOMAIN s
    <3>1. ASSUME k \in DOMAIN s PROVE FALSE
      <4>1. u[k] = s[k] /\ s[k] \in Talk
        BY <1>1, <1>2, <3>1, Joined
      <4>2. s[k].type = "delta" \/ s[k].type = "thinking"
        BY <4>1 DEF Talk, ThinkingEvent
      <4> QED BY <1>7, <4>1, <4>2
    <3> QED BY <3>1
  <2>2. PICK l \in DOMAIN t : k = Len(s) + l
    BY ZenonT(30), <1>1, <1>2, <1>7, <2>1, Joined
  <2>3. u[k] = t[l]
    BY <1>1, <1>2, <2>2, Behind
  <2>4. l \in DOMAIN b /\ u[k] = b[l]
    BY <1>3, <1>7, <2>3
  <2>5. l \in {m, n}
    BY <1>4, <1>7, <2>4 DEF IsStart, IsDone
  <2> QED BY <2>2, <2>5
<1>8. /\ b[m] = [type |-> "call started", index |-> i, label |-> label]
      /\ b[n] = [type |-> "call done", index |-> i, label |-> label]
  <2>1. b[m] \in Notes /\ b[n] \in Notes
    OBVIOUS
  <2> QED BY <1>4, <2>1 DEF Notes, IsStart, IsDone
<1> HIDE DEF u, x, y
<1>9. AnnouncedOnce(u, i, label)
  BY <1>5, <1>6, <1>7, <1>8 DEF AnnouncedOnce
<1> QED BY <1>9 DEF u, t, e

----------------------------------------------------------------------------
(* What the operators on heard do.                                         *)

LEMMA PieceIs ==
  ASSUME NEW args \in ArgTexts
  PROVE  /\ NextPiece(args) \in {<<>>, <<1>>, <<2>>}
         /\ args \o <<>> = args /\ args \o NextPiece(args) \in ArgTexts
         /\ args # Arguments => NextPiece(args) # <<>>
         /\ args = Arguments => NextPiece(args) = <<>>
<1>1. /\ <<>> \in Seq(Nat) /\ <<1>> \in Seq(Nat) /\ <<2>> \in Seq(Nat) /\ <<1, 2>> \in Seq(Nat)
      /\ Len(<<1>>) = 1 /\ Len(<<>>) = 0 /\ Len(<<1, 2>>) = 2 /\ <<1>> # <<>> /\ <<2>> # <<>> /\ <<1, 2>> # <<>> /\ <<1, 2>> # <<1>>
  OBVIOUS
<1>2. <<>> \o <<1>> = <<1>> /\ <<1>> \o <<2>> = <<1, 2>> /\ <<1, 2>> \o <<>> = <<1, 2>>
  <2>1. <<>> \o <<1>> = <<1>> /\ <<1, 2>> \o <<>> = <<1, 2>>
    BY <1>1, ConcatEmptySeq
  <2> DEFINE u == <<1>> \o <<2>>
             v == <<1, 2>>
  <2>2. u \in Seq(Nat) /\ Len(u) = 2 /\ u[1] = 1 /\ u[2] = 2
    OBVIOUS
  <2>3. v \in Seq(Nat) /\ Len(v) = 2 /\ v[1] = 1 /\ v[2] = 2 /\ \A k \in 1..2 : k = 1 \/ k = 2
    OBVIOUS
  <2> HIDE DEF u, v
  <2>4. \A k \in 1..2 : u[k] = v[k]
    BY <2>2, <2>3
  <2>5. u = v
    BY <2>2, <2>3, <2>4, SeqEqual
  <2> QED BY <2>1, <2>5 DEF u, v
<1>3. args \o <<>> = args
  BY <1>1 DEF ArgTexts, NoArguments, Arguments
<1>4. CASE args = <<>>
  BY <1>1, <1>2, <1>3, <1>4 DEF ArgTexts, NoArguments, Arguments, NextPiece
<1>5. CASE args = <<1>>
  BY <1>1, <1>2, <1>3, <1>5 DEF ArgTexts, NoArguments, Arguments, NextPiece
<1>6. CASE args = <<1, 2>>
  BY <1>1, <1>2, <1>3, <1>6 DEF ArgTexts, NoArguments, Arguments, NextPiece
<1> QED BY <1>4, <1>5, <1>6 DEF ArgTexts, NoArguments, Arguments

\* h2 has the calls of h and the one under key, with that label and those arguments.
Filled(h, h2, key, label, args) ==
  /\ DOMAIN h2.calls = DOMAIN h.calls \cup {key}
  /\ h2.calls[key].label = label /\ h2.calls[key].args = args
  /\ h2.calls[key].input = IF key \in DOMAIN h.calls THEN h.calls[key].input ELSE NoArguments
  /\ \A k \in DOMAIN h.calls : k # key => h2.calls[k] = h.calls[k]

SameTexts(h, h2) == h2.text = h.text /\ h2.final = h.final

SameNotes(h, h2) == h2.started = h.started /\ h2.done = h.done /\ h2.boundary = h.boundary

LEMMA EnsuredIs ==
  ASSUME NEW h, HeardOK(h), NEW key \in Keys
  PROVE  /\ HeardOK(Ensured(h, key)) /\ SameTexts(h, Ensured(h, key)) /\ SameNotes(h, Ensured(h, key))
         /\ Ensured(h, key).named = h.named
         /\ DOMAIN Ensured(h, key).calls = DOMAIN h.calls \cup {key}
         /\ \A k \in DOMAIN h.calls : Ensured(h, key).calls[k] = h.calls[k]
         /\ key \in DOMAIN h.calls => Ensured(h, key) = h
         /\ key \notin DOMAIN h.calls =>
              /\ Ensured(h, key).calls[key] = NoCall
              /\ Ensured(h, key).order = Append(h.order, key)
<1>1. CASE key \in DOMAIN h.calls
  BY <1>1 DEF Ensured, SameTexts, SameNotes
<1>2. CASE key \notin DOMAIN h.calls
  <2> DEFINE calls == With(h.calls, key, NoCall)
             order == Append(h.order, key)
             g == [h EXCEPT !.calls = calls, !.order = order]
  <2>1. NoCall \in Assemblies
    BY DEF NoCall, Assemblies, Labels, ArgTexts
  <2>2. calls \in [DOMAIN h.calls \cup {key} -> Assemblies] /\ calls[key] = NoCall /\ \A k \in DOMAIN h.calls : calls[k] = h.calls[k]
    BY <1>2, <2>1 DEF With, HeardOK
  <2>3. order \in Seq(Keys)
    BY DEF HeardOK
  <2> HIDE DEF calls, order
  <2>4. HeardOK(g) /\ g.calls = calls /\ g.order = order /\ SameTexts(h, g) /\ SameNotes(h, g) /\ g.named = h.named
    BY <2>2, <2>3 DEF HeardOK, SameTexts, SameNotes
  <2>5. Ensured(h, key) = g
    BY <1>2 DEF Ensured, calls, order
  <2> HIDE DEF g
  <2> QED BY <1>2, <2>2, <2>4, <2>5 DEF order
<1> QED BY <1>1, <1>2

LEMMA LabelledIs ==
  ASSUME NEW g, HeardOK(g), NEW key \in DOMAIN g.calls, NEW label \in Labels, NEW args \in ArgTexts,
         NEW h2, h2 = [g EXCEPT !.calls[key].label = label, !.calls[key].args = args]
  PROVE  /\ HeardOK(h2) /\ SameTexts(g, h2) /\ SameNotes(g, h2) /\ h2.named = g.named /\ h2.order = g.order
         /\ Filled(g, h2, key, label, args)
<1> DEFINE call == [g.calls[key] EXCEPT !.label = label, !.args = args]
           calls == [g.calls EXCEPT ![key] = call]
<1>1. call \in Assemblies /\ call.label = label /\ call.args = args /\ call.input = g.calls[key].input
  BY DEF HeardOK, Assemblies
<1>2. h2 = [g EXCEPT !.calls = calls]
  BY DEF HeardOK
<1> HIDE DEF call
<1>3. calls \in [DOMAIN g.calls -> Assemblies] /\ calls[key] = call /\ \A k \in DOMAIN g.calls : k # key => calls[k] = g.calls[k]
  BY <1>1 DEF HeardOK
<1> HIDE DEF calls
<1>4. HeardOK(h2) /\ h2.calls = calls /\ SameTexts(g, h2) /\ SameNotes(g, h2) /\ h2.named = g.named /\ h2.order = g.order
  BY <1>2, <1>3 DEF HeardOK, SameTexts, SameNotes
<1>5. Filled(g, h2, key, label, args)
  BY <1>1, <1>3, <1>4 DEF Filled
<1> QED BY <1>4, <1>5

LEMMA ArgsIs ==
  ASSUME NEW g, HeardOK(g), NEW key \in DOMAIN g.calls, NEW args \in ArgTexts,
         NEW h2, h2 = [g EXCEPT !.calls[key].args = args]
  PROVE  /\ HeardOK(h2) /\ SameTexts(g, h2) /\ SameNotes(g, h2) /\ h2.named = g.named /\ h2.order = g.order
         /\ Filled(g, h2, key, g.calls[key].label, args)
<1> DEFINE call == [g.calls[key] EXCEPT !.args = args]
           calls == [g.calls EXCEPT ![key] = call]
<1>1. call \in Assemblies /\ call.label = g.calls[key].label /\ call.args = args /\ call.input = g.calls[key].input
  BY DEF HeardOK, Assemblies
<1>2. h2 = [g EXCEPT !.calls = calls]
  BY DEF HeardOK
<1> HIDE DEF call
<1>3. calls \in [DOMAIN g.calls -> Assemblies] /\ calls[key] = call /\ \A k \in DOMAIN g.calls : k # key => calls[k] = g.calls[k]
  BY <1>1 DEF HeardOK
<1> HIDE DEF calls
<1>4. HeardOK(h2) /\ h2.calls = calls /\ SameTexts(g, h2) /\ SameNotes(g, h2) /\ h2.named = g.named /\ h2.order = g.order
  BY <1>2, <1>3 DEF HeardOK, SameTexts, SameNotes
<1>5. Filled(g, h2, key, g.calls[key].label, args)
  BY <1>1, <1>3, <1>4 DEF Filled
<1> QED BY <1>4, <1>5

LEMMA BoundaryIs ==
  ASSUME NEW h, HeardOK(h), NEW key \in Keys, key \in DOMAIN h.calls, NEW type \in {"call started", "call done"}
  PROVE  /\ Boundary(type, h, key) \in Notes /\ Boundary(type, h, key).type = type
         /\ Boundary(type, h, key).index = key[1] /\ Boundary(type, h, key).label = h.calls[key].label
<1>1. key[1] \in Calls /\ h.calls[key].label \in Labels
  BY DEF Keys, HeardOK, Assemblies
<1> QED BY <1>1 DEF Boundary, Notes

\* The same calls, with another boundary.
SameCalls(h, h2) == h2.calls = h.calls /\ h2.order = h.order /\ h2.named = h.named

LEMMA StartOnceIs ==
  ASSUME NEW h, HeardOK(h), NEW key \in Keys, key \in DOMAIN h.calls
  PROVE  /\ HeardOK(StartOnce(h, key)) /\ SameTexts(h, StartOnce(h, key)) /\ SameCalls(h, StartOnce(h, key))
         /\ StartOnce(h, key).done = h.done
         /\ StartOnce(h, key).started = h.started \cup {key}
         /\ key \in h.started => StartOnce(h, key) = h
         /\ key \notin h.started => StartOnce(h, key).boundary = Append(h.boundary, Boundary("call started", h, key))
<1>1. CASE key \in h.started
  BY <1>1 DEF StartOnce, SameTexts, SameCalls
<1>2. CASE key \notin h.started
  <2> DEFINE e == Boundary("call started", h, key)
             b == Append(h.boundary, e)
             g == [h EXCEPT !.started = h.started \cup {key}, !.boundary = b]
  <2>0. e \in Notes
    BY BoundaryIs
  <2> HIDE DEF e
  <2>1. b \in Seq(Notes)
    BY <2>0 DEF HeardOK
  <2> HIDE DEF b
  <2>2. HeardOK(g) /\ SameTexts(h, g) /\ SameCalls(h, g) /\ g.done = h.done /\ g.started = h.started \cup {key} /\ g.boundary = b
    BY <2>1 DEF HeardOK, SameTexts, SameCalls
  <2>3. StartOnce(h, key) = g
    BY <1>2 DEF StartOnce, b, e
  <2> HIDE DEF g
  <2> QED BY <1>2, <2>2, <2>3 DEF b, e
<1> QED BY <1>1, <1>2

LEMMA DoneOnceIs ==
  ASSUME NEW h, HeardOK(h), NEW key \in Keys, key \in DOMAIN h.calls
  PROVE  /\ HeardOK(DoneOnce(h, key)) /\ SameTexts(h, DoneOnce(h, key)) /\ SameCalls(h, DoneOnce(h, key))
         /\ DoneOnce(h, key).started = h.started
         /\ DoneOnce(h, key).done = h.done \cup {key}
         /\ key \in h.done => DoneOnce(h, key) = h
         /\ key \notin h.done => DoneOnce(h, key).boundary = Append(h.boundary, Boundary("call done", h, key))
<1>1. CASE key \in h.done
  BY <1>1 DEF DoneOnce, SameTexts, SameCalls
<1>2. CASE key \notin h.done
  <2> DEFINE e == Boundary("call done", h, key)
             b == Append(h.boundary, e)
             g == [h EXCEPT !.done = h.done \cup {key}, !.boundary = b]
  <2>0. e \in Notes
    BY BoundaryIs
  <2> HIDE DEF e
  <2>1. b \in Seq(Notes)
    BY <2>0 DEF HeardOK
  <2> HIDE DEF b
  <2>2. HeardOK(g) /\ SameTexts(h, g) /\ SameCalls(h, g) /\ g.started = h.started /\ g.done = h.done \cup {key} /\ g.boundary = b
    BY <2>1 DEF HeardOK, SameTexts, SameCalls
  <2>3. DoneOnce(h, key) = g
    BY <1>2 DEF DoneOnce, b, e
  <2> HIDE DEF g
  <2> QED BY <1>2, <2>2, <2>3 DEF b, e
<1> QED BY <1>1, <1>2

----------------------------------------------------------------------------
(* A frame that brings a piece of a call.                                  *)

\* s2 is s after now has been told of call i.
Retold(s, s2, i, now) ==
  /\ SaidOK(s2) /\ s2.text = s.text /\ s2.finished = s.finished
  /\ i \in DOMAIN s.calls \/ i = Len(s.calls) + 1
  /\ DOMAIN s2.calls = DOMAIN s.calls \cup {i} /\ s2.calls[i] = now
  /\ \A j \in DOMAIN s.calls : j # i => s2.calls[j] = s.calls[j]
  /\ i \in DOMAIN s.calls => now.named = s.calls[i].named

LEMMA SaidCalls ==
  ASSUME NEW s, SaidOK(s)
  PROVE  /\ Len(s.calls) \in Nat /\ DOMAIN s.calls = 1..Len(s.calls) /\ DOMAIN s.calls \subseteq Calls
         /\ s.calls \in Seq(Tellings)
         /\ \A i \in DOMAIN s.calls : s.calls[i] \in Tellings /\ KeyOf(s, i) \in Keys /\ KeyOf(s, i)[1] = i
<1>1. s.calls \in Seq(Tellings) /\ Len(s.calls) <= MaxCalls
  BY DEF SaidOK
<1>2. Len(s.calls) \in Nat /\ DOMAIN s.calls = 1..Len(s.calls) /\ \A i \in DOMAIN s.calls : s.calls[i] \in Tellings
  BY <1>1
<1>3. DOMAIN s.calls \subseteq Calls
  BY <1>1, <1>2, ProviderStreamsAssumption DEF Calls
<1>4. \A i \in DOMAIN s.calls : KeyOf(s, i) \in Keys /\ KeyOf(s, i)[1] = i
  BY <1>3 DEF KeyOf, Keys
<1> QED BY <1>1, <1>2, <1>3, <1>4

LEMMA KeysKept ==
  ASSUME NEW s, NEW s2, NEW i, NEW now, SaidOK(s), Retold(s, s2, i, now)
  PROVE  /\ \A j \in DOMAIN s.calls : KeyOf(s2, j) = KeyOf(s, j)
         /\ i \in Calls /\ KeyOf(s2, i) \in Keys /\ KeyOf(s2, i)[1] = i
         /\ i \notin DOMAIN s.calls => KeyOf(s2, i) \notin {KeyOf(s, j) : j \in DOMAIN s.calls}
<1>1. ASSUME NEW j \in DOMAIN s.calls PROVE s2.calls[j].named = s.calls[j].named
  BY DEF Retold
<1>2. \A j \in DOMAIN s.calls : KeyOf(s2, j) = KeyOf(s, j)
  BY <1>1 DEF KeyOf
<1>3. SaidOK(s2) /\ i \in DOMAIN s2.calls
  BY DEF Retold
<1>4. i \in Calls /\ KeyOf(s2, i) \in Keys /\ KeyOf(s2, i)[1] = i
  BY <1>3, SaidCalls
<1>5. \A j \in DOMAIN s.calls : KeyOf(s, j)[1] = j
  BY SaidCalls
<1> QED BY <1>2, <1>4, <1>5

\* h2 is h with what it takes of call i under key.
Taken(f, s, h, h2, i, now, key) ==
  /\ DOMAIN h2.calls = DOMAIN h.calls \cup {key} /\ \A k \in DOMAIN h.calls : k # key => h2.calls[k] = h.calls[k]
  /\ h2.named = IF now.named THEN h.named \cup {i} ELSE h.named
  /\ f # "anthropic" => h2.order = IF i \in DOMAIN s.calls THEN h.order ELSE Append(h.order, key)

LEMMA CallTold ==
  ASSUME NEW r \in Nat, NEW f \in Formats, NEW s, NEW h, Hears(r, f, s, h), NEW i, NEW now, NEW s2, Retold(s, s2, i, now),
         NEW h2, HeardOK(h2), SameTexts(h, h2), NEW key, key = KeyOf(s2, i), Taken(f, s, h, h2, i, now, key),
         Agree(r, f, i, now, h2.calls[key])
  PROVE  TextHeard(s2, h2) /\ CallsHeard(r, f, s2, h2)
<1>0. /\ DOMAIN h2.calls = DOMAIN h.calls \cup {key} /\ \A k \in DOMAIN h.calls : k # key => h2.calls[k] = h.calls[k]
      /\ h2.named = IF now.named THEN h.named \cup {i} ELSE h.named
      /\ f # "anthropic" => h2.order = IF i \in DOMAIN s.calls THEN h.order ELSE Append(h.order, key)
  BY DEF Taken
<1>1. SaidOK(s) /\ SaidOK(s2) /\ HeardOK(h) /\ TextHeard(s, h) /\ CallsHeard(r, f, s, h)
  BY DEF Hears, Retold
<1>2. TextHeard(s2, h2)
  BY <1>1 DEF TextHeard, SameTexts, Retold
<1>3. /\ \A j \in DOMAIN s.calls : KeyOf(s2, j) = KeyOf(s, j)
      /\ DOMAIN s2.calls = DOMAIN s.calls \cup {i} /\ s2.calls[i] = now
      /\ \A j \in DOMAIN s.calls : j # i => s2.calls[j] = s.calls[j]
  <2>1. \A j \in DOMAIN s.calls : KeyOf(s2, j) = KeyOf(s, j)
    BY <1>1, KeysKept
  <2> QED BY <2>1 DEF Retold
<1>4. DOMAIN h2.calls = {KeyOf(s2, j) : j \in DOMAIN s2.calls}
  BY <1>0, <1>1, <1>3 DEF CallsHeard
<1>5. h2.named = {j \in DOMAIN s2.calls : s2.calls[j].named}
  <2>1. h.named = {j \in DOMAIN s.calls : s.calls[j].named} /\ (i \in DOMAIN s.calls => now.named = s.calls[i].named)
    BY <1>1 DEF CallsHeard, Retold
  <2>2. now \in Tellings
    BY <1>1, <1>3, SaidCalls
  <2>3. now.named \in BOOLEAN
    BY <2>2 DEF Tellings
  <2>4. ASSUME NEW j \in DOMAIN s.calls PROVE s2.calls[j].named = s.calls[j].named
    BY DEF Retold
  <2>5. CASE now.named
    <3>1. h2.named = h.named \cup {i}
      BY <1>0, <2>5
    <3> QED BY <1>3, <2>1, <2>4, <2>5, <3>1
  <2>6. CASE ~now.named
    <3>1. h2.named = h.named
      BY <1>0, <2>6
    <3> QED BY <1>3, <2>1, <2>4, <2>6, <3>1
  <2> QED BY <2>5, <2>6
<1>6. ASSUME f # "anthropic" PROVE h2.order = [j \in DOMAIN s2.calls |-> KeyOf(s2, j)]
  <2> DEFINE want == [j \in DOMAIN s2.calls |-> KeyOf(s2, j)]
  <2>1. h.order = [j \in DOMAIN s.calls |-> KeyOf(s, j)]
    BY <1>1, <1>6 DEF CallsHeard
  <2>2. CASE i \in DOMAIN s.calls
    <3>1. h2.order = h.order /\ DOMAIN s2.calls = DOMAIN s.calls
      BY <1>0, <1>3, <1>6, <2>2
    <3> QED BY <1>3, <2>1, <3>1
  <2>3. CASE i \notin DOMAIN s.calls
    <3> DEFINE n == Len(s.calls)
    <3>1. n \in Nat /\ DOMAIN s.calls = 1..n /\ i = n + 1 /\ DOMAIN s2.calls = 1..(n + 1)
      BY <1>1, <1>3, <2>3, SaidCalls DEF Retold
    <3>2. h.order \in Seq(Keys) /\ key \in Keys
      BY <1>1, KeysKept DEF HeardOK
    <3>3. DOMAIN h.order = 1..n /\ \A j \in 1..n : h.order[j] = KeyOf(s, j)
      BY <2>1, <3>1
    <3>4. Len(h.order) = n
      BY <3>1, <3>2, <3>3
    <3>5. h2.order \in Seq(Keys) /\ Len(h2.order) = n + 1 /\ h2.order[n + 1] = key /\ \A j \in 1..n : h2.order[j] = h.order[j]
      <4>1. h2.order = Append(h.order, key)
        BY <1>0, <1>6, <2>3
      <4> HIDE DEF n
      <4> QED BY <3>1, <3>2, <3>4, <4>1, AppendProperties
    <3>6. DOMAIN h2.order = 1..(n + 1)
      BY <3>5
    <3> HIDE DEF n
    <3>7. \A j \in 1..(n + 1) : h2.order[j] = KeyOf(s2, j)
      <4>1. \A j \in 1..(n + 1) : j \in 1..n \/ j = n + 1
        BY <3>1
      <4> QED BY <1>3, <3>1, <3>3, <3>5, <4>1
    <3>8. h2.order = [j \in 1..(n + 1) |-> h2.order[j]]
      BY <3>5, <3>6
    <3> QED BY <3>1, <3>7, <3>8
  <2> QED BY <2>2, <2>3
<1>7. ASSUME NEW j \in DOMAIN s2.calls PROVE Agree(r, f, j, s2.calls[j], h2.calls[KeyOf(s2, j)])
  <2>1. CASE j = i
    BY <1>3, <2>1
  <2>2. CASE j # i
    <3>1. j \in DOMAIN s.calls /\ s2.calls[j] = s.calls[j] /\ KeyOf(s2, j) = KeyOf(s, j)
      BY <1>3, <2>2
    <3>2. KeyOf(s2, j) # key
      <4>1. KeyOf(s, j)[1] = j /\ key[1] = i
        BY <1>1, <3>1, SaidCalls, KeysKept
      <4> QED BY <2>2, <3>1, <4>1
    <3>3. KeyOf(s, j) \in DOMAIN h.calls /\ Agree(r, f, j, s.calls[j], h.calls[KeyOf(s, j)])
      BY <1>1, <3>1 DEF CallsHeard
    <3> QED BY <1>0, <3>1, <3>2, <3>3
  <2> QED BY <2>1, <2>2
<1> QED BY <1>2, <1>4, <1>5, <1>6, <1>7 DEF CallsHeard

\* The boundaries after a frame that opens call i.
LEMMA NotesOpen ==
  ASSUME NEW r \in Nat, NEW f \in Formats, NEW s, NEW h, Hears(r, f, s, h), NEW i, NEW now, NEW s2, Retold(s, s2, i, now),
         i \notin DOMAIN s.calls, NEW h2, NEW e \in Notes, IsStart(e, i), f # "chat" => e.label = Label(r, i),
         h2.boundary = Append(h.boundary, e),
         f = "anthropic" => ~now.stopped,
         f # "anthropic" => h2.done = h.done /\ h2.started = DOMAIN h2.calls /\ DOMAIN h.calls \subseteq DOMAIN h2.calls
  PROVE  BoundariesNoted(r, f, s2, h2)
<1>1. SaidOK(s) /\ HeardOK(h) /\ CallsHeard(r, f, s, h) /\ BoundariesNoted(r, f, s, h)
  BY DEF Hears
<1>2. h.boundary \in Seq(Notes)
  BY <1>1 DEF HeardOK
<1>3. /\ \A j \in DOMAIN s.calls : KeyOf(s2, j) = KeyOf(s, j)
      /\ KeyOf(s2, i) \notin {KeyOf(s, j) : j \in DOMAIN s.calls} /\ i \in Calls
  BY <1>1, KeysKept
<1>4. DOMAIN s2.calls = DOMAIN s.calls \cup {i} /\ s2.calls[i] = now /\ \A j \in DOMAIN s.calls : s2.calls[j] = s.calls[j]
  BY DEF Retold
<1>5. e.index = i
  BY DEF IsStart
<1>6. \A j \in DOMAIN s.calls : Finished(f, s2, h2, j) = Finished(f, s, h, j)
  BY <1>3, <1>4 DEF Finished
<1>7. ~Finished(f, s2, h2, i)
  <2>1. CASE f = "anthropic"
    BY <1>4, <2>1 DEF Finished
  <2>2. CASE f # "anthropic"
    <3>1. KeyOf(s2, i) \notin h.done
      BY <1>1, <1>3, <2>2 DEF BoundariesNoted, CallsHeard
    <3> QED BY <2>2, <3>1 DEF Finished
  <2> QED BY <2>1, <2>2
<1>8. ASSUME NEW j \in DOMAIN s.calls PROVE Noted(h2.boundary, j, Finished(f, s2, h2, j))
  <2>1. Noted(h.boundary, j, Finished(f, s, h, j)) /\ e.index # j
    BY <1>1, <1>5 DEF BoundariesNoted
  <2>2. CASE Finished(f, s, h, j)
    <3>1. Noted(h.boundary, j, TRUE)
      BY <2>1, <2>2 DEF Noted
    <3>2. Noted(h2.boundary, j, TRUE)
      BY <1>2, <2>1, <3>1, NoteOther
    <3> QED BY <1>6, <2>2, <3>2 DEF Noted
  <2>3. CASE ~Finished(f, s, h, j)
    <3>1. Noted(h.boundary, j, FALSE)
      BY <2>1, <2>3 DEF Noted
    <3>2. Noted(h2.boundary, j, FALSE)
      BY <1>2, <2>1, <3>1, NoteOther
    <3> QED BY <1>6, <2>3, <3>2 DEF Noted
  <2> QED BY <2>2, <2>3
<1>9. Noted(h2.boundary, i, Finished(f, s2, h2, i))
  <2>1. Unnoted(h.boundary, i)
    BY <1>1, <1>3 DEF BoundariesNoted
  <2>2. Noted(h2.boundary, i, FALSE)
    BY <1>2, <2>1, NoteStart
  <2> QED BY <1>7, <2>2 DEF Noted
<1>10. ASSUME NEW j \in Calls \ DOMAIN s2.calls PROVE Unnoted(h2.boundary, j)
  <2>1. Unnoted(h.boundary, j) /\ e.index # j
    BY <1>1, <1>4, <1>5 DEF BoundariesNoted
  <2> QED BY <1>2, <2>1, NoteOther
<1>11. ASSUME f # "chat", NEW k \in DOMAIN h2.boundary PROVE h2.boundary[k].label = Label(r, h2.boundary[k].index)
  BY <1>1, <1>2, <1>5, <1>11, AppendNote DEF BoundariesNoted
<1>12. f # "anthropic" => h2.started = DOMAIN h2.calls /\ h2.done \subseteq DOMAIN h2.calls
  BY <1>1 DEF BoundariesNoted
<1> QED BY <1>4, <1>8, <1>9, <1>10, <1>11, <1>12 DEF BoundariesNoted

\* The boundaries after a frame that only brings a piece of a call i that is open.
LEMMA NotesStay ==
  ASSUME NEW r \in Nat, NEW f \in Formats, NEW s, NEW h, Hears(r, f, s, h), NEW i, NEW now, NEW s2, Retold(s, s2, i, now),
         i \in DOMAIN s.calls, NEW h2, SameNotes(h, h2), DOMAIN h2.calls = DOMAIN h.calls,
         f = "anthropic" => now.stopped = s.calls[i].stopped
  PROVE  BoundariesNoted(r, f, s2, h2)
<1>1. SaidOK(s) /\ HeardOK(h) /\ BoundariesNoted(r, f, s, h)
  BY DEF Hears
<1>2. /\ \A j \in DOMAIN s.calls : KeyOf(s2, j) = KeyOf(s, j)
  BY <1>1, KeysKept
<1>3. DOMAIN s2.calls = DOMAIN s.calls /\ s2.calls[i] = now /\ \A j \in DOMAIN s.calls : j # i => s2.calls[j] = s.calls[j]
  BY DEF Retold
<1>4. \A j \in DOMAIN s.calls : Finished(f, s2, h2, j) = Finished(f, s, h, j)
  BY <1>2, <1>3 DEF Finished, SameNotes
<1> QED BY <1>1, <1>3, <1>4 DEF BoundariesNoted, SameNotes

\* The boundaries after a frame that finishes call i.
LEMMA NotesEnd ==
  ASSUME NEW r \in Nat, NEW f \in Formats, NEW s, NEW h, Hears(r, f, s, h), NEW i, NEW now, NEW s2, Retold(s, s2, i, now),
         i \in DOMAIN s.calls, ~Finished(f, s, h, i),
         NEW h2, NEW e \in Notes, IsDone(e, i), f # "chat" => e.label = Label(r, i),
         h2.boundary = Append(h.boundary, e), DOMAIN h2.calls = DOMAIN h.calls,
         f = "anthropic" => now.stopped,
         f # "anthropic" => h2.started = h.started /\ h2.done = h.done \cup {KeyOf(s, i)}
  PROVE  BoundariesNoted(r, f, s2, h2)
<1>1. SaidOK(s) /\ HeardOK(h) /\ CallsHeard(r, f, s, h) /\ BoundariesNoted(r, f, s, h)
  BY DEF Hears
<1>2. h.boundary \in Seq(Notes)
  BY <1>1 DEF HeardOK
<1>3. \A j \in DOMAIN s.calls : KeyOf(s2, j) = KeyOf(s, j)
  BY <1>1, KeysKept
<1>4. DOMAIN s2.calls = DOMAIN s.calls /\ s2.calls[i] = now /\ \A j \in DOMAIN s.calls : j # i => s2.calls[j] = s.calls[j]
  BY DEF Retold
<1>5. e.index = i
  BY DEF IsDone
<1>6. ASSUME NEW j \in DOMAIN s.calls, j # i PROVE Finished(f, s2, h2, j) = Finished(f, s, h, j)
  <2>1. KeyOf(s, j) # KeyOf(s, i)
    <3>1. KeyOf(s, j)[1] = j /\ KeyOf(s, i)[1] = i
      BY <1>1, SaidCalls
    <3> QED BY <1>6, <3>1
  <2> QED BY <1>3, <1>4, <1>6, <2>1 DEF Finished
<1>7. Finished(f, s2, h2, i)
  BY <1>3, <1>4 DEF Finished
<1>8. ASSUME NEW j \in DOMAIN s.calls, j # i PROVE Noted(h2.boundary, j, Finished(f, s2, h2, j))
  <2>1. Noted(h.boundary, j, Finished(f, s, h, j)) /\ e.index # j
    BY <1>1, <1>5, <1>8 DEF BoundariesNoted
  <2>2. CASE Finished(f, s, h, j)
    <3>1. Noted(h.boundary, j, TRUE)
      BY <2>1, <2>2 DEF Noted
    <3>2. Noted(h2.boundary, j, TRUE)
      BY <1>2, <2>1, <3>1, NoteOther
    <3> QED BY <1>6, <1>8, <2>2, <3>2 DEF Noted
  <2>3. CASE ~Finished(f, s, h, j)
    <3>1. Noted(h.boundary, j, FALSE)
      BY <2>1, <2>3 DEF Noted
    <3>2. Noted(h2.boundary, j, FALSE)
      BY <1>2, <2>1, <3>1, NoteOther
    <3> QED BY <1>6, <1>8, <2>3, <3>2 DEF Noted
  <2> QED BY <2>2, <2>3
<1>9. Noted(h2.boundary, i, Finished(f, s2, h2, i))
  <2> DEFINE t == <<e>>
  <2>1. Noted(h.boundary, i, FALSE)
    BY <1>1 DEF BoundariesNoted, Noted
  <2>2. t \in Seq(Notes) /\ DOMAIN t = {1} /\ t[1] = e /\ h2.boundary = h.boundary \o t
    BY <1>2, AppendIsConcat
  <2> HIDE DEF t
  <2>3. Noted(h2.boundary, i, TRUE)
    BY ZenonT(30), <1>2, <2>1, <2>2, NoteEnd
  <2> QED BY <1>7, <2>3 DEF Noted
<1>10. ASSUME NEW j \in Calls \ DOMAIN s2.calls PROVE Unnoted(h2.boundary, j)
  <2>1. Unnoted(h.boundary, j) /\ e.index # j
    BY <1>1, <1>4, <1>5 DEF BoundariesNoted
  <2> QED BY <1>2, <2>1, NoteOther
<1>11. ASSUME f # "chat", NEW k \in DOMAIN h2.boundary PROVE h2.boundary[k].label = Label(r, h2.boundary[k].index)
  BY <1>1, <1>2, <1>5, <1>11, AppendNote DEF BoundariesNoted
<1>12. f # "anthropic" => h2.started = DOMAIN h2.calls /\ h2.done \subseteq DOMAIN h2.calls
  BY <1>1 DEF BoundariesNoted, CallsHeard
<1> QED BY <1>4, <1>8, <1>9, <1>10, <1>11, <1>12 DEF BoundariesNoted

\* The ledger after a call is opened, or after something new is told of an open one.
LEMMA RetoldNew ==
  ASSUME NEW s, SaidOK(s), NEW i, i = Len(s.calls) + 1, i <= MaxCalls, NEW now \in Tellings,
         NEW s2, s2 = [s EXCEPT !.calls = Append(s.calls, now)]
  PROVE  Retold(s, s2, i, now) /\ i \in Calls /\ i \notin DOMAIN s.calls
<1>1. s.calls \in Seq(Tellings) /\ Len(s.calls) \in Nat /\ DOMAIN s.calls = 1..Len(s.calls)
  BY SaidCalls
<1> DEFINE calls == Append(s.calls, now)
<1>2. calls \in Seq(Tellings) /\ Len(calls) = i /\ DOMAIN calls = DOMAIN s.calls \cup {i} /\ calls[i] = now
  BY <1>1
<1>3. \A j \in DOMAIN s.calls : calls[j] = s.calls[j]
  BY <1>1
<1> HIDE DEF calls
<1>4. SaidOK(s2) /\ s2.calls = calls /\ s2.text = s.text /\ s2.finished = s.finished
  <2>1. s2 = [s EXCEPT !.calls = calls]
    BY DEF calls
  <2> QED BY <1>2, <2>1 DEF SaidOK
<1>5. i \in Calls /\ i \notin DOMAIN s.calls
  BY <1>1, ProviderStreamsAssumption DEF Calls
<1> QED BY <1>2, <1>3, <1>4, <1>5 DEF Retold

LEMMA RetoldOpen ==
  ASSUME NEW s, SaidOK(s), NEW i \in DOMAIN s.calls, NEW now \in Tellings, now.named = s.calls[i].named,
         NEW s2, s2 = [s EXCEPT !.calls = [s.calls EXCEPT ![i] = now]]
  PROVE  Retold(s, s2, i, now) /\ i \in Calls
<1>1. s.calls \in Seq(Tellings) /\ DOMAIN s.calls \subseteq Calls /\ Len(s.calls) \in Nat /\ DOMAIN s.calls = 1..Len(s.calls)
  BY SaidCalls
<1> DEFINE calls == [s.calls EXCEPT ![i] = now]
<1>2. calls \in Seq(Tellings) /\ Len(calls) = Len(s.calls) /\ DOMAIN calls = DOMAIN s.calls /\ calls[i] = now
  BY <1>1
<1>3. \A j \in DOMAIN s.calls : j # i => calls[j] = s.calls[j]
  BY <1>1
<1> HIDE DEF calls
<1>4. SaidOK(s2) /\ s2.calls = calls /\ s2.text = s.text /\ s2.finished = s.finished
  <2>1. s2 = [s EXCEPT !.calls = calls]
    BY DEF calls
  <2> QED BY <1>2, <2>1 DEF SaidOK
<1> QED BY <1>1, <1>2, <1>3, <1>4 DEF Retold

\* A chunk of a chat completion with a piece of a call.
LEMMA ChatCallHeard ==
  ASSUME round \in Nat, Hears(round, "chat", said, heard), NEW delta \in ToolDeltas
  PROVE  /\ Hears(round, "chat", TellCall(said, delta), HearCall(heard, delta))
         /\ SameTexts(heard, HearCall(heard, delta))
         /\ TellCall(said, delta).text = said.text /\ TellCall(said, delta).finished = said.finished
<1> DEFINE s2 == TellCall(said, delta)
           h2 == HearCall(heard, delta)
           i == delta.index
           told == IF i \in Opened THEN said.calls[i] ELSE Unopened
           label == SubSeq(Label(round, i), 1, delta.to)
           args == told.args \o delta.args
           now == [told EXCEPT !.label = label, !.args = args]
           key == <<i, "index">>
<1>1. /\ i \in Calls /\ (i \in Opened \/ Opens(i))
      /\ delta.from \in {1, Len(told.label) + 1} /\ delta.to \in Len(told.label)..2 /\ delta.args \in {<<>>, NextPiece(told.args)}
  <2>1. PICK c \in {c \in Calls : c \in Opened \/ Opens(c)} :
          delta \in LET t == IF c \in Opened THEN said.calls[c] ELSE Unopened
                    IN [index : {c}, from : {1, Len(t.label) + 1}, to : Len(t.label)..2, args : {<<>>, NextPiece(t.args)}]
    BY DEF ToolDeltas
  <2>2. i = c
    BY <2>1
  <2> QED BY <2>1, <2>2
<1>2. SaidOK(said) /\ HeardOK(heard) /\ CallsHeard(round, "chat", said, heard) /\ BoundariesNoted(round, "chat", said, heard)
  BY DEF Hears
<1>3. told \in Tellings /\ ~told.named /\ \E k \in 0..2 : told.label = SubSeq(Label(round, i), 1, k)
  <2>1. CASE i \in Opened
    <3>1. told = said.calls[i] /\ told \in Tellings
      BY <1>2, <2>1, SaidCalls DEF Opened
    <3>2. Agree(round, "chat", i, said.calls[i], heard.calls[KeyOf(said, i)])
      BY <1>2, <2>1 DEF CallsHeard, Opened
    <3> QED BY <3>1, <3>2 DEF Agree
  <2>2. CASE i \notin Opened
    <3>1. told = Unopened /\ Unopened \in Tellings
      BY <2>2 DEF Unopened, Told, Tellings, Labels, ArgTexts
    <3>2. Unopened.label = SubSeq(Label(round, i), 1, 0)
      BY <1>1, LabelIs DEF Unopened, Told
    <3>3. ~told.named
      BY <3>1 DEF Unopened, Told
    <3>4. told.label = SubSeq(Label(round, i), 1, 0) /\ 0 \in 0..2
      BY <3>1, <3>2
    <3> QED BY <3>1, <3>3, <3>4
  <2> QED BY <2>1, <2>2
<1>4. PICK k \in 0..2 : told.label = SubSeq(Label(round, i), 1, k)
  BY <1>3
<1>5. Len(told.label) = k /\ delta.to \in k..2 /\ delta.to \in 0..2 /\ delta.from \in {1, k + 1}
  <2>1. \A j \in 0..2 : Len(SubSeq(Label(round, i), 1, j)) = j
    BY <1>1, LabelIs
  <2>2. Len(told.label) = k
    BY <1>4, <2>1
  <2> QED BY <1>1, <2>2
<1>6. label \in Labels /\ args \in ArgTexts
  <2>1. label \in Labels
    BY <1>1, <1>5, LabelIs
  <2>2. told.args \in ArgTexts
    BY <1>3 DEF Tellings
  <2> HIDE DEF told
  <2> QED BY <1>1, <2>1, <2>2, PieceIs
<1>7. AppendStreamValue(told.label, SubSeq(Label(round, i), delta.from, delta.to)) = label
  <2> DEFINE L == Label(round, i)
  <2>1. L \in Seq(Nat \X Nat \X Nat) /\ Len(L) = 2 /\ L[1] # L[2]
    BY <1>1, LabelIs DEF Labels
  <2>2. told.label = SubSeq(L, 1, k)
    BY <1>4
  <2> HIDE DEF L, told, i
  <2>3. AppendStreamValue(SubSeq(L, 1, k), SubSeq(L, delta.from, delta.to)) = SubSeq(L, 1, delta.to)
    BY <1>5, <2>1, Assembles
  <2> QED BY <2>2, <2>3 DEF L
<1> HIDE DEF told, label, args
<1>8. now \in Tellings /\ now.label = label /\ now.args = args /\ ~now.named /\ now.stopped = told.stopped
  BY <1>3, <1>6 DEF Tellings
<1>9. Retold(said, s2, i, now) /\ (i \in Opened => now.named = said.calls[i].named)
  <2>1. CASE i \in Opened
    <3>1. s2 = [said EXCEPT !.calls = [said.calls EXCEPT ![i] = now]]
      BY <2>1 DEF TellCall, Opened, told, label, args
    <3>2. told = said.calls[i] /\ now.named = told.named
      BY <1>3, <2>1 DEF told, Tellings
    <3> HIDE DEF s2, now, i
    <3> QED BY <1>2, <1>8, <2>1, <3>1, <3>2, RetoldOpen DEF Opened
  <2>2. CASE i \notin Opened
    <3>1. s2 = [said EXCEPT !.calls = Append(said.calls, now)]
      BY <2>2 DEF TellCall, Opened, told, label, args
    <3>2. i = Len(said.calls) + 1 /\ i <= MaxCalls
      BY <1>1, <2>2 DEF Opens
    <3> HIDE DEF s2, now, i
    <3> QED BY <1>2, <1>8, <2>2, <3>1, <3>2, RetoldNew
  <2> QED BY <2>1, <2>2
<1> DEFINE g == Ensured(heard, key)
           h1 == [g EXCEPT !.calls[key].label = label, !.calls[key].args = args]
<1>10. key \in Keys /\ (key \in DOMAIN heard.calls <=> i \in Opened) /\ (i \in Opened => key = KeyOf(said, i)) /\ key = KeyOf(s2, i) /\ key[1] = i
  <2>1. key \in Keys /\ key[1] = i
    BY <1>1 DEF Keys
  <2>2. key = KeyOf(s2, i)
    BY <1>8, <1>9 DEF KeyOf, Retold
  <2>3. i \in Opened => key = KeyOf(said, i)
    <3>1. i \in Opened => ~said.calls[i].named
      BY <1>3 DEF told
    <3> QED BY <3>1 DEF KeyOf
  <2>4. DOMAIN heard.calls = {KeyOf(said, j) : j \in DOMAIN said.calls}
    BY <1>2 DEF CallsHeard
  <2>5. key \in DOMAIN heard.calls => i \in Opened
    BY <1>2, <2>1, <2>4, SaidCalls DEF Opened
  <2> QED BY <2>1, <2>2, <2>3, <2>4, <2>5 DEF Opened
<1>11. /\ HeardOK(g) /\ SameTexts(heard, g) /\ SameNotes(heard, g) /\ g.named = heard.named
       /\ DOMAIN g.calls = DOMAIN heard.calls \cup {key} /\ \A l \in DOMAIN heard.calls : g.calls[l] = heard.calls[l]
       /\ i \in Opened => g = heard
       /\ i \notin Opened => g.calls[key] = NoCall /\ g.order = Append(heard.order, key)
  BY <1>2, <1>10, EnsuredIs
<1>12. g.calls[key].label = told.label /\ g.calls[key].args = told.args
  <2>1. CASE i \in Opened
    <3>1. told = said.calls[i] /\ Agree(round, "chat", i, told, heard.calls[KeyOf(said, i)])
      BY <1>2, <2>1 DEF CallsHeard, Opened, told
    <3> QED BY <1>10, <1>11, <2>1, <3>1 DEF Agree
  <2>2. CASE i \notin Opened
    BY <1>11, <2>2 DEF told, Unopened, Told, NoCall
  <2> QED BY <2>1, <2>2
<1>13. h2 = StartOnce(h1, key)
  <2>1. h2 = StartOnce([g EXCEPT !.calls[key].label = AppendStreamValue(g.calls[key].label, SubSeq(Label(round, i), delta.from, delta.to)),
                                 !.calls[key].args = g.calls[key].args \o delta.args], key)
    BY DEF HearCall, ChatAdd
  <2> QED BY <1>7, <1>12, <2>1 DEF args
<1> HIDE DEF g, h1, h2, s2, now, key, i
<1>14. /\ HeardOK(h1) /\ SameTexts(g, h1) /\ SameNotes(g, h1) /\ h1.named = g.named /\ h1.order = g.order
       /\ Filled(g, h1, key, label, args)
  BY <1>6, <1>11, LabelledIs DEF h1
<1>15. key \in DOMAIN h1.calls /\ DOMAIN h1.calls = DOMAIN heard.calls \cup {key} /\ h1.calls[key].label = label /\ h1.calls[key].args = args
       /\ \A l \in DOMAIN heard.calls : l # key => h1.calls[l] = heard.calls[l]
  BY <1>11, <1>14 DEF Filled
<1>16. /\ HeardOK(h2) /\ SameTexts(h1, h2) /\ SameCalls(h1, h2) /\ h2.done = h1.done /\ h2.started = h1.started \cup {key}
       /\ key \in h1.started => h2 = h1
       /\ key \notin h1.started => h2.boundary = Append(h1.boundary, Boundary("call started", h1, key))
  <2>1. HeardOK(h1) /\ key \in Keys /\ key \in DOMAIN h1.calls
    BY <1>10, <1>14, <1>15
  <2> QED BY <1>13, <2>1, StartOnceIs
<1>17. h1.started = DOMAIN heard.calls /\ h1.done = heard.done /\ h1.boundary = heard.boundary /\ SameTexts(heard, h2)
  BY <1>2, <1>11, <1>14, <1>16 DEF SameNotes, SameTexts, BoundariesNoted
<1>18. Agree(round, "chat", i, now, h2.calls[key])
  <2>1. \E l \in 0..2 : now.label = SubSeq(Label(round, i), 1, l)
    BY <1>5, <1>8 DEF label
  <2>2. h2.calls[key].label = now.label /\ h2.calls[key].args = now.args
    BY <1>8, <1>15, <1>16 DEF SameCalls
  <2> QED BY <1>8, <2>1, <2>2 DEF Agree
<1>19. /\ DOMAIN h2.calls = DOMAIN heard.calls \cup {key} /\ \A l \in DOMAIN heard.calls : l # key => h2.calls[l] = heard.calls[l]
       /\ h2.named = heard.named /\ h2.order = g.order
  BY <1>11, <1>14, <1>15, <1>16 DEF SameCalls
<1>20. h2.order = IF i \in DOMAIN said.calls THEN heard.order ELSE Append(heard.order, key)
  BY <1>11, <1>19 DEF Opened
<1>21. TextHeard(s2, h2) /\ CallsHeard(round, "chat", s2, h2)
  <2>1. "chat" \in Formats
    BY DEF Formats
  <2>2. h2.named = IF now.named THEN heard.named \cup {i} ELSE heard.named
    BY <1>8, <1>19
  <2>3. Taken("chat", said, heard, h2, i, now, key)
    BY <1>19, <1>20, <2>2 DEF Taken
  <2> QED BY <1>9, <1>10, <1>16, <1>17, <1>18, <2>1, <2>3, CallTold
<1>22. BoundariesNoted(round, "chat", s2, h2)
  <2>1. "chat" \in Formats
    BY DEF Formats
  <2>2. CASE i \in Opened
    <3>1. key \in h1.started /\ h2 = h1 /\ SameNotes(heard, h2) /\ DOMAIN h2.calls = DOMAIN heard.calls
      <4>1. key \in DOMAIN heard.calls
        BY <1>10, <2>2
      <4>2. key \in h1.started /\ h2 = h1
        BY <1>16, <1>17, <4>1
      <4>3. SameNotes(heard, h1)
        BY <1>2, <1>17 DEF SameNotes, BoundariesNoted
      <4> QED BY <1>19, <4>1, <4>2, <4>3
    <3> QED BY <1>9, <2>1, <2>2, <3>1, NotesStay DEF Opened
  <2>3. CASE i \notin Opened
    <3> DEFINE e == Boundary("call started", h1, key)
    <3>1. e \in Notes /\ IsStart(e, i)
      BY <1>10, <1>14, <1>15, BoundaryIs DEF IsStart
    <3>2. h2.boundary = Append(heard.boundary, e) /\ h2.done = heard.done /\ h2.started = DOMAIN h2.calls
      BY <1>10, <1>16, <1>17, <1>19, <2>3
    <3> HIDE DEF e
    <3> QED BY <1>9, <1>19, <2>1, <2>3, <3>1, <3>2, NotesOpen DEF Opened
  <2> QED BY <2>2, <2>3
<1>23. SaidOK(s2) /\ s2.text = said.text /\ s2.finished = said.finished
  BY <1>9 DEF Retold
<1> QED BY <1>16, <1>17, <1>21, <1>22, <1>23 DEF Hears, s2, h2

\* An item of a response: a new call, or the rest of one.
LEMMA ResponsesKeyIs ==
  ASSUME NEW r, Hears(r, "responses", said, heard), NEW i \in Opened, NEW named \in {FALSE, said.calls[i].named}
  PROVE  /\ ResponsesKey(heard, i, named) = KeyOf(said, i) /\ KeyOf(said, i) \in DOMAIN heard.calls /\ KeyOf(said, i) \in Keys
         /\ ResponsesEnsured(heard, i, named) = heard
<1> DEFINE key == ResponsesKey(heard, i, named)
<1>1. SaidOK(said) /\ HeardOK(heard) /\ CallsHeard(r, "responses", said, heard) /\ i \in DOMAIN said.calls
  BY DEF Hears, Opened
<1>2. i \in heard.named <=> said.calls[i].named = TRUE
  BY <1>1 DEF CallsHeard
<1>3. said.calls[i] \in Tellings /\ KeyOf(said, i) \in Keys
  BY <1>1, SaidCalls
<1>4. said.calls[i].named \in BOOLEAN
  BY <1>3 DEF Tellings
<1>5. key = KeyOf(said, i)
  BY <1>2, <1>4 DEF ResponsesKey, KeyOf
<1>6. KeyOf(said, i) \in DOMAIN heard.calls
  BY <1>1 DEF CallsHeard
<1>7. [heard EXCEPT !.named = IF named THEN heard.named \cup {i} ELSE heard.named] = heard
  <2>1. (IF named THEN heard.named \cup {i} ELSE heard.named) = heard.named
    BY <1>2, <1>4
  <2>2. [heard EXCEPT !.named = heard.named] = heard
    BY <1>1 DEF HeardOK
  <2> QED BY <2>1, <2>2
<1>8. ResponsesEnsured(heard, i, named) = Ensured(heard, key)
  BY <1>7 DEF ResponsesEnsured
<1>9. Ensured(heard, key) = heard
  BY <1>1, <1>3, <1>5, <1>6, EnsuredIs
<1> QED BY <1>3, <1>5, <1>6, <1>8, <1>9

\* A frame that fills in an open call of a response and changes no boundary.
LEMMA ResponsesCallFilled ==
  ASSUME round \in Nat, Hears(round, "responses", said, heard), NEW i \in Opened, NEW args \in ArgTexts,
         NEW s2, s2 = [said EXCEPT !.calls[i].args = args],
         NEW h2, HeardOK(h2), SameTexts(heard, h2), SameNotes(heard, h2), h2.named = heard.named, h2.order = heard.order,
         Filled(heard, h2, KeyOf(said, i), said.calls[i].label, args)
  PROVE  Hears(round, "responses", s2, h2)
<1> DEFINE now == [said.calls[i] EXCEPT !.args = args]
           key == KeyOf(said, i)
<1>1. SaidOK(said) /\ HeardOK(heard) /\ CallsHeard(round, "responses", said, heard) /\ i \in DOMAIN said.calls
  BY DEF Hears, Opened
<1>2. said.calls[i] \in Tellings /\ key \in DOMAIN heard.calls
  BY <1>1, SaidCalls DEF CallsHeard
<1>3. /\ now \in Tellings /\ now.named = said.calls[i].named /\ now.label = said.calls[i].label /\ now.args = args
      /\ now.stopped = said.calls[i].stopped
  BY <1>2 DEF Tellings
<1>4. s2 = [said EXCEPT !.calls = [said.calls EXCEPT ![i] = now]]
  BY <1>1 DEF SaidOK
<1> HIDE DEF now, key
<1>5. Retold(said, s2, i, now)
  BY <1>1, <1>3, <1>4, RetoldOpen
<1>6. key = KeyOf(s2, i)
  BY <1>1, <1>5, KeysKept DEF key
<1>7. Taken("responses", said, heard, h2, i, now, key)
  <2>1. i \in heard.named <=> now.named = TRUE
    BY <1>1, <1>3 DEF CallsHeard
  <2>2. now.named \in BOOLEAN
    BY <1>3 DEF Tellings
  <2>3. h2.named = IF now.named THEN heard.named \cup {i} ELSE heard.named
    BY <2>1, <2>2
  <2> QED BY <1>1, <2>3 DEF Taken, Filled, key
<1>8. Agree(round, "responses", i, now, h2.calls[key])
  <2>1. Agree(round, "responses", i, said.calls[i], heard.calls[key])
    BY <1>1 DEF CallsHeard, key
  <2>2. h2.calls[key].label = now.label /\ h2.calls[key].args = now.args
    BY <1>3 DEF Filled, key
  <2> QED BY <1>3, <2>1, <2>2 DEF Agree
<1>9. "responses" \in Formats
  BY DEF Formats
<1>10. TextHeard(s2, h2) /\ CallsHeard(round, "responses", s2, h2)
  BY <1>5, <1>6, <1>7, <1>8, <1>9, CallTold
<1>11. DOMAIN h2.calls = DOMAIN heard.calls
  BY <1>2, <1>7 DEF Taken
<1>12. BoundariesNoted(round, "responses", s2, h2)
  BY <1>1, <1>5, <1>9, <1>11, NotesStay
<1> QED BY <1>5, <1>10, <1>12 DEF Hears, Retold

\* The end of an open call of a response, unless it was noted.
LEMMA ResponsesCallEnded ==
  ASSUME NEW r \in Nat, NEW s, NEW h, Hears(r, "responses", s, h), NEW i \in DOMAIN s.calls, NEW h2, h2 = DoneOnce(h, KeyOf(s, i))
  PROVE  Hears(r, "responses", s, h2)
<1> DEFINE now == s.calls[i]
           key == KeyOf(s, i)
<1>1. SaidOK(s) /\ HeardOK(h) /\ TextHeard(s, h) /\ CallsHeard(r, "responses", s, h)
      /\ BoundariesNoted(r, "responses", s, h)
  BY DEF Hears
<1>2. key \in DOMAIN h.calls /\ key \in Keys /\ key[1] = i
  BY <1>1, SaidCalls DEF CallsHeard
<1>3. /\ HeardOK(h2) /\ SameTexts(h, h2) /\ SameCalls(h, h2) /\ h2.started = h.started /\ h2.done = h.done \cup {key}
      /\ key \in h.done => h2 = h
      /\ key \notin h.done => h2.boundary = Append(h.boundary, Boundary("call done", h, key))
  BY <1>1, <1>2, DoneOnceIs
<1>4. TextHeard(s, h2) /\ CallsHeard(r, "responses", s, h2)
  BY <1>1, <1>3 DEF TextHeard, CallsHeard, SameTexts, SameCalls
<1>5. BoundariesNoted(r, "responses", s, h2)
  <2>1. CASE key \in h.done
    BY <1>1, <1>3, <2>1
  <2>2. CASE key \notin h.done
    <3> DEFINE e == Boundary("call done", h, key)
    <3>1. e \in Notes /\ IsDone(e, i) /\ e.label = h.calls[key].label
      BY <1>1, <1>2, BoundaryIs DEF IsDone
    <3>2. e.label = Label(r, i)
      <4>1. Agree(r, "responses", i, s.calls[i], h.calls[key])
        BY <1>1 DEF CallsHeard
      <4> QED BY <3>1, <4>1 DEF Agree
    <3>3. ~Finished("responses", s, h, i)
      BY <2>2 DEF Finished
    <3>4. Retold(s, s, i, now)
      <4>1. DOMAIN s.calls = DOMAIN s.calls \cup {i}
        BY <1>1
      <4> QED BY <1>1, <4>1 DEF Retold
    <3>5. h2.boundary = Append(h.boundary, e) /\ DOMAIN h2.calls = DOMAIN h.calls /\ h2.started = h.started
          /\ h2.done = h.done \cup {KeyOf(s, i)}
      BY <1>3, <2>2 DEF SameCalls
    <3>6. "responses" \in Formats /\ "responses" # "anthropic"
      BY DEF Formats
    <3> HIDE DEF e, now, key
    <3> QED BY <1>1, <3>1, <3>2, <3>3, <3>4, <3>5, <3>6, NotesEnd
  <2> QED BY <2>1, <2>2
<1> QED BY <1>1, <1>3, <1>4, <1>5 DEF Hears

LEMMA WholeLabel ==
  ASSUME NEW r \in Nat, NEW i \in Calls
  PROVE  /\ AppendStreamValue(<<>>, Label(r, i)) = Label(r, i)
         /\ AppendStreamValue(Label(r, i), Label(r, i)) = Label(r, i)
<1> DEFINE L == Label(r, i)
           S == Nat \X Nat \X Nat
<1>1. L \in Seq(S) /\ Len(L) = 2 /\ L[1] # L[2] /\ SubSeq(L, 1, 2) = L
  BY LabelIs DEF Labels
<1> HIDE DEF L, S
<1>2. SubSeq(L, 1, 0) = <<>>
  BY <1>1
<1>3. AppendStreamValue(SubSeq(L, 1, 0), SubSeq(L, 1, 2)) = SubSeq(L, 1, 2)
  <2>1. 0 \in 0..2 /\ 2 \in 0..2 /\ 1 \in {1, 0 + 1}
    OBVIOUS
  <2> QED BY <1>1, <2>1, Assembles
<1>4. AppendStreamValue(SubSeq(L, 1, 2), SubSeq(L, 1, 2)) = SubSeq(L, 1, 2)
  <2>1. 2 \in 0..2 /\ 2 \in 2..2 /\ 1 \in {1, 2 + 1}
    OBVIOUS
  <2> QED BY <1>1, <2>1, Assembles
<1> QED BY <1>1, <1>2, <1>3, <1>4 DEF L

LEMMA ResponsesItemHeard ==
  ASSUME round \in Nat, Hears(round, "responses", said, heard), ResponsesItem
  PROVE  Hears(round, "responses", said', heard') /\ said'.text = said.text /\ outbox' = <<>>
<1>1. SaidOK(said) /\ HeardOK(heard) /\ CallsHeard(round, "responses", said, heard) /\ BoundariesNoted(round, "responses", said, heard)
  BY DEF Hears
<1>2. ASSUME NEW i \in Calls, NEW named \in BOOLEAN, NEW args \in {NoArguments, Arguments}, Opens(i),
             said' = [said EXCEPT !.calls = Append(@, Told(Label(round, i), args, named))],
             heard' = AddItem(heard, i, named, Label(round, i), args)
      PROVE  Hears(round, "responses", said', heard') /\ said'.text = said.text
  <2> DEFINE label == Label(round, i)
             now == Told(label, args, named)
             key == ResponsesKey(heard, i, named)
             h0 == [heard EXCEPT !.named = IF named THEN heard.named \cup {i} ELSE heard.named]
             g == Ensured(h0, key)
             h1 == [g EXCEPT !.calls[key].label = label, !.calls[key].args = args]
  <2>1. label \in Labels /\ args \in ArgTexts /\ now \in Tellings /\ now.named = named /\ now.label = label /\ now.args = args /\ now.stopped = FALSE
    BY <1>2, LabelIs DEF Told, Tellings, ArgTexts
  <2>2. Retold(said, said', i, now) /\ i \notin DOMAIN said.calls
    <3>1. said' = [said EXCEPT !.calls = Append(said.calls, now)]
      BY <1>2
    <3>2. i = Len(said.calls) + 1 /\ i <= MaxCalls
      BY <1>2 DEF Opens
    <3> HIDE DEF now
    <3> QED BY <1>1, <2>1, <3>1, <3>2, RetoldNew
  <2>3. key = KeyOf(said', i) /\ key \in Keys /\ key[1] = i /\ key \notin DOMAIN heard.calls
    <3>1. i \notin heard.named
      BY <1>1, <2>2 DEF CallsHeard
    <3>2. said'.calls[i] = now
      BY <2>2 DEF Retold
    <3>3. key = KeyOf(said', i)
      BY <2>1, <3>1, <3>2 DEF ResponsesKey, KeyOf
    <3>4. KeyOf(said', i) \in Keys /\ KeyOf(said', i)[1] = i /\ KeyOf(said', i) \notin {KeyOf(said, j) : j \in DOMAIN said.calls}
      BY <1>1, <2>2, KeysKept
    <3> QED BY <1>1, <3>3, <3>4 DEF CallsHeard
  <2>4. /\ HeardOK(h0) /\ h0.named = (IF named THEN heard.named \cup {i} ELSE heard.named) /\ SameTexts(heard, h0) /\ SameNotes(heard, h0)
        /\ h0.calls = heard.calls /\ h0.order = heard.order
    BY <1>1 DEF HeardOK, SameTexts, SameNotes
  <2>5. heard' = StartOnce([g EXCEPT !.calls[key].label = AppendStreamValue(g.calls[key].label, label),
                                     !.calls[key].args = IF args = NoArguments THEN g.calls[key].args ELSE args], key)
    BY <1>2 DEF AddItem, ResponsesEnsured
  <2> HIDE DEF label, now, key, h0
  <2>6. /\ HeardOK(g) /\ SameTexts(h0, g) /\ SameNotes(h0, g) /\ g.named = h0.named
        /\ DOMAIN g.calls = DOMAIN h0.calls \cup {key} /\ \A l \in DOMAIN h0.calls : g.calls[l] = h0.calls[l]
        /\ g.calls[key] = NoCall /\ g.order = Append(h0.order, key)
    BY <2>3, <2>4, EnsuredIs
  <2>7. heard' = StartOnce(h1, key)
    <3>1. AppendStreamValue(g.calls[key].label, label) = label
      BY <1>2, <2>6, WholeLabel DEF NoCall, label
    <3>2. (IF args = NoArguments THEN g.calls[key].args ELSE args) = args
      BY <2>6 DEF NoCall
    <3> HIDE DEF g
    <3> QED BY <2>5, <3>1, <3>2
  <2> HIDE DEF g, h1
  <2>8. /\ HeardOK(h1) /\ SameTexts(g, h1) /\ SameNotes(g, h1) /\ h1.named = g.named /\ h1.order = g.order
        /\ Filled(g, h1, key, label, args)
    <3>1. key \in DOMAIN g.calls
      BY <2>6
    <3> QED BY <2>1, <2>6, <3>1, LabelledIs DEF h1
  <2>9. key \in DOMAIN h1.calls /\ h1.calls[key].label = label /\ h1.calls[key].args = args /\ DOMAIN h1.calls = DOMAIN heard.calls \cup {key}
        /\ \A l \in DOMAIN heard.calls : l # key => h1.calls[l] = heard.calls[l]
    BY <2>4, <2>6, <2>8 DEF Filled
  <2>10. key \notin h1.started /\ h1.started = DOMAIN heard.calls /\ h1.done = heard.done /\ h1.boundary = heard.boundary
    BY <1>1, <2>3, <2>4, <2>6, <2>8 DEF SameNotes, BoundariesNoted
  <2> DEFINE e == Boundary("call started", h1, key)
  <2>11. /\ HeardOK(heard') /\ SameTexts(h1, heard') /\ SameCalls(h1, heard') /\ heard'.done = h1.done
         /\ heard'.started = h1.started \cup {key} /\ heard'.boundary = Append(h1.boundary, e)
    BY <2>3, <2>7, <2>8, <2>9, <2>10, StartOnceIs
  <2>12. e \in Notes /\ IsStart(e, i) /\ e.label = Label(round, i)
    <3>1. e \in Notes /\ e.type = "call started" /\ e.index = key[1] /\ e.label = h1.calls[key].label
      BY ZenonT(30), <2>3, <2>8, <2>9, BoundaryIs
    <3> QED BY <2>3, <2>9, <3>1 DEF IsStart, label
  <2> HIDE DEF e
  <2>13. "responses" \in Formats /\ "responses" # "anthropic"
    BY DEF Formats
  <2>14. Taken("responses", said, heard, heard', i, now, key)
    BY <2>1, <2>2, <2>4, <2>6, <2>8, <2>9, <2>11 DEF Taken, SameCalls
  <2>15. Agree(round, "responses", i, now, heard'.calls[key])
    BY <2>1, <2>9, <2>11 DEF Agree, SameCalls, label
  <2>16. SameTexts(heard, heard')
    BY <2>4, <2>6, <2>8, <2>11 DEF SameTexts
  <2>17. TextHeard(said', heard') /\ CallsHeard(round, "responses", said', heard')
    BY <2>2, <2>3, <2>11, <2>13, <2>14, <2>15, <2>16, CallTold
  <2>18. BoundariesNoted(round, "responses", said', heard')
    <3>1. heard'.boundary = Append(heard.boundary, e) /\ heard'.done = heard.done /\ heard'.started = DOMAIN heard'.calls
          /\ DOMAIN heard.calls \subseteq DOMAIN heard'.calls
      BY <2>9, <2>10, <2>11 DEF SameCalls
    <3> QED BY <2>2, <2>12, <2>13, <3>1, NotesOpen
  <2> QED BY <2>2, <2>11, <2>17, <2>18 DEF Hears, Retold
<1>3. ASSUME NEW i \in Opened, said' = [said EXCEPT !.calls[i].args = Arguments],
             heard' = AddItem(heard, i, said.calls[i].named, Label(round, i), Arguments)
      PROVE  Hears(round, "responses", said', heard') /\ said'.text = said.text
  <2> DEFINE label == Label(round, i)
             key == KeyOf(said, i)
             h1 == [heard EXCEPT !.calls[key].label = label, !.calls[key].args = Arguments]
  <2>1. /\ ResponsesKey(heard, i, said.calls[i].named) = key /\ key \in DOMAIN heard.calls /\ key \in Keys
        /\ ResponsesEnsured(heard, i, said.calls[i].named) = heard
    BY ResponsesKeyIs
  <2>2. Agree(round, "responses", i, said.calls[i], heard.calls[key]) /\ i \in Calls
    BY <1>1, SaidCalls DEF CallsHeard, Opened
  <2>3. heard.calls[key].label = label /\ said.calls[i].label = label /\ label \in Labels
    BY <2>2, LabelIs DEF Agree
  <2>4. AppendStreamValue(heard.calls[key].label, label) = label /\ Arguments # NoArguments
    <3>1. Arguments # NoArguments
      BY DEF Arguments, NoArguments
    <3> QED BY <2>2, <2>3, <3>1, WholeLabel
  <2>5. heard' = StartOnce([heard EXCEPT !.calls[key].label = AppendStreamValue(heard.calls[key].label, label),
                                         !.calls[key].args = IF Arguments = NoArguments THEN heard.calls[key].args ELSE Arguments], key)
    BY <1>3, <2>1 DEF AddItem
  <2> HIDE DEF label, key
  <2>6. heard' = StartOnce(h1, key)
    BY <2>4, <2>5
  <2>7. Arguments \in ArgTexts
    BY DEF ArgTexts
  <2> HIDE DEF h1
  <2>8. /\ HeardOK(h1) /\ SameTexts(heard, h1) /\ SameNotes(heard, h1) /\ h1.named = heard.named /\ h1.order = heard.order
        /\ Filled(heard, h1, key, label, Arguments)
    BY <1>1, <2>1, <2>3, <2>7, LabelledIs DEF h1
  <2>9. key \in h1.started /\ key \in DOMAIN h1.calls
    BY <1>1, <2>1, <2>8 DEF SameNotes, BoundariesNoted, Filled
  <2>10. heard' = h1
    BY <2>1, <2>6, <2>8, <2>9, StartOnceIs
  <2>11. Hears(round, "responses", said', heard')
    BY <1>3, <2>3, <2>7, <2>8, <2>10, ResponsesCallFilled DEF key
  <2> QED BY <1>1, <1>3, <2>11 DEF SaidOK
<1>4. outbox' = <<>>
  BY DEF ResponsesItem, Handle
<1> QED BY <1>2, <1>3, <1>4 DEF ResponsesItem, Handle

\* A piece of the arguments of a call, or all of them.
LEMMA ResponsesArgumentsHeard ==
  ASSUME round \in Nat, Hears(round, "responses", said, heard), ResponsesArguments
  PROVE  Hears(round, "responses", said', heard') /\ said'.text = said.text /\ outbox' = <<>>
<1>1. SaidOK(said) /\ HeardOK(heard) /\ CallsHeard(round, "responses", said, heard) /\ BoundariesNoted(round, "responses", said, heard)
  BY DEF Hears
<1>2. ASSUME NEW i \in Opened, NEW named \in {FALSE, said.calls[i].named}
      PROVE  /\ ResponsesKey(heard, i, named) = KeyOf(said, i) /\ KeyOf(said, i) \in DOMAIN heard.calls /\ KeyOf(said, i) \in Keys
             /\ ResponsesEnsured(heard, i, named) = heard
             /\ heard.calls[KeyOf(said, i)].label = said.calls[i].label /\ heard.calls[KeyOf(said, i)].args = said.calls[i].args
             /\ said.calls[i].args \in ArgTexts
  <2>1. Agree(round, "responses", i, said.calls[i], heard.calls[KeyOf(said, i)])
    BY <1>1 DEF CallsHeard, Opened
  <2>2. said.calls[i].args \in ArgTexts
    <3>1. said.calls[i] \in Tellings
      BY <1>1, SaidCalls DEF Opened
    <3> QED BY <3>1 DEF Tellings
  <2> QED BY <2>1, <2>2, ResponsesKeyIs DEF Agree
<1>3. ASSUME NEW i \in Opened, NEW args \in ArgTexts, NEW s2, s2 = [said EXCEPT !.calls[i].args = args],
             NEW h1, h1 = [heard EXCEPT !.calls[KeyOf(said, i)].args = args]
      PROVE  /\ Hears(round, "responses", s2, h1) /\ s2.text = said.text /\ i \in DOMAIN s2.calls /\ KeyOf(s2, i) = KeyOf(said, i)
             /\ KeyOf(said, i) \in h1.started /\ KeyOf(said, i) \in DOMAIN h1.calls
  <2> DEFINE key == KeyOf(said, i)
  <2>1. key \in DOMAIN heard.calls /\ heard.calls[key].label = said.calls[i].label
    BY <1>2
  <2> HIDE DEF key
  <2>2. /\ HeardOK(h1) /\ SameTexts(heard, h1) /\ SameNotes(heard, h1) /\ h1.named = heard.named /\ h1.order = heard.order
        /\ Filled(heard, h1, key, heard.calls[key].label, args)
    BY <1>1, <1>3, <2>1, ArgsIs DEF key
  <2>3. Hears(round, "responses", s2, h1)
    BY <1>3, <2>1, <2>2, ResponsesCallFilled DEF key
  <2>4. s2.text = said.text /\ DOMAIN s2.calls = DOMAIN said.calls /\ s2.calls[i].named = said.calls[i].named
    <3>1. said.calls[i] \in Tellings /\ i \in DOMAIN said.calls
      BY <1>1, SaidCalls DEF Opened
    <3>2. s2.text = said.text /\ s2.calls = [said.calls EXCEPT ![i] = [said.calls[i] EXCEPT !.args = args]]
      BY <1>1, <1>3 DEF SaidOK
    <3> QED BY <3>1, <3>2 DEF Tellings
  <2>5. key \in h1.started /\ key \in DOMAIN h1.calls
    BY <1>1, <2>1, <2>2 DEF SameNotes, BoundariesNoted, Filled
  <2> QED BY <2>3, <2>4, <2>5 DEF KeyOf, key, Opened
<1>4. ASSUME NEW i \in Opened, NEW named \in {FALSE, said.calls[i].named}, Rest(i) # <<>>,
             said' = [said EXCEPT !.calls[i].args = @ \o Rest(i)], heard' = AppendArguments(heard, i, named, Rest(i))
      PROVE  Hears(round, "responses", said', heard') /\ said'.text = said.text
  <2> DEFINE args == said.calls[i].args \o Rest(i)
             key == KeyOf(said, i)
  <2>1. args \in ArgTexts
    BY <1>2, PieceIs DEF Rest
  <2>2. said' = [said EXCEPT !.calls[i].args = args]
    BY <1>4
  <2>3. heard' = [heard EXCEPT !.calls[key].args = heard.calls[key].args \o Rest(i)]
    BY <1>2, <1>4 DEF AppendArguments
  <2>4. heard' = [heard EXCEPT !.calls[key].args = args]
    BY <1>2, <2>3
  <2> HIDE DEF args
  <2> QED BY <1>3, <2>1, <2>2, <2>4
<1>5. ASSUME NEW i \in Opened, NEW named \in {FALSE, said.calls[i].named},
             said' = [said EXCEPT !.calls[i].args = Arguments], heard' = SetArguments(heard, i, named, Arguments)
      PROVE  Hears(round, "responses", said', heard') /\ said'.text = said.text
  <2> DEFINE key == KeyOf(said, i)
             h1 == [heard EXCEPT !.calls[key].args = Arguments]
  <2>1. heard' = DoneOnce(StartOnce(h1, key), key)
    BY <1>2, <1>5 DEF SetArguments
  <2>2. Arguments \in ArgTexts /\ key \in Keys
    BY <1>2 DEF ArgTexts
  <2>3. Hears(round, "responses", said', h1) /\ said'.text = said.text /\ i \in DOMAIN said'.calls /\ KeyOf(said', i) = key
        /\ key \in h1.started /\ key \in DOMAIN h1.calls
    BY <1>3, <1>5, <2>2
  <2> HIDE DEF h1, key
  <2>4. StartOnce(h1, key) = h1
    BY <2>2, <2>3, StartOnceIs DEF Hears
  <2>5. Hears(round, "responses", said', heard')
    BY <2>1, <2>3, <2>4, ResponsesCallEnded
  <2> QED BY <2>3, <2>5
<1>6. outbox' = <<>>
  BY DEF ResponsesArguments, Handle
<1> QED BY <1>4, <1>5, <1>6 DEF ResponsesArguments, Handle

\* The start of a tool-use block.
LEMMA AnthropicStartHeard ==
  ASSUME round \in Nat, Hears(round, "anthropic", said, heard), AnthropicStart
  PROVE  Hears(round, "anthropic", said', heard') /\ said'.text = said.text /\ outbox' = <<>>
<1>1. SaidOK(said) /\ HeardOK(heard) /\ CallsHeard(round, "anthropic", said, heard) /\ BoundariesNoted(round, "anthropic", said, heard)
  BY DEF Hears
<1>2. ASSUME NEW i \in Calls, NEW input \in {NoArguments, Arguments}, Opens(i),
             said' = [said EXCEPT !.calls = Append(@, Told(Label(round, i), input, FALSE))],
             heard' = StartToolUse(heard, i, Label(round, i), input)
      PROVE  Hears(round, "anthropic", said', heard') /\ said'.text = said.text
  <2> DEFINE label == Label(round, i)
             now == Told(label, input, FALSE)
             key == <<i, "index">>
             call == [label |-> label, args |-> NoArguments, input |-> input]
             calls == With(heard.calls, key, call)
             g == [heard EXCEPT !.calls = calls]
             e == Boundary("call started", g, key)
  <2>1. label \in Labels /\ now \in Tellings /\ now.named = FALSE /\ now.label = label /\ now.args = input /\ now.stopped = FALSE
    BY <1>2, LabelIs DEF Told, Tellings, ArgTexts
  <2>2. Retold(said, said', i, now) /\ i \notin DOMAIN said.calls
    <3>1. said' = [said EXCEPT !.calls = Append(said.calls, now)]
      BY <1>2
    <3>2. i = Len(said.calls) + 1 /\ i <= MaxCalls
      BY <1>2 DEF Opens
    <3> HIDE DEF now
    <3> QED BY <1>1, <2>1, <3>1, <3>2, RetoldNew
  <2>3. key = KeyOf(said', i) /\ key \in Keys /\ key[1] = i /\ key \notin DOMAIN heard.calls
    <3>1. said'.calls[i] = now
      BY <2>2 DEF Retold
    <3>2. key = KeyOf(said', i)
      BY <2>1, <3>1 DEF KeyOf
    <3>3. KeyOf(said', i) \in Keys /\ KeyOf(said', i)[1] = i /\ KeyOf(said', i) \notin {KeyOf(said, j) : j \in DOMAIN said.calls}
      BY ZenonT(30), <1>1, <2>2, KeysKept
    <3> QED BY <1>1, <3>2, <3>3 DEF CallsHeard
  <2>4. call \in Assemblies
    BY <2>1 DEF Assemblies, ArgTexts
  <2>5. call.label = label /\ call.args = NoArguments /\ call.input = input
    OBVIOUS
  <2> HIDE DEF call, label, now, key
  <2>6. calls \in [DOMAIN heard.calls \cup {key} -> Assemblies] /\ calls[key] = call /\ \A k \in DOMAIN heard.calls : calls[k] = heard.calls[k]
    BY <1>1, <2>3, <2>4 DEF With, HeardOK
  <2>7. DOMAIN calls = DOMAIN heard.calls \cup {key}
    BY <2>6
  <2> HIDE DEF calls
  <2>8. HeardOK(g) /\ g.calls = calls /\ g.order = heard.order /\ SameTexts(heard, g) /\ SameNotes(heard, g) /\ g.named = heard.named
    BY <1>1, <2>6, <2>7 DEF HeardOK, SameTexts, SameNotes
  <2>9. heard' = [g EXCEPT !.boundary = Append(g.boundary, e)]
    BY <1>2 DEF StartToolUse, calls, call, label, key
  <2> HIDE DEF g
  <2>10. e \in Notes /\ IsStart(e, i) /\ e.label = Label(round, i)
    <3>1. key \in DOMAIN g.calls /\ g.calls[key].label = label
      BY <2>5, <2>6, <2>7, <2>8
    <3>2. e \in Notes /\ e.type = "call started" /\ e.index = key[1] /\ e.label = g.calls[key].label
      BY <2>3, <2>8, <3>1, BoundaryIs
    <3> QED BY <2>3, <3>1, <3>2 DEF IsStart, label
  <2> HIDE DEF e
  <2>11. heard'.boundary = Append(heard.boundary, e) /\ HeardOK(heard') /\ SameTexts(heard, heard') /\ SameCalls(g, heard')
    <3> DEFINE b == Append(g.boundary, e)
    <3>1. b \in Seq(Notes) /\ g.boundary = heard.boundary
      BY <2>8, <2>10 DEF HeardOK, SameNotes
    <3> HIDE DEF b
    <3>2. heard'.boundary = b /\ HeardOK(heard') /\ SameTexts(g, heard') /\ SameCalls(g, heard')
      BY <2>8, <2>9, <3>1 DEF HeardOK, SameTexts, SameCalls, b
    <3> QED BY <2>8, <3>1, <3>2 DEF SameTexts, b
  <2>12. Taken("anthropic", said, heard, heard', i, now, key)
    BY <2>1, <2>6, <2>7, <2>8, <2>11 DEF Taken, SameCalls
  <2>13. Agree(round, "anthropic", i, now, heard'.calls[key])
    <3>1. heard'.calls[key] = call
      BY <2>6, <2>8, <2>11 DEF SameCalls
    <3> QED BY <2>1, <2>5, <3>1 DEF Agree, label
  <2>14. "anthropic" \in Formats
    BY DEF Formats
  <2>15. TextHeard(said', heard') /\ CallsHeard(round, "anthropic", said', heard')
    BY <2>2, <2>3, <2>11, <2>12, <2>13, <2>14, CallTold
  <2>16. BoundariesNoted(round, "anthropic", said', heard')
    BY <2>1, <2>2, <2>10, <2>11, <2>14, NotesOpen
  <2> QED BY <2>2, <2>11, <2>15, <2>16 DEF Hears, Retold
<1>3. outbox' = <<>>
  BY DEF AnthropicStart, Handle
<1> QED BY <1>2, <1>3 DEF AnthropicStart, Handle

\* A piece of the input of an open block.
LEMMA AnthropicInputHeard ==
  ASSUME round \in Nat, Hears(round, "anthropic", said, heard), AnthropicInput
  PROVE  Hears(round, "anthropic", said', heard') /\ said'.text = said.text /\ outbox' = <<>>
<1>1. SaidOK(said) /\ HeardOK(heard) /\ CallsHeard(round, "anthropic", said, heard) /\ BoundariesNoted(round, "anthropic", said, heard)
  BY DEF Hears
<1>2. ASSUME NEW i \in Opened, Rest(i) # <<>>,
             said' = [said EXCEPT !.calls[i].args = @ \o Rest(i)], heard' = AppendPartialJSON(heard, i, Rest(i))
      PROVE  Hears(round, "anthropic", said', heard') /\ said'.text = said.text
  <2> DEFINE args == said.calls[i].args \o Rest(i)
             key == <<i, "index">>
             now == [said.calls[i] EXCEPT !.args = args]
  <2>1. said.calls[i] \in Tellings /\ i \in DOMAIN said.calls
    BY <1>1, SaidCalls DEF Opened
  <2>2. Agree(round, "anthropic", i, said.calls[i], heard.calls[KeyOf(said, i)])
    BY <1>1, <2>1 DEF CallsHeard
  <2>3. key = KeyOf(said, i) /\ key \in DOMAIN heard.calls
    <3>1. ~said.calls[i].named
      BY <2>2 DEF Agree
    <3>2. KeyOf(said, i) \in DOMAIN heard.calls
      BY <1>1, <2>1 DEF CallsHeard
    <3> QED BY <3>1, <3>2 DEF KeyOf
  <2>4. said.calls[i].args \in ArgTexts /\ said.calls[i].args # Arguments /\ args \in ArgTexts
    <3>1. said.calls[i].args \in ArgTexts
      BY <2>1 DEF Tellings
    <3> QED BY <1>2, <3>1, PieceIs DEF Rest
  <2>5. heard.calls[key].input = NoArguments /\ heard.calls[key].args = said.calls[i].args /\ heard.calls[key].label = said.calls[i].label
    BY <2>2, <2>3, <2>4 DEF Agree
  <2>6. heard' = [heard EXCEPT !.calls[key].args = args]
    <3>1. heard' = [heard EXCEPT !.calls[key].args = heard.calls[key].args \o Rest(i)]
      BY <1>2 DEF AppendPartialJSON
    <3> QED BY <2>5, <3>1
  <2>7. said' = [said EXCEPT !.calls = [said.calls EXCEPT ![i] = now]]
    BY <1>1, <1>2, <2>1 DEF SaidOK
  <2> HIDE DEF args, key
  <2>8. /\ now \in Tellings /\ now.named = said.calls[i].named /\ now.label = said.calls[i].label /\ now.args = args
        /\ now.stopped = said.calls[i].stopped
    BY <2>1, <2>4 DEF Tellings
  <2> HIDE DEF now
  <2>9. Retold(said, said', i, now)
    BY <1>1, <2>1, <2>7, <2>8, RetoldOpen
  <2>10. key = KeyOf(said', i)
    BY <1>1, <2>1, <2>3, <2>9, KeysKept
  <2>11. /\ HeardOK(heard') /\ SameTexts(heard, heard') /\ SameNotes(heard, heard') /\ heard'.named = heard.named /\ heard'.order = heard.order
         /\ Filled(heard, heard', key, heard.calls[key].label, args)
    BY <1>1, <2>3, <2>4, <2>6, ArgsIs
  <2>12. Taken("anthropic", said, heard, heard', i, now, key)
    <3>1. ~now.named
      BY <2>2, <2>8 DEF Agree
    <3> QED BY <2>11, <3>1 DEF Taken, Filled
  <2>13. Agree(round, "anthropic", i, now, heard'.calls[key])
    <3>1. heard'.calls[key].input = NoArguments /\ heard'.calls[key].args = args /\ heard'.calls[key].label = now.label
      BY <2>3, <2>5, <2>8, <2>11 DEF Filled
    <3> QED BY <2>2, <2>8, <3>1 DEF Agree
  <2>14. "anthropic" \in Formats
    BY DEF Formats
  <2>15. TextHeard(said', heard') /\ CallsHeard(round, "anthropic", said', heard')
    BY <2>9, <2>10, <2>11, <2>12, <2>13, <2>14, CallTold
  <2>16. DOMAIN heard'.calls = DOMAIN heard.calls
    BY <2>3, <2>11 DEF Filled
  <2>17. BoundariesNoted(round, "anthropic", said', heard')
    BY <2>1, <2>8, <2>9, <2>11, <2>14, <2>16, NotesStay
  <2> QED BY <2>9, <2>11, <2>15, <2>17 DEF Hears, Retold
<1>3. outbox' = <<>>
  BY DEF AnthropicInput, Handle
<1> QED BY <1>2, <1>3 DEF AnthropicInput, Handle

\* The end of a block.
LEMMA AnthropicStopHeard ==
  ASSUME round \in Nat, Hears(round, "anthropic", said, heard), AnthropicStop
  PROVE  Hears(round, "anthropic", said', heard') /\ said'.text = said.text /\ outbox' = <<>>
<1>1. SaidOK(said) /\ HeardOK(heard) /\ CallsHeard(round, "anthropic", said, heard) /\ BoundariesNoted(round, "anthropic", said, heard)
  BY DEF Hears
<1>2. ASSUME NEW i \in Opened, ~said.calls[i].stopped,
             said' = [said EXCEPT !.calls[i].stopped = TRUE], heard' = StopToolUse(heard, i)
      PROVE  Hears(round, "anthropic", said', heard') /\ said'.text = said.text
  <2> DEFINE key == <<i, "index">>
             now == [said.calls[i] EXCEPT !.stopped = TRUE]
             e == Boundary("call done", heard, key)
             b == Append(heard.boundary, e)
  <2>1. said.calls[i] \in Tellings /\ i \in DOMAIN said.calls /\ KeyOf(said, i) \in Keys /\ KeyOf(said, i)[1] = i
    BY <1>1, SaidCalls DEF Opened
  <2>2. Agree(round, "anthropic", i, said.calls[i], heard.calls[KeyOf(said, i)])
    BY <1>1, <2>1 DEF CallsHeard
  <2>3. key = KeyOf(said, i) /\ key \in DOMAIN heard.calls
    <3>1. ~said.calls[i].named
      BY <2>2 DEF Agree
    <3>2. KeyOf(said, i) \in DOMAIN heard.calls
      BY <1>1, <2>1 DEF CallsHeard
    <3> QED BY <3>1, <3>2 DEF KeyOf
  <2>4. said' = [said EXCEPT !.calls = [said.calls EXCEPT ![i] = now]]
    BY <1>1, <1>2, <2>1 DEF SaidOK
  <2>5. heard' = [heard EXCEPT !.boundary = b]
    BY <1>2 DEF StopToolUse
  <2>6. /\ now \in Tellings /\ now.named = said.calls[i].named /\ now.label = said.calls[i].label /\ now.args = said.calls[i].args /\ now.stopped
    BY <2>1 DEF Tellings
  <2> HIDE DEF key, now
  <2>7. e \in Notes /\ IsDone(e, i) /\ e.label = Label(round, i)
    <3>1. e \in Notes /\ e.type = "call done" /\ e.index = key[1] /\ e.label = heard.calls[key].label
      BY <1>1, <2>1, <2>3, BoundaryIs
    <3> QED BY <2>1, <2>2, <2>3, <3>1 DEF Agree, IsDone
  <2> HIDE DEF e
  <2>8. b \in Seq(Notes)
    BY <1>1, <2>7 DEF HeardOK
  <2> HIDE DEF b
  <2>9. HeardOK(heard') /\ SameTexts(heard, heard') /\ SameCalls(heard, heard') /\ heard'.boundary = b
    BY <1>1, <2>5, <2>8 DEF HeardOK, SameTexts, SameCalls
  <2>10. Retold(said, said', i, now)
    BY <1>1, <2>1, <2>4, <2>6, RetoldOpen
  <2>11. key = KeyOf(said', i)
    BY <1>1, <2>1, <2>3, <2>10, KeysKept
  <2>12. Taken("anthropic", said, heard, heard', i, now, key)
    <3>1. ~now.named
      BY <2>2, <2>6 DEF Agree
    <3> QED BY <2>3, <2>9, <3>1 DEF Taken, SameCalls
  <2>13. Agree(round, "anthropic", i, now, heard'.calls[key])
    BY <2>2, <2>3, <2>6, <2>9 DEF Agree, SameCalls
  <2>14. "anthropic" \in Formats
    BY DEF Formats
  <2>15. TextHeard(said', heard') /\ CallsHeard(round, "anthropic", said', heard')
    BY <2>9, <2>10, <2>11, <2>12, <2>13, <2>14, CallTold
  <2>16. ~Finished("anthropic", said, heard, i) /\ heard'.boundary = Append(heard.boundary, e) /\ DOMAIN heard'.calls = DOMAIN heard.calls
    BY <1>2, <2>9 DEF Finished, SameCalls, b
  <2>17. BoundariesNoted(round, "anthropic", said', heard')
    BY <2>1, <2>6, <2>7, <2>10, <2>14, <2>16, NotesEnd
  <2> QED BY <2>9, <2>10, <2>15, <2>17 DEF Hears, Retold
<1>3. outbox' = <<>>
  BY DEF AnthropicStop, Handle
<1> QED BY <1>2, <1>3 DEF AnthropicStop, Handle

----------------------------------------------------------------------------
(* Frames that bring text.                                                 *)

\* Nothing about the calls changes.
LEMMA SameButText ==
  ASSUME NEW r, NEW f, NEW s, NEW h, Hears(r, f, s, h), NEW s2, SaidOK(s2), s2.calls = s.calls,
         NEW h2, HeardOK(h2), SameCalls(h, h2), SameNotes(h, h2), TextHeard(s2, h2)
  PROVE  Hears(r, f, s2, h2)
<1>1. CallsHeard(r, f, s, h) /\ BoundariesNoted(r, f, s, h)
  BY DEF Hears
<1>2. \A i : KeyOf(s2, i) = KeyOf(s, i)
  BY DEF KeyOf
<1>3. CallsHeard(r, f, s2, h2)
  BY <1>1, <1>2 DEF CallsHeard, SameCalls
<1>4. \A i : Finished(f, s2, h2, i) = Finished(f, s, h, i)
  BY <1>2 DEF Finished, SameNotes
<1>5. BoundariesNoted(r, f, s2, h2)
  BY <1>1, <1>4 DEF BoundariesNoted, SameCalls, SameNotes
<1> QED BY <1>3, <1>5 DEF Hears

LEMMA TextAdded ==
  ASSUME NEW r, NEW f, NEW s, NEW h, Hears(r, f, s, h), h.final = <<>>, NEW token \in Nat
  PROVE  /\ Hears(r, f, [s EXCEPT !.text = Append(@, token)], [h EXCEPT !.text = Append(@, token)])
         /\ [s EXCEPT !.text = Append(@, token)].text = Append(s.text, token)
<1> DEFINE text == Append(s.text, token)
           s2 == [s EXCEPT !.text = text]
           h2 == [h EXCEPT !.text = text]
<1>1. SaidOK(s) /\ HeardOK(h) /\ TextHeard(s, h)
  BY DEF Hears
<1>2. text \in Seq(Nat) /\ h.text = s.text
  BY <1>1 DEF SaidOK, TextHeard
<1> HIDE DEF text
<1>3. SaidOK(s2) /\ s2.calls = s.calls /\ s2.text = text
  BY <1>1, <1>2 DEF SaidOK
<1>4. HeardOK(h2) /\ SameCalls(h, h2) /\ SameNotes(h, h2) /\ h2.text = text /\ h2.final = <<>>
  BY <1>1, <1>2 DEF HeardOK, SameCalls, SameNotes
<1> HIDE DEF s2, h2
<1>5. TextHeard(s2, h2)
  BY <1>3, <1>4 DEF TextHeard
<1>6. Hears(r, f, s2, h2)
  BY <1>3, <1>4, <1>5, SameButText
<1>7. s2 = [s EXCEPT !.text = Append(@, token)] /\ h2 = [h EXCEPT !.text = Append(@, token)]
  BY <1>2 DEF s2, h2, text
<1> QED BY <1>3, <1>6, <1>7 DEF text

\* A provider that has finished its answer has left the text complete.
LEMMA TextFinished ==
  ASSUME NEW r, NEW f, NEW s, NEW h, Hears(r, f, s, h), NEW final \in {<<>>, s.text}, ~s.finished
  PROVE  Hears(r, f, [s EXCEPT !.finished = TRUE], [h EXCEPT !.final = final])
<1> DEFINE s2 == [s EXCEPT !.finished = TRUE]
           h2 == [h EXCEPT !.final = final]
<1>1. SaidOK(s) /\ HeardOK(h) /\ TextHeard(s, h)
  BY DEF Hears
<1>2. final \in Seq(Nat)
  <2>1. s.text \in Seq(Nat) /\ <<>> \in Seq(Nat)
    BY <1>1 DEF SaidOK
  <2> QED BY <2>1
<1>3. SaidOK(s2) /\ s2.calls = s.calls /\ s2.text = s.text /\ s2.finished
  BY <1>1 DEF SaidOK
<1>4. HeardOK(h2) /\ SameCalls(h, h2) /\ SameNotes(h, h2) /\ h2.text = h.text /\ h2.final = final
  BY <1>1, <1>2 DEF HeardOK, SameCalls, SameNotes
<1> HIDE DEF s2, h2
<1>5. TextHeard(s2, h2)
  BY <1>1, <1>3, <1>4 DEF TextHeard
<1>6. Hears(r, f, s2, h2)
  BY <1>3, <1>4, <1>5, SameButText
<1> QED BY <1>6 DEF s2, h2

\* The frame was a piece of the text.
LEMMA TextHeardMore ==
  ASSUME Hears(round, format, said, heard), MoreText, said' = Spoken(said), heard' = [heard EXCEPT !.text = Append(@, Token)]
  PROVE  Hears(round, format, said', heard') /\ said'.text = Append(said.text, Token) /\ Token \in Nat
<1>1. heard.final = <<>> /\ SaidOK(said)
  BY DEF Hears, TextHeard, MoreText
<1>2. Token \in Nat
  BY <1>1 DEF SaidOK, Token
<1> DEFINE t == Token
           s2 == [said EXCEPT !.text = Append(@, t)]
           h2 == [heard EXCEPT !.text = Append(@, t)]
<1>3. said' = s2 /\ heard' = h2
  BY DEF Spoken
<1>4. t \in Nat
  BY <1>2
<1> HIDE DEF t
<1>5. Hears(round, format, s2, h2) /\ s2.text = Append(said.text, t)
  BY <1>1, <1>4, TextAdded
<1> QED BY <1>2, <1>3, <1>5 DEF t

LEMMA ThinkingHeard ==
  ASSUME Hears(round, format, said, heard), ResponsesThinking \/ AnthropicThinking
  PROVE  Hears(round, format, said', heard') /\ said'.text = said.text /\ outbox' = <<ThinkingEvent>>
<1>1. SaidOK(said) /\ HeardOK(heard) /\ TextHeard(said, heard)
  BY DEF Hears
<1>2. said' = [said EXCEPT !.thought = TRUE] /\ outbox' = <<ThinkingEvent>>
  BY DEF ResponsesThinking, AnthropicThinking, Handle
<1>3. SaidOK(said') /\ said'.calls = said.calls /\ said'.text = said.text /\ said'.finished = said.finished
  BY <1>1, <1>2 DEF SaidOK
<1>4. HeardOK(heard') /\ SameCalls(heard, heard') /\ SameNotes(heard, heard') /\ SameTexts(heard, heard')
  <2>1. CASE ResponsesThinking
    BY <1>1, <2>1 DEF ResponsesThinking, Handle, SameCalls, SameNotes, SameTexts
  <2>2. CASE AnthropicThinking
    <3>1. heard' = [heard EXCEPT !.thought = TRUE]
      BY <2>2 DEF AnthropicThinking, Handle
    <3> QED BY <1>1, <3>1 DEF HeardOK, SameCalls, SameNotes, SameTexts
  <2> QED BY <2>1, <2>2
<1>5. TextHeard(said', heard')
  BY <1>1, <1>3, <1>4 DEF TextHeard, SameTexts
<1>6. Hears(round, format, said', heard')
  BY <1>3, <1>4, <1>5, SameButText
<1> QED BY <1>2, <1>3, <1>6

LEMMA TextDoneHeard ==
  ASSUME Hears(round, format, said, heard), ResponsesTextDone
  PROVE  Hears(round, format, said', heard') /\ said'.text = said.text /\ outbox' = <<>>
<1> DEFINE text == said.text
<1>1. /\ ~said.finished /\ said' = [said EXCEPT !.finished = TRUE] /\ heard' = [heard EXCEPT !.final = text] /\ outbox' = <<>>
  BY DEF ResponsesTextDone, Handle
<1>2. text \in {<<>>, said.text}
  OBVIOUS
<1>3. said'.text = said.text
  BY <1>1 DEF Hears, SaidOK
<1> HIDE DEF text
<1>4. Hears(round, format, [said EXCEPT !.finished = TRUE], [heard EXCEPT !.final = text])
  BY <1>1, <1>2, TextFinished
<1> QED BY <1>1, <1>3, <1>4

----------------------------------------------------------------------------
(* The ends that are noted when the answer is over.                        *)

\* The boundaries t hold the end of call i, and nothing else of it, unless it is
\* finished already.
EndsIn(t, i, finished) ==
  IF finished THEN \A l \in DOMAIN t : t[l].index # i
  ELSE \E k \in DOMAIN t : IsDone(t[k], i) /\ \A l \in DOMAIN t : t[l].index = i => l = k

\* The ends of different calls, one for each place of I.
LEMMA EndsAt ==
  ASSUME NEW n \in Nat, NEW I, I \subseteq 1..n, NEW t \in Seq(Notes), Len(t) = Cardinality(I),
         NEW c, \A i \in I : IsDone(t[Rank(I, i)], c[i]), \A i, j \in I : c[i] = c[j] => i = j
  PROVE  /\ \A i \in I : EndsIn(t, c[i], FALSE)
         /\ \A j : j \notin {c[i] : i \in I} => EndsIn(t, j, TRUE)
         /\ \A l \in DOMAIN t : \E i \in I : l = Rank(I, i)
<1>1. DOMAIN t = 1..Cardinality(I)
  OBVIOUS
<1>2. \A i \in I : Rank(I, i) \in DOMAIN t /\ t[Rank(I, i)].index = c[i]
  BY <1>1, RankIs DEF IsDone
<1>3. \A l \in DOMAIN t : \E i \in I : l = Rank(I, i)
  BY <1>1, RankIs
<1>4. ASSUME NEW i \in I PROVE EndsIn(t, c[i], FALSE)
  <2>1. ASSUME NEW l \in DOMAIN t, t[l].index = c[i] PROVE l = Rank(I, i)
    <3>1. PICK j \in I : l = Rank(I, j)
      BY <1>3
    <3>2. c[j] = c[i]
      BY <1>2, <2>1, <3>1
    <3> QED BY <3>1, <3>2
  <2> QED BY <1>2, <2>1 DEF EndsIn
<1>5. ASSUME NEW j, j \notin {c[i] : i \in I} PROVE EndsIn(t, j, TRUE)
  <2>1. \A l \in DOMAIN t : t[l].index # j
    BY <1>2, <1>3, <1>5
  <2> QED BY <2>1 DEF EndsIn
<1> QED BY <1>3, <1>4, <1>5

\* The boundaries t hold the ends of all calls that are not finished.
EndsCalls(r, f, s, h, t) ==
  /\ \A i \in DOMAIN s.calls : EndsIn(t, i, KeyOf(s, i) \in h.done)
  /\ \A l \in DOMAIN t : t[l].index \in DOMAIN s.calls /\ (f # "chat" => t[l].label = Label(r, t[l].index))

LEMMA CallsEnded ==
  ASSUME NEW r, NEW f, f # "anthropic", NEW s, NEW h, Hears(r, f, s, h), NEW h2, HeardOK(h2), SameCalls(h, h2), SameTexts(h, h2),
         h2.started = h.started, h2.done = DOMAIN h.calls, NEW t \in Seq(Notes), h2.boundary = h.boundary \o t,
         EndsCalls(r, f, s, h, t)
  PROVE  Hears(r, f, s, h2) /\ \A i \in DOMAIN s.calls : Noted(h2.boundary, i, TRUE)
<1>1. SaidOK(s) /\ HeardOK(h) /\ TextHeard(s, h) /\ CallsHeard(r, f, s, h) /\ BoundariesNoted(r, f, s, h)
  BY DEF Hears
<1>0. /\ \A i \in DOMAIN s.calls : EndsIn(t, i, KeyOf(s, i) \in h.done)
      /\ \A l \in DOMAIN t : t[l].index \in DOMAIN s.calls /\ (f # "chat" => t[l].label = Label(r, t[l].index))
  BY DEF EndsCalls
<1>2. h.boundary \in Seq(Notes) /\ Listed(h.boundary) /\ Listed(t)
  BY <1>1, InListed DEF HeardOK
<1>3. TextHeard(s, h2) /\ CallsHeard(r, f, s, h2)
  BY <1>1 DEF TextHeard, CallsHeard, SameTexts, SameCalls
<1>4. \A i \in DOMAIN s.calls : Finished(f, s, h2, i)
  BY <1>1 DEF Finished, CallsHeard
<1>5. ASSUME NEW i \in DOMAIN s.calls PROVE Noted(h2.boundary, i, TRUE)
  <2>1. CASE KeyOf(s, i) \in h.done
    <3>1. Noted(h.boundary, i, TRUE)
      BY <1>1, <2>1 DEF BoundariesNoted, Finished, Noted
    <3>2. \A l \in DOMAIN t : t[l].index # i
      BY <1>0, <2>1 DEF EndsIn
    <3> QED BY <1>2, <3>1, <3>2, NoteOthers
  <2>2. CASE KeyOf(s, i) \notin h.done
    <3>1. Noted(h.boundary, i, FALSE)
      BY <1>1, <2>2 DEF BoundariesNoted, Finished, Noted
    <3>2. PICK k \in DOMAIN t : IsDone(t[k], i) /\ \A l \in DOMAIN t : t[l].index = i => l = k
      BY <1>0, <2>2 DEF EndsIn
    <3> QED BY <1>2, <3>1, <3>2, NoteEnd
  <2> QED BY <2>1, <2>2
<1>6. ASSUME NEW l \in DOMAIN h2.boundary PROVE (l \in DOMAIN h.boundary /\ h2.boundary[l] = h.boundary[l]) \/ \E k \in DOMAIN t : h2.boundary[l] = t[k]
  <2>1. ASSUME NEW k \in DOMAIN t, l = Len(h.boundary) + k PROVE h2.boundary[l] = t[k]
    BY <1>2, <2>1, Behind
  <2> QED BY <1>2, <2>1, Joined
<1>7. \A i \in Calls \ DOMAIN s.calls : Unnoted(h2.boundary, i)
  BY <1>0, <1>1, <1>6 DEF BoundariesNoted, Unnoted
<1>8. f # "chat" => \A l \in DOMAIN h2.boundary : h2.boundary[l].label = Label(r, h2.boundary[l].index)
  BY <1>0, <1>1, <1>6 DEF BoundariesNoted
<1>9. \A i \in DOMAIN s.calls : Noted(h2.boundary, i, Finished(f, s, h2, i))
  BY <1>4, <1>5 DEF Noted
<1>10. h2.started = DOMAIN h2.calls /\ h2.done \subseteq DOMAIN h2.calls
  BY <1>1 DEF BoundariesNoted, SameCalls
<1> QED BY <1>1, <1>3, <1>5, <1>7, <1>8, <1>9, <1>10 DEF BoundariesNoted, Hears

\* The keys of the calls, and the order in which they came.
LEMMA OrderIs ==
  ASSUME NEW r, NEW f, f # "anthropic", NEW s, NEW h, Hears(r, f, s, h)
  PROVE  /\ h.order \in Seq(Keys) /\ Len(h.order) = Len(s.calls) /\ Len(s.calls) \in Nat
         /\ DOMAIN h.order = 1..Len(s.calls) /\ DOMAIN s.calls = 1..Len(s.calls)
         /\ \A i \in DOMAIN s.calls : /\ h.order[i] = KeyOf(s, i) /\ KeyOf(s, i) \in DOMAIN h.calls /\ KeyOf(s, i) \in Keys /\ KeyOf(s, i)[1] = i
                                      /\ i \in Calls
         /\ Range(h.order) = DOMAIN h.calls
<1>1. SaidOK(s) /\ HeardOK(h) /\ CallsHeard(r, f, s, h)
  BY DEF Hears
<1>2. h.order \in Seq(Keys) /\ h.order = [i \in DOMAIN s.calls |-> KeyOf(s, i)] /\ DOMAIN h.calls = {KeyOf(s, i) : i \in DOMAIN s.calls}
  BY <1>1 DEF HeardOK, CallsHeard
<1>3. Len(s.calls) \in Nat /\ DOMAIN s.calls = 1..Len(s.calls) /\ \A i \in DOMAIN s.calls : KeyOf(s, i) \in Keys /\ KeyOf(s, i)[1] = i /\ i \in Calls
  BY <1>1, SaidCalls
<1>4. DOMAIN h.order = 1..Len(s.calls) /\ \A i \in DOMAIN s.calls : h.order[i] = KeyOf(s, i)
  BY <1>2, <1>3
<1>5. Len(h.order) = Len(s.calls)
  BY <1>2, <1>3, <1>4
<1>6. Range(h.order) = DOMAIN h.calls
  BY <1>2, <1>3, <1>4 DEF Range
<1> QED BY <1>2, <1>3, <1>4, <1>5, <1>6

\* The end of a chat completion notes the ends of the calls that are open.
LEMMA ChatEndsHeard ==
  ASSUME NEW r, NEW s, NEW h, Hears(r, "chat", s, h)
  PROVE  /\ Hears(r, "chat", s, ChatDoneEvents(h)) /\ SameTexts(h, ChatDoneEvents(h)) /\ SameCalls(h, ChatDoneEvents(h))
         /\ \A i \in DOMAIN s.calls : Noted(ChatDoneEvents(h).boundary, i, TRUE)
<1> DEFINE I == {i \in DOMAIN h.order : h.order[i] \notin h.done}
           late == Picked(h.order, I)
           t == [n \in DOMAIN late |-> Boundary("call done", h, late[n])]
           boundary == h.boundary \o t
           done == h.done \cup Range(h.order)
           h2 == [h EXCEPT !.done = done, !.boundary = boundary]
           c == [i \in I |-> i]
           n == Len(s.calls)
<1>1. HeardOK(h) /\ BoundariesNoted(r, "chat", s, h)
  BY DEF Hears
<1>2. /\ h.order \in Seq(Keys) /\ n \in Nat /\ DOMAIN h.order = 1..n /\ DOMAIN s.calls = 1..n /\ Range(h.order) = DOMAIN h.calls
      /\ \A i \in DOMAIN s.calls : /\ h.order[i] = KeyOf(s, i) /\ KeyOf(s, i) \in DOMAIN h.calls /\ KeyOf(s, i) \in Keys
                                   /\ KeyOf(s, i)[1] = i
  <2> DEFINE f == "chat"
  <2>1. f # "anthropic" /\ Hears(r, f, s, h)
    OBVIOUS
  <2> HIDE DEF f
  <2> QED BY <2>1, OrderIs
<1>3. I \subseteq 1..n /\ I \subseteq DOMAIN h.order /\ \A i \in DOMAIN s.calls : i \in I <=> KeyOf(s, i) \notin h.done
  BY <1>2
<1>4. h2 = ChatDoneEvents(h)
  BY DEF ChatDoneEvents
<1> HIDE DEF I, n
<1>5. late \in Seq(Keys) /\ Len(late) = Cardinality(I) /\ \A i \in I : late[Rank(I, i)] = h.order[i]
  <2> DEFINE o == h.order
  <2>1. o \in Seq(Keys) /\ I \subseteq DOMAIN o
    BY <1>2, <1>3
  <2> HIDE DEF o
  <2>2. /\ Picked(o, I) \in Seq(Keys) /\ Len(Picked(o, I)) = Cardinality(I)
        /\ \A i \in I : Picked(o, I)[Rank(I, i)] = o[i]
    BY <2>1, PickedIs
  <2> QED BY <2>2 DEF o
<1>6. Cardinality(I) \in Nat /\ (\A i \in I : Rank(I, i) \in 1..Cardinality(I)) /\ \A k \in 1..Cardinality(I) : \E i \in I : Rank(I, i) = k
  BY <1>2, <1>3, RankIs
<1> HIDE DEF late
<1>7. DOMAIN late = 1..Cardinality(I)
  BY <1>5
<1>8. ASSUME NEW i \in I
      PROVE  Rank(I, i) \in DOMAIN t /\ t[Rank(I, i)] \in Notes /\ IsDone(t[Rank(I, i)], i)
  <2>1. t[Rank(I, i)] = Boundary("call done", h, KeyOf(s, i)) /\ Rank(I, i) \in DOMAIN t
    BY <1>2, <1>3, <1>5, <1>6, <1>7
  <2>2. KeyOf(s, i) \in Keys /\ KeyOf(s, i) \in DOMAIN h.calls /\ KeyOf(s, i)[1] = i
    BY <1>2, <1>3
  <2> HIDE DEF t
  <2>3. Boundary("call done", h, KeyOf(s, i)) \in Notes /\ IsDone(Boundary("call done", h, KeyOf(s, i)), i)
    BY <1>1, <2>2, BoundaryIs DEF IsDone
  <2> QED BY <2>1, <2>3
<1>9. DOMAIN t = 1..Cardinality(I) /\ \A k \in 1..Cardinality(I) : t[k] \in Notes
  BY <1>6, <1>7, <1>8
<1>10. t = [k \in 1..Cardinality(I) |-> t[k]]
  BY <1>7
<1> HIDE DEF t
<1>11. t \in Seq(Notes) /\ Len(t) = Cardinality(I)
  <2>1. t \in [1..Cardinality(I) -> Notes]
    BY <1>9, <1>10
  <2> QED BY <1>6, <2>1
<1>12. (\A i \in I : IsDone(t[Rank(I, i)], c[i])) /\ (\A i, j \in I : c[i] = c[j] => i = j) /\ {c[i] : i \in I} = I
  BY <1>8
<1> HIDE DEF c
<1>13. /\ \A i \in I : EndsIn(t, c[i], FALSE)
       /\ \A j : j \notin {c[i] : i \in I} => EndsIn(t, j, TRUE)
       /\ \A l \in DOMAIN t : \E i \in I : l = Rank(I, i)
  BY ZenonT(30), <1>2, <1>3, <1>11, <1>12, EndsAt
<1>14. ASSUME NEW i \in DOMAIN s.calls PROVE EndsIn(t, i, KeyOf(s, i) \in h.done)
  <2>1. CASE i \in I
    <3>1. EndsIn(t, i, FALSE)
      BY <1>13, <2>1 DEF c
    <3> QED BY <1>3, <2>1, <3>1 DEF EndsIn
  <2>2. CASE i \notin I
    <3>1. EndsIn(t, i, TRUE)
      BY <1>12, <1>13, <2>2
    <3> QED BY <1>3, <2>2, <3>1 DEF EndsIn
  <2> QED BY <2>1, <2>2
<1>15. ASSUME NEW l \in DOMAIN t PROVE t[l].index \in DOMAIN s.calls
  <2>1. PICK i \in I : l = Rank(I, i)
    BY <1>13
  <2>2. i \in DOMAIN s.calls /\ t[l].index = i
    BY <1>2, <1>3, <1>8, <2>1 DEF IsDone
  <2> QED BY <2>2
<1>16. done = DOMAIN h.calls /\ done \in SUBSET Keys
  <2>1. h.done \subseteq DOMAIN h.calls
    BY <1>1 DEF BoundariesNoted
  <2>2. DOMAIN h.calls \subseteq Keys
    BY <1>2 DEF Range
  <2> QED BY <1>2, <2>1, <2>2
<1>17. boundary \in Seq(Notes)
  BY <1>1, <1>11 DEF HeardOK
<1> HIDE DEF done, boundary
<1>18. HeardOK(h2) /\ SameCalls(h, h2) /\ SameTexts(h, h2) /\ h2.started = h.started /\ h2.done = done /\ h2.boundary = boundary
  BY <1>1, <1>16, <1>17 DEF HeardOK, SameCalls, SameTexts
<1> HIDE DEF h2
<1>19. Hears(r, "chat", s, h2) /\ \A i \in DOMAIN s.calls : Noted(h2.boundary, i, TRUE)
  <2>1. h2.boundary = h.boundary \o t /\ h2.done = DOMAIN h.calls
    BY <1>16, <1>18 DEF boundary
  <2> DEFINE f == "chat"
  <2>2. f # "anthropic" /\ Hears(r, f, s, h) /\ EndsCalls(r, f, s, h, t)
    BY <1>14, <1>15 DEF EndsCalls
  <2> HIDE DEF f
  <2>3. Hears(r, f, s, h2) /\ \A i \in DOMAIN s.calls : Noted(h2.boundary, i, TRUE)
    BY <1>11, <1>18, <2>1, <2>2, CallsEnded
  <2> QED BY <2>3 DEF f
<1> QED BY <1>4, <1>18, <1>19

\* The end of a response notes the ends of the calls that are open; their starts are
\* noted already.
LEMMA ResponsesEndsHeard ==
  ASSUME NEW r, NEW s, NEW h, Hears(r, "responses", s, h)
  PROVE  /\ Hears(r, "responses", s, ResponsesDoneEvents(h)) /\ SameTexts(h, ResponsesDoneEvents(h)) /\ SameCalls(h, ResponsesDoneEvents(h))
         /\ \A i \in DOMAIN s.calls : Noted(ResponsesDoneEvents(h).boundary, i, TRUE)
<1> DEFINE n == Len(s.calls)
           N == 2 * Len(h.order)
           at(m) == h.order[(m + 1) \div 2]
           starts(m) == m % 2 = 1
           I == {m \in 1..N : at(m) \notin IF starts(m) THEN h.started ELSE h.done}
           events == [m \in 1..N |-> Boundary(IF starts(m) THEN "call started" ELSE "call done", h, at(m))]
           t == Picked(events, I)
           boundary == h.boundary \o t
           started == h.started \cup Range(h.order)
           done == h.done \cup Range(h.order)
           h2 == [h EXCEPT !.started = started, !.done = done, !.boundary = boundary]
           c == [m \in I |-> at(m)[1]]
<1>1. HeardOK(h) /\ BoundariesNoted(r, "responses", s, h) /\ CallsHeard(r, "responses", s, h)
  BY DEF Hears
<1>2. /\ h.order \in Seq(Keys) /\ Len(h.order) = n /\ n \in Nat /\ DOMAIN h.order = 1..n /\ DOMAIN s.calls = 1..n /\ Range(h.order) = DOMAIN h.calls
      /\ \A i \in DOMAIN s.calls : /\ h.order[i] = KeyOf(s, i) /\ KeyOf(s, i) \in DOMAIN h.calls /\ KeyOf(s, i) \in Keys
                                   /\ KeyOf(s, i)[1] = i
  <2> DEFINE f == "responses"
  <2>1. f # "anthropic" /\ Hears(r, f, s, h)
    OBVIOUS
  <2> HIDE DEF f
  <2> QED BY <2>1, OrderIs
<1>3. h2 = ResponsesDoneEvents(h)
  BY DEF ResponsesDoneEvents
<1>4. h.started = DOMAIN h.calls /\ h.done \subseteq DOMAIN h.calls
  BY <1>1 DEF BoundariesNoted
<1> HIDE DEF n
<1>5. ASSUME NEW m \in 1..N
      PROVE  /\ (m + 1) \div 2 \in 1..n /\ (~starts(m) => m = 2 * ((m + 1) \div 2))
  <2>1. m \in Nat /\ m >= 1 /\ m <= 2 * n
    BY <1>2
  <2>2. (m + 1) \div 2 \in Nat /\ (m + 1) \div 2 >= 1 /\ (m + 1) \div 2 <= n
    BY <1>2, <2>1
  <2>3. m % 2 # 1 => m = 2 * ((m + 1) \div 2)
    BY <2>1
  <2> QED BY <1>2, <2>2, <2>3
<1>6. ASSUME NEW i \in 1..n PROVE 2 * i \in 1..N /\ (2 * i + 1) \div 2 = i /\ ~starts(2 * i) /\ at(2 * i) = KeyOf(s, i)
  <2>1. 2 * i \in 1..N /\ (2 * i + 1) \div 2 = i /\ (2 * i) % 2 = 0
    BY <1>2
  <2> QED BY <1>2, <2>1
<1>7. ASSUME NEW m \in 1..N
      PROVE  LET i == (m + 1) \div 2 IN i \in 1..n /\ at(m) = KeyOf(s, i) /\ at(m) \in DOMAIN h.calls /\ at(m) \in Keys /\ at(m)[1] = i
  BY <1>2, <1>5
<1> HIDE DEF at
<1>8. ASSUME NEW m \in I PROVE m \in 1..N /\ ~starts(m) /\ at(m) \notin h.done
  BY <1>4, <1>7
<1>9. ASSUME NEW m \in 1..N PROVE events[m] \in Notes
  <2> DEFINE key == at(m)
             type == IF starts(m) THEN "call started" ELSE "call done"
  <2>1. key \in Keys /\ key \in DOMAIN h.calls
    BY <1>7
  <2>2. type \in {"call started", "call done"} /\ events[m] = Boundary(type, h, key)
    OBVIOUS
  <2> HIDE DEF key, type, events
  <2> QED BY <1>1, <2>1, <2>2, BoundaryIs
<1>10. ASSUME NEW m \in I PROVE IsDone(events[m], at(m)[1]) /\ events[m].label = Label(r, at(m)[1]) /\ at(m)[1] \in DOMAIN s.calls
  <2> DEFINE key == at(m)
             type == "call done"
             i == key[1]
  <2>1. m \in 1..N /\ ~starts(m)
    BY <1>8
  <2>2. key \in Keys /\ key \in DOMAIN h.calls /\ i \in DOMAIN s.calls /\ key = KeyOf(s, i)
    BY <1>2, <1>7, <2>1
  <2>3. type \in {"call started", "call done"} /\ events[m] = Boundary(type, h, key)
    BY <2>1
  <2>4. h.calls[key].label = Label(r, i)
    BY <1>1, <2>2 DEF CallsHeard, Agree
  <2> HIDE DEF events, i, key
  <2>5. events[m].type = type /\ events[m].index = i /\ events[m].label = Label(r, i)
    <3> HIDE DEF type
    <3>1. Boundary(type, h, key).type = type /\ Boundary(type, h, key).index = key[1] /\ Boundary(type, h, key).label = h.calls[key].label
      BY ZenonT(30), <1>1, <2>2, <2>3, BoundaryIs
    <3> QED BY <2>3, <2>4, <3>1 DEF i
  <2> QED BY <2>2, <2>5 DEF IsDone, i, key
<1>11. N \in Nat /\ I \subseteq 1..N /\ events \in Seq(Notes) /\ DOMAIN events = 1..N
  <2>1. N \in Nat
    BY <1>2
  <2>2. events \in [1..N -> Notes]
    BY <1>9
  <2> HIDE DEF events, N
  <2> QED BY <2>1, <2>2
<1>12. ASSUME NEW m \in I, NEW l \in I, at(m)[1] = at(l)[1] PROVE m = l
  <2>1. m = 2 * ((m + 1) \div 2) /\ l = 2 * ((l + 1) \div 2)
    BY <1>5, <1>8
  <2>2. at(m)[1] = (m + 1) \div 2 /\ at(l)[1] = (l + 1) \div 2
    BY <1>7, <1>8
  <2> QED BY <1>12, <2>1, <2>2
<1>13. ASSUME NEW i \in DOMAIN s.calls PROVE (i \in {at(m)[1] : m \in I}) = (KeyOf(s, i) \notin h.done)
  <2>1. CASE KeyOf(s, i) \in h.done
    <3>1. ASSUME NEW m \in I, at(m)[1] = i PROVE FALSE
      BY <1>7, <1>8, <2>1, <3>1
    <3> QED BY <2>1, <3>1
  <2>2. CASE KeyOf(s, i) \notin h.done
    <3> DEFINE m == 2 * i
    <3>1. m \in 1..N /\ ~starts(m) /\ at(m) = KeyOf(s, i) /\ at(m)[1] = i
      BY <1>2, <1>6
    <3> HIDE DEF m
    <3>2. m \in I
      BY <2>2, <3>1
    <3> QED BY <2>2, <3>1, <3>2
  <2> QED BY <2>1, <2>2
<1> HIDE DEF I, N, events
<1>14. t \in Seq(Notes) /\ Len(t) = Cardinality(I) /\ \A m \in I : t[Rank(I, m)] = events[m]
  BY ZenonT(30), <1>11, PickedIs
<1> HIDE DEF t
<1>15. (\A m \in I : IsDone(t[Rank(I, m)], c[m])) /\ (\A m, l \in I : c[m] = c[l] => m = l) /\ {c[m] : m \in I} = {at(m)[1] : m \in I}
  BY <1>10, <1>12, <1>14
<1> HIDE DEF c
<1>16. /\ \A m \in I : EndsIn(t, c[m], FALSE)
       /\ \A j : j \notin {c[m] : m \in I} => EndsIn(t, j, TRUE)
       /\ \A l \in DOMAIN t : \E m \in I : l = Rank(I, m)
  BY <1>11, <1>14, <1>15, EndsAt
<1>17. ASSUME NEW i \in DOMAIN s.calls PROVE EndsIn(t, i, KeyOf(s, i) \in h.done)
  <2>1. CASE i \in {c[m] : m \in I}
    <3>1. EndsIn(t, i, FALSE)
      BY <1>16, <2>1
    <3> QED BY <1>13, <1>15, <2>1, <3>1 DEF EndsIn
  <2>2. CASE i \notin {c[m] : m \in I}
    <3>1. EndsIn(t, i, TRUE)
      BY <1>16, <2>2
    <3> QED BY <1>13, <1>15, <2>2, <3>1 DEF EndsIn
  <2> QED BY <2>1, <2>2
<1>18. ASSUME NEW l \in DOMAIN t PROVE t[l].index \in DOMAIN s.calls /\ t[l].label = Label(r, t[l].index)
  <2>1. PICK m \in I : l = Rank(I, m)
    BY <1>16
  <2>2. t[l] = events[m]
    BY <1>14, <2>1
  <2> QED BY <1>10, <2>2 DEF IsDone
<1>19. started = h.started /\ done = DOMAIN h.calls /\ done \in SUBSET Keys /\ started \in SUBSET Keys
  <2>1. DOMAIN h.calls \subseteq Keys
    BY <1>2 DEF Range
  <2> QED BY <1>2, <1>4, <2>1
<1>20. boundary \in Seq(Notes)
  BY <1>1, <1>14 DEF HeardOK
<1> HIDE DEF started, done, boundary
<1>21. HeardOK(h2) /\ SameCalls(h, h2) /\ SameTexts(h, h2) /\ h2.started = started /\ h2.done = done /\ h2.boundary = boundary
  BY <1>1, <1>19, <1>20 DEF HeardOK, SameCalls, SameTexts
<1> HIDE DEF h2
<1>22. Hears(r, "responses", s, h2) /\ \A i \in DOMAIN s.calls : Noted(h2.boundary, i, TRUE)
  <2>1. h2.boundary = h.boundary \o t /\ h2.done = DOMAIN h.calls /\ h2.started = h.started
    BY <1>19, <1>21 DEF boundary
  <2> DEFINE f == "responses"
  <2>2. f # "anthropic" /\ Hears(r, f, s, h) /\ EndsCalls(r, f, s, h, t)
    BY <1>17, <1>18 DEF EndsCalls
  <2> HIDE DEF f
  <2>3. HeardOK(h2) /\ SameCalls(h, h2) /\ SameTexts(h, h2) /\ t \in Seq(Notes)
    BY <1>14, <1>21
  <2>4. Hears(r, f, s, h2) /\ \A i \in DOMAIN s.calls : Noted(h2.boundary, i, TRUE)
    BY <2>1, <2>2, <2>3, CallsEnded
  <2> QED BY <2>4 DEF f
<1> QED BY <1>3, <1>21, <1>22

----------------------------------------------------------------------------
(* Frames that end an answer.                                              *)

\* The boundaries b and the message m tell the whole answer s.
Announces(r, f, s, b, m) ==
  /\ b \in Seq(Notes) /\ Sound(m) /\ m.text = s.text /\ DOMAIN m.calls = DOMAIN s.calls /\ Counted(m.calls)
  /\ \A i \in DOMAIN s.calls :
       /\ m.calls[i] = ToolCall(Label(r, i), s.calls[i].args)
       /\ s.calls[i].args = Arguments \/ (f = "anthropic" /\ s.calls[i].args = NoArguments)
       /\ Noted(b, i, TRUE) /\ \A l \in DOMAIN b : b[l].index = i => b[l].label = Label(r, i)

\* A stream ends with an error, or with a whole answer.
Ends(r, f, s, events) ==
  events = <<ErrorEvent>> \/ \E b, m : events = b \o <<DoneEvent(m)>> /\ Announces(r, f, s, b, m)

LEMMA CallsCounted ==
  ASSUME NEW s, SaidOK(s), NEW calls, DOMAIN calls = DOMAIN s.calls
  PROVE  Counted(calls)
<1>1. DOMAIN s.calls = 1..Len(s.calls) /\ Len(s.calls) \in Nat
  BY DEF SaidOK
<1> QED BY <1>1 DEF Counted

LEMMA AssembledIs ==
  ASSUME NEW r, NEW f, f # "anthropic", NEW s, NEW h, Hears(r, f, s, h)
  PROVE  /\ DOMAIN Assembled(h) = DOMAIN s.calls
         /\ \A i \in DOMAIN s.calls : Assembled(h)[i] = ToolCall(s.calls[i].label, s.calls[i].args)
         /\ AllParse(Assembled(h)) => \A i \in DOMAIN s.calls : s.calls[i].args = Arguments
<1>0. Hears(r, f, s, h) /\ f # "anthropic"
  OBVIOUS
<1>1. /\ DOMAIN h.order = DOMAIN s.calls
      /\ \A i \in DOMAIN s.calls : h.order[i] = KeyOf(s, i)
  BY <1>0 DEF Hears, CallsHeard
<1>2. \A i \in DOMAIN s.calls : h.calls[KeyOf(s, i)].label = s.calls[i].label /\ h.calls[KeyOf(s, i)].args = s.calls[i].args
  BY <1>0 DEF Hears, CallsHeard, Agree
<1>3. DOMAIN Assembled(h) = DOMAIN s.calls /\ \A i \in DOMAIN s.calls : Assembled(h)[i] = ToolCall(s.calls[i].label, s.calls[i].args)
  BY <1>1, <1>2 DEF Assembled
<1>4. ASSUME AllParse(Assembled(h)), NEW i \in DOMAIN s.calls PROVE s.calls[i].args = Arguments
  <2>1. i \in DOMAIN Assembled(h) /\ Assembled(h)[i] = ToolCall(s.calls[i].label, s.calls[i].args)
    BY <1>3
  <2>2. Assembled(h)[i].args = Arguments
    BY <1>4, <2>1 DEF AllParse, Parses
  <2>3. Assembled(h)[i].args = s.calls[i].args
    BY <2>1 DEF ToolCall
  <2> QED BY <2>2, <2>3
<1> QED BY <1>3, <1>4

LEMMA ChatDoneTold ==
  ASSUME round \in Nat, Hears(round, "chat", said, heard), ChatDone
  PROVE  said' = said /\ Ends(round, "chat", said, outbox')
<1> DEFINE h == ChatDoneEvents(heard)
           b == FinalBoundaryEvents(h)
           g == [h EXCEPT !.boundary = b]
           m == Assistant(h.text, Assembled(h), NoRaw)
           f == "chat"
<1>1. /\ LabelsTold /\ said' = said
      /\ outbox' = IF AllParse(Assembled(h)) THEN Final(g, m) ELSE <<ErrorEvent>>
  BY DEF ChatDone, Handle
<1>2. Hears(round, f, said, h) /\ f # "anthropic" /\ \A i \in DOMAIN said.calls : Noted(h.boundary, i, TRUE)
  BY ChatEndsHeard
<1> HIDE DEF h
<1>3. HeardOK(h) /\ TextHeard(said, h) /\ CallsHeard(round, "chat", said, h) /\ SaidOK(said) /\ BoundariesNoted(round, "chat", said, h)
  BY <1>2 DEF Hears
<1>4. ASSUME NEW i \in DOMAIN said.calls PROVE said.calls[i].label = Label(round, i) /\ ~said.calls[i].named
  <2>1. Agree(round, "chat", i, said.calls[i], h.calls[KeyOf(said, i)]) /\ i \in Calls
    BY <1>3, SaidCalls DEF CallsHeard
  <2>2. PICK k \in 0..2 : said.calls[i].label = SubSeq(Label(round, i), 1, k)
    BY <2>1 DEF Agree
  <2>3. k = 2
    BY <1>1, <2>1, <2>2, LabelIs DEF LabelsTold, Opened
  <2> QED BY <2>1, <2>2, <2>3, LabelIs DEF Agree
<1>5. ASSUME NEW i \in DOMAIN said.calls PROVE h.calls[<<i, "index">>].label = Label(round, i)
  <2>1. KeyOf(said, i) = <<i, "index">>
    BY <1>4 DEF KeyOf
  <2> QED BY <1>3, <1>4, <2>1 DEF CallsHeard, Agree
<1>6. h.boundary \in Seq(Notes) /\ DOMAIN b = DOMAIN h.boundary /\ DOMAIN b = 1..Len(h.boundary)
  BY <1>3 DEF HeardOK, FinalBoundaryEvents
<1>7. ASSUME NEW l \in DOMAIN h.boundary
      PROVE  /\ h.boundary[l].index \in DOMAIN said.calls
             /\ b[l] \in Notes /\ b[l].type = h.boundary[l].type /\ b[l].index = h.boundary[l].index
             /\ b[l].label = Label(round, b[l].index)
  <2> DEFINE e == h.boundary[l]
             label == h.calls[<<e.index, "index">>].label
  <2>1. e \in Notes
    BY <1>6
  <2>2. b[l] = [e EXCEPT !.label = label]
    BY DEF FinalBoundaryEvents
  <2>3. e.index \in DOMAIN said.calls
    BY <1>3, <2>1 DEF BoundariesNoted, Unnoted, Notes
  <2>4. label = Label(round, e.index) /\ Label(round, e.index) \in Labels
    <3>1. e.index \in Calls
      BY <2>1 DEF Notes
    <3> QED BY <1>5, <2>3, <3>1, LabelIs
  <2> HIDE DEF b, e, label
  <2>5. b[l] \in Notes /\ b[l].type = e.type /\ b[l].index = e.index /\ b[l].label = label
    BY <2>1, <2>2, <2>4 DEF Notes
  <2> QED BY <2>3, <2>4, <2>5 DEF e
<1> HIDE DEF b
<1>8. b \in Seq(Notes)
  <2>1. b = [l \in DOMAIN h.boundary |-> b[l]]
    <3>1. b = FinalBoundaryEvents(h)
      BY DEF b
    <3> QED BY <3>1 DEF FinalBoundaryEvents
  <2>2. Len(h.boundary) \in Nat
    BY <1>6
  <2>3. b \in [1..Len(h.boundary) -> Notes]
    BY <1>6, <1>7, <2>1
  <2> QED BY <2>2, <2>3
<1>9. \A i \in DOMAIN said.calls : Noted(b, i, TRUE)
  BY <1>2, <1>6, <1>7, NoteLabels
<1>10. CASE ~AllParse(Assembled(h))
  BY <1>1, <1>10 DEF Ends
<1>11. CASE AllParse(Assembled(h))
  <2>1. g.boundary = b
    BY <1>3 DEF HeardOK
  <2>2. outbox' = b \o <<DoneEvent(m)>>
    BY <1>1, <1>11, <2>1 DEF Final
  <2>3. m.text = said.text /\ m.calls = Assembled(h) /\ Sound(m)
    BY <1>3 DEF Assistant, TextHeard, Sound, RawTells
  <2>4. /\ DOMAIN Assembled(h) = DOMAIN said.calls
        /\ \A i \in DOMAIN said.calls : Assembled(h)[i] = ToolCall(said.calls[i].label, said.calls[i].args)
        /\ \A i \in DOMAIN said.calls : said.calls[i].args = Arguments
    <3> HIDE DEF f
    <3> QED BY <1>2, <1>11, AssembledIs
  <2> HIDE DEF m
  <2>5. Counted(m.calls)
    BY <1>3, <2>3, <2>4, CallsCounted
  <2>6. Announces(round, "chat", said, b, m)
    BY <1>4, <1>6, <1>7, <1>8, <1>9, <2>3, <2>4, <2>5 DEF Announces
  <2> QED BY <1>1, <2>2, <2>6 DEF Ends
<1> QED BY <1>1, <1>10, <1>11

\* The items of a report name its calls, or a report without calls has texts alone.
ItemsSay(raw, c) ==
  \/ raw = NoRaw
  \/ raw.format = "responses" /\ c # <<>> /\ \E front \in Fronts : raw.items = front \o Uses(c)
  \/ raw.format = "responses" /\ raw.items \in Fronts

\* What response.completed can report: nothing to use, or the text and the calls c.
Reported(response, text, c) == response = {} \/ \E raw : ItemsSay(raw, c) /\ response = {Assistant(text, c, raw)}

\* A message has the text s, and the calls of the report, or else those of the stream.
Completes(s, h, response, c, m) ==
  /\ m.text = s.text /\ Sound(m)
  /\ response = {} \/ c = <<>> => AllParse(Assembled(h)) /\ m.calls = Assembled(h)
  /\ ~(response = {} \/ c = <<>>) => m.calls = c

LEMMA TextFront == \A text : TextItems(text) \in Fronts
<1>1. Text \in {Text, Thinking}
  OBVIOUS
<1>2. <<Text>> \in Fronts /\ <<>> \in Fronts
  BY <1>1 DEF Fronts
<1> QED BY <1>2 DEF TextItems

LEMMA RawIs ==
  ASSUME NEW f, NEW items
  PROVE  Raw(f, items) = NoRaw \/ (Raw(f, items).format = f /\ Raw(f, items).items = items)
BY DEF Raw

\* It reports all calls or none.
LEMMA ReportIs ==
  ASSUME NEW calls, AllParse(calls), NEW response \in Reports(calls)
  PROVE  Reported(response, said.text, <<>>) \/ Reported(response, said.text, calls)
<1>1. AllParse(<<>>)
  BY DEF AllParse
<1>2. CASE response = ResponsesResponse(TextItems(said.text) \o Uses(calls), said.text, calls, <<>>)
  <2> DEFINE raw == Raw("responses", TextItems(said.text) \o Uses(calls))
  <2>1. response = {} \/ response = {Assistant(said.text, calls, raw)}
    BY <1>2 DEF ResponsesResponse
  <2>2. raw = NoRaw \/ (raw.format = "responses" /\ raw.items = TextItems(said.text) \o Uses(calls))
    BY RawIs
  <2> HIDE DEF raw
  <2>3. TextItems(said.text) \in Fronts
    BY TextFront
  <2>4. calls = <<>> => TextItems(said.text) \o Uses(calls) = TextItems(said.text)
    <3>1. Uses(<<>>) = <<>>
      BY DEF Uses
    <3> QED BY <2>3, <3>1 DEF Fronts
  <2>5. ItemsSay(raw, calls)
    BY <2>2, <2>3, <2>4 DEF ItemsSay
  <2> QED BY <2>1, <2>5 DEF Reported
<1>3. CASE response = ResponsesResponse(TextItems(said.text), said.text, <<>>, <<>>)
  <2> DEFINE raw == Raw("responses", TextItems(said.text))
  <2>1. response = {} \/ response = {Assistant(said.text, <<>>, raw)}
    BY <1>1, <1>3 DEF ResponsesResponse
  <2>2. raw = NoRaw \/ (raw.format = "responses" /\ raw.items = TextItems(said.text))
    BY RawIs
  <2> HIDE DEF raw
  <2>3. ItemsSay(raw, <<>>)
    BY <2>2, TextFront DEF ItemsSay
  <2> QED BY <2>1, <2>3 DEF Reported
<1>4. CASE response = ResponsesResponse(<<>>, <<>>, <<>>, said.text)
  <2> DEFINE raw == Raw("responses", <<>>)
  <2>1. response = {} \/ response = {Assistant(said.text, <<>>, raw)}
    BY <1>1, <1>4 DEF ResponsesResponse
  <2>2. raw = NoRaw
    BY DEF Raw
  <2> HIDE DEF raw
  <2>3. ItemsSay(raw, <<>>)
    BY <2>2 DEF ItemsSay
  <2> QED BY <2>1, <2>3 DEF Reported
<1>5. CASE response = ResponsesResponse(<<>>, <<>>, <<>>, <<>>)
  BY <1>5 DEF ResponsesResponse, Reported
<1> QED BY <1>2, <1>3, <1>4, <1>5 DEF Reports

LEMMA CompletedIs ==
  ASSUME NEW r, NEW s, NEW h, Hears(r, "responses", s, h), NEW c,
         NEW response, Reported(response, s.text, c), NEW m \in Completed(h, response)
  PROVE  Completes(s, h, response, c, m)
<1>1. TextHeard(s, h)
  BY DEF Hears
<1> DEFINE text == IF h.final # <<>> THEN h.final ELSE h.text
           usable == IF AllParse(Assembled(h)) THEN Assembled(h) ELSE <<>>
<1>2. text = s.text /\ h.text = s.text
  BY <1>1 DEF TextHeard
<1>3. CASE response = {}
  <2>1. AllParse(Assembled(h))
    BY <1>3 DEF Completed
  <2>2. m = Assistant(text, usable, NoRaw)
    BY <1>3, <2>1 DEF Completed
  <2>3. Sound(m)
    BY <2>2 DEF Sound, RawTells, Assistant
  <2> QED BY <1>2, <1>3, <2>1, <2>2, <2>3 DEF Assistant, Completes
<1>4. ASSUME NEW raw, ItemsSay(raw, c), response = {Assistant(s.text, c, raw)}
      PROVE  Completes(s, h, response, c, m)
  <2> DEFINE a == Assistant(s.text, c, raw)
  <2>1. /\ a.text = s.text /\ a.calls = c /\ response = {a} /\ response # {}
        /\ a \in [role : {"assistant"}, text : {s.text}, calls : {c}, raw : {raw}]
    BY <1>4 DEF Assistant
  <2> HIDE DEF a
  <2>2. AllParse(Assembled(h)) \/ c # <<>>
    BY <2>1 DEF Completed
  <2>3. m = [a EXCEPT !.calls = IF c = <<>> THEN usable ELSE c, !.text = IF s.text = <<>> THEN h.text ELSE s.text]
    <3>1. m \in {[x EXCEPT !.calls = IF @ = <<>> THEN usable ELSE @, !.text = IF @ = <<>> THEN h.text ELSE @] : x \in response}
      BY <2>1, <2>2 DEF Completed
    <3> QED BY <2>1, <3>1
  <2>4. m.text = s.text /\ m.calls = (IF c = <<>> THEN usable ELSE c) /\ m.role = "assistant" /\ m.raw = raw
    BY <1>2, <2>1, <2>3
  <2> HIDE DEF usable
  <2>5. RawTells(raw, m.calls)
    BY <1>4, <2>4 DEF ItemsSay, RawTells
  <2>6. Sound(m)
    BY <2>4, <2>5 DEF Sound
  <2> QED BY <2>1, <2>2, <2>4, <2>6 DEF Completes, usable
<1> QED BY <1>3, <1>4 DEF Reported

LEMMA ResponsesTold ==
  ASSUME round \in Nat, Hears(round, "responses", said, heard), ResponsesCompleted
  PROVE  Ends(round, "responses", said', outbox')
<1> DEFINE h == ResponsesDoneEvents(heard)
           calls == [i \in Opened |-> ToolCall(said.calls[i].label, Arguments)]
           f == "responses"
<1>1. PICK response \in Reports(calls) :
        /\ said' = [said EXCEPT !.calls = [i \in DOMAIN said.calls |->
                      IF \E r \in response : r.calls # <<>> THEN [said.calls[i] EXCEPT !.args = Arguments] ELSE said.calls[i]]]
        /\ outbox' = IF Completed(h, response) = {} THEN <<ErrorEvent>> ELSE Final(h, CHOOSE m \in Completed(h, response) : TRUE)
  BY DEF ResponsesCompleted, Handle
<1>2. Hears(round, f, said, h) /\ f # "anthropic" /\ \A i \in DOMAIN said.calls : Noted(h.boundary, i, TRUE)
  BY ResponsesEndsHeard
<1> HIDE DEF h
<1>3. HeardOK(h) /\ CallsHeard(round, f, said, h) /\ SaidOK(said) /\ BoundariesNoted(round, f, said, h)
  BY <1>2 DEF Hears
<1>4. \A i \in DOMAIN said.calls : said.calls[i].label = Label(round, i) /\ said.calls[i] \in Tellings
  <2>1. \A i \in DOMAIN said.calls : said.calls[i] \in Tellings
    BY <1>3, SaidCalls
  <2> QED BY <1>3, <2>1 DEF CallsHeard, Agree
<1>5. AllParse(calls)
  BY DEF AllParse, Parses, ToolCall
<1>6. Reported(response, said.text, <<>>) \/ Reported(response, said.text, calls)
  <2> HIDE DEF calls
  <2> QED BY <1>5, ReportIs
<1>7. CASE Completed(h, response) = {}
  BY <1>1, <1>7 DEF Ends
<1>8. CASE Completed(h, response) # {}
  <2> DEFINE m == CHOOSE m \in Completed(h, response) : TRUE
             b == h.boundary
  <2>1. m \in Completed(h, response) /\ outbox' = b \o <<DoneEvent(m)>>
    BY <1>1, <1>8 DEF Final
  <2> HIDE DEF m
  <2>2. b \in Seq(Notes) /\ \A l \in DOMAIN b : b[l].label = Label(round, b[l].index)
    BY <1>3 DEF HeardOK, BoundariesNoted
  <2>3. /\ DOMAIN Assembled(h) = DOMAIN said.calls
        /\ \A i \in DOMAIN said.calls : Assembled(h)[i] = ToolCall(said.calls[i].label, said.calls[i].args)
        /\ AllParse(Assembled(h)) => \A i \in DOMAIN said.calls : said.calls[i].args = Arguments
    <3> HIDE DEF f
    <3> QED BY <1>2, AssembledIs
  <2>4. ASSUME Sound(m), m.text = said.text, m.calls = Assembled(h), AllParse(Assembled(h)), said'.calls = said.calls, said'.text = said.text
        PROVE  Announces(round, "responses", said', b, m)
    <3>1. Counted(m.calls)
      BY <1>3, <2>3, <2>4, CallsCounted
    <3> QED BY <1>2, <1>4, <2>2, <2>3, <2>4, <3>1 DEF Announces
  <2>5. ASSUME Sound(m), m.text = said.text, m.calls = calls, said'.text = said.text,
               said'.calls = [i \in DOMAIN said.calls |-> [said.calls[i] EXCEPT !.args = Arguments]]
        PROVE  Announces(round, "responses", said', b, m)
    <3>1. DOMAIN calls = DOMAIN said.calls /\ \A i \in DOMAIN said.calls : calls[i] = ToolCall(Label(round, i), Arguments)
      BY <1>4 DEF Opened
    <3>2. DOMAIN said'.calls = DOMAIN said.calls /\ \A i \in DOMAIN said.calls : said'.calls[i].args = Arguments
      BY <1>4, <2>5 DEF Tellings
    <3> HIDE DEF calls
    <3>3. Counted(m.calls)
      BY <1>3, <2>5, <3>1, CallsCounted
    <3> QED BY <1>2, <2>2, <2>5, <3>1, <3>2, <3>3 DEF Announces
  <2> DEFINE now == [i \in DOMAIN said.calls |->
                      IF \E r \in response : r.calls # <<>> THEN [said.calls[i] EXCEPT !.args = Arguments] ELSE said.calls[i]]
  <2>6. said'.text = said.text /\ said'.calls = now
    BY <1>1, <1>3 DEF SaidOK
  <2>7. (\A r \in response : r.calls = <<>>) => now = said.calls
    <3>1. said.calls = [i \in DOMAIN said.calls |-> said.calls[i]]
      BY <1>3 DEF SaidOK
    <3> QED BY <3>1
  <2>8. (\E r \in response : r.calls # <<>>) => now = [i \in DOMAIN said.calls |-> [said.calls[i] EXCEPT !.args = Arguments]]
    OBVIOUS
  <2> HIDE DEF now, calls
  <2>9. ASSUME NEW c \in {<<>>, calls}, Reported(response, said.text, c) PROVE Ends(round, "responses", said', outbox')
    <3>1. Completes(said, h, response, c, m)
      <4>1. Hears(round, "responses", said, h)
        BY <1>2
      <4>2. Reported(response, said.text, c)
        BY <2>9
      <4>3. m \in Completed(h, response)
        BY <2>1
      <4> QED BY <4>1, <4>2, <4>3, CompletedIs
    <3>2. \A r \in response : r.calls = c
      BY <2>9 DEF Reported, Assistant
    <3>3. CASE response = {} \/ c = <<>>
      <4>1. said'.calls = said.calls
        BY <2>6, <2>7, <3>2, <3>3
      <4> QED BY <2>1, <2>4, <2>6, <3>1, <3>3, <4>1 DEF Ends, Completes
    <3>4. CASE ~(response = {} \/ c = <<>>)
      <4>1. (\E r \in response : r.calls # <<>>) /\ c = calls
        BY <3>2, <3>4
      <4>2. said'.calls = [i \in DOMAIN said.calls |-> [said.calls[i] EXCEPT !.args = Arguments]]
        BY <2>6, <2>8, <4>1
      <4> QED BY <2>1, <2>5, <2>6, <3>1, <3>4, <4>1, <4>2 DEF Ends, Completes
    <3> QED BY <3>3, <3>4
  <2> QED BY <1>6, <2>9
<1> QED BY <1>7, <1>8

\* The tool uses of an anthropic answer, in the order of their blocks.
LEMMA InIndexOrderIs ==
  ASSUME NEW r, NEW s, NEW h, Hears(r, "anthropic", s, h)
  PROVE  /\ DOMAIN InIndexOrder(h) = DOMAIN s.calls
         /\ \A i \in DOMAIN s.calls : InIndexOrder(h)[i] = KeyOf(s, i) /\ KeyOf(s, i) \in DOMAIN h.calls
<1> DEFINE n == Len(s.calls)
           keys == [i \in Calls |-> <<i, "index">>]
           I == {i \in Calls : <<i, "index">> \in DOMAIN h.calls}
           p == Picked(keys, I)
<1>1. SaidOK(s) /\ CallsHeard(r, "anthropic", s, h)
  BY DEF Hears
<1>2. n \in Nat /\ DOMAIN s.calls = 1..n /\ DOMAIN s.calls \subseteq Calls /\ \A i \in DOMAIN s.calls : KeyOf(s, i) \in Keys /\ KeyOf(s, i)[1] = i
  BY <1>1, SaidCalls
<1>3. \A i \in DOMAIN s.calls : KeyOf(s, i) = <<i, "index">>
  BY <1>1 DEF CallsHeard, Agree, KeyOf
<1>4. DOMAIN h.calls = {<<i, "index">> : i \in DOMAIN s.calls}
  BY <1>1, <1>3 DEF CallsHeard
<1>5. I = 1..n
  BY <1>2, <1>4
<1>6. keys \in Seq(Keys) /\ DOMAIN keys = Calls
  <2>1. keys \in [1..MaxCalls -> Keys]
    BY DEF Keys, Calls
  <2> HIDE DEF keys
  <2> QED BY <2>1, ProviderStreamsAssumption DEF Calls
<1>7. p = InIndexOrder(h) /\ I \subseteq DOMAIN keys
  BY <1>6 DEF InIndexOrder
<1>8. \A i \in DOMAIN s.calls : keys[i] = KeyOf(s, i)
  BY <1>2, <1>3
<1> HIDE DEF n, keys, I
<1>9. p \in Seq(Keys) /\ Len(p) = Cardinality(I) /\ \A i \in I : p[Rank(I, i)] = keys[i]
  BY <1>6, <1>7, PickedIs
<1> HIDE DEF p
<1>10. Cardinality(I) = n /\ \A i \in I : Rank(I, i) = i
  BY <1>2, <1>5, RankAll
<1>11. DOMAIN p = 1..n /\ \A i \in DOMAIN s.calls : p[i] = KeyOf(s, i)
  BY <1>2, <1>5, <1>8, <1>9, <1>10
<1>12. \A i \in DOMAIN s.calls : KeyOf(s, i) \in DOMAIN h.calls
  BY <1>3, <1>4
<1> QED BY <1>2, <1>7, <1>11, <1>12

\* The arguments of a block are those that were told, complete or empty.
LEMMA ToolInputIs ==
  ASSUME NEW r, NEW i, NEW told, NEW call, Agree(r, "anthropic", i, told, call), ToolInput(call) # {}
  PROVE  ToolInput(call) = {told.args} /\ told.args \in {NoArguments, Arguments}
<1>1. NoArguments # Arguments
  BY DEF NoArguments, Arguments
<1>2. \/ call.input = NoArguments /\ call.args = told.args
      \/ call.input = Arguments /\ call.args = NoArguments /\ told.args = Arguments
  BY DEF Agree
<1>3. ToolInput(call) = IF call.args = NoArguments THEN {call.input} ELSE IF call.args = Arguments THEN {call.args} ELSE {}
  BY DEF ToolInput, Parses
<1> QED BY <1>1, <1>2, <1>3

\* The blocks of an answer name its calls, behind its thinking and its text.
LEMMA BlocksTell ==
  ASSUME NEW h, NEW calls
  PROVE  RawTells(Raw("anthropic", ContentBlocks(h, calls)), calls)
<1> DEFINE thought == IF h.thought THEN <<Thinking>> ELSE <<>>
           front == thought \o TextItems(h.text)
           blocks == ContentBlocks(h, calls)
           raw == Raw("anthropic", blocks)
<1>1. front \in Fronts
  <2>1. Thinking \in {Text, Thinking}
    OBVIOUS
  <2>2. thought \in Fronts
    <3>1. <<Thinking>> \in Fronts /\ <<>> \in Fronts
      BY <2>1 DEF Fronts
    <3> QED BY <3>1
  <2>3. TextItems(h.text) \in Fronts
    BY TextFront
  <2> HIDE DEF thought
  <2> QED BY <2>2, <2>3 DEF Fronts
<1>2. blocks = front \o Uses(calls)
  BY DEF ContentBlocks
<1>3. raw = NoRaw \/ (raw.format = "anthropic" /\ raw.items = blocks)
  BY RawIs
<1> HIDE DEF front, blocks, raw
<1>4. RawTells(raw, calls)
  BY <1>1, <1>2, <1>3 DEF RawTells
<1> QED BY <1>4 DEF raw, blocks

LEMMA AnthropicDoneTold ==
  ASSUME round \in Nat, Hears(round, "anthropic", said, heard), AnthropicDone
  PROVE  said' = said /\ Ends(round, "anthropic", said, outbox')
<1> DEFINE uses == CHOOSE uses \in ToolUses(heard) : TRUE
           m == Assistant(heard.text, uses, Raw("anthropic", ContentBlocks(heard, uses)))
           b == heard.boundary
           input(i) == CHOOSE input \in ToolInput(heard.calls[InIndexOrder(heard)[i]]) : TRUE
           all == [i \in DOMAIN InIndexOrder(heard) |-> ToolCall(heard.calls[InIndexOrder(heard)[i]].label, input(i))]
<1>1. /\ \A i \in Opened : said.calls[i].stopped
      /\ said' = said
      /\ outbox' = IF ToolUses(heard) = {} THEN <<ErrorEvent>> ELSE Final(heard, m)
  BY DEF AnthropicDone, Handle
<1>2. SaidOK(said) /\ HeardOK(heard) /\ TextHeard(said, heard) /\ CallsHeard(round, "anthropic", said, heard) /\ BoundariesNoted(round, "anthropic", said, heard)
  BY DEF Hears
<1>3. CASE ToolUses(heard) = {}
  BY <1>1, <1>3 DEF Ends
<1>4. CASE ToolUses(heard) # {}
  <2>1. outbox' = b \o <<DoneEvent(m)>>
    BY <1>1, <1>4 DEF Final
  <2>2. ToolUses(heard) = {all} /\ \A key \in DOMAIN heard.calls : ToolInput(heard.calls[key]) # {}
    BY <1>4 DEF ToolUses
  <2>3. uses = all
    <3> HIDE DEF all
    <3> QED BY <2>2
  <2> HIDE DEF uses
  <2>4. m.text = said.text /\ m.calls = uses /\ Sound(m)
    <3>1. m.text = said.text /\ m.calls = uses /\ m.role = "assistant" /\ m.raw = Raw("anthropic", ContentBlocks(heard, uses))
      BY <1>2 DEF Assistant, TextHeard
    <3>2. RawTells(Raw("anthropic", ContentBlocks(heard, uses)), uses)
      BY BlocksTell
    <3> HIDE DEF m
    <3> QED BY <3>1, <3>2 DEF Sound
  <2> HIDE DEF m
  <2>5. /\ DOMAIN InIndexOrder(heard) = DOMAIN said.calls
        /\ \A i \in DOMAIN said.calls : InIndexOrder(heard)[i] = KeyOf(said, i) /\ KeyOf(said, i) \in DOMAIN heard.calls
    BY InIndexOrderIs
  <2>6. DOMAIN uses = DOMAIN said.calls
    BY <2>3, <2>5
  <2>7. ASSUME NEW i \in DOMAIN said.calls
        PROVE  uses[i] = ToolCall(Label(round, i), said.calls[i].args) /\ said.calls[i].args \in {NoArguments, Arguments}
    <3> DEFINE call == heard.calls[KeyOf(said, i)]
    <3>1. Agree(round, "anthropic", i, said.calls[i], call) /\ ToolInput(call) # {}
      BY <1>2, <2>2, <2>5 DEF CallsHeard
    <3>2. ToolInput(call) = {said.calls[i].args} /\ said.calls[i].args \in {NoArguments, Arguments}
      <4> HIDE DEF call
      <4> QED BY <3>1, ToolInputIs
    <3>3. call.label = Label(round, i)
      BY <3>1 DEF Agree
    <3>4. uses[i] = ToolCall(call.label, CHOOSE x \in ToolInput(call) : TRUE)
      BY <2>3, <2>5
    <3> HIDE DEF call
    <3> QED BY <3>2, <3>3, <3>4
  <2>8. ASSUME NEW i \in DOMAIN said.calls PROVE Noted(b, i, TRUE)
    BY <1>1, <1>2 DEF BoundariesNoted, Finished, Opened, Noted
  <2>9. b \in Seq(Notes) /\ \A l \in DOMAIN b : b[l].label = Label(round, b[l].index)
    BY <1>2 DEF HeardOK, BoundariesNoted
  <2>10. Counted(m.calls)
    BY <1>2, <2>4, <2>6, CallsCounted
  <2>11. Announces(round, "anthropic", said, b, m)
    BY <2>4, <2>6, <2>7, <2>8, <2>9, <2>10 DEF Announces
  <2> QED BY <1>1, <2>1, <2>11 DEF Ends
<1> QED BY <1>3, <1>4

----------------------------------------------------------------------------
(* Frames that go on with an answer.                                       *)

\* What a frame of an answer makes the handler send, and the text of the answer.
Continues(s, s2, events) ==
  \/ events = <<>> /\ s2.text = s.text
  \/ events = <<ThinkingEvent>> /\ s2.text = s.text
  \/ \E token \in Nat : events = <<DeltaEvent(token)>> /\ s2.text = Append(s.text, token)

LEMMA ChatChunkHeard ==
  ASSUME round \in Nat, Hears(round, "chat", said, heard), ChatChunk
  PROVE  Hears(round, "chat", said', heard') /\ Continues(said, said', outbox')
<1>1. PICK deltas \in {{}} \cup {{d} : d \in ToolDeltas}, finishes \in BOOLEAN, speaks \in BOOLEAN :
        LET told == IF deltas = {} THEN said ELSE TellCall(said, CHOOSE d \in deltas : TRUE)
            heardCall == IF deltas = {} THEN heard ELSE HearCall(heard, CHOOSE d \in deltas : TRUE)
            heardEnd == IF finishes THEN ChatDoneEvents(heardCall) ELSE heardCall
            s == [told EXCEPT !.finished = @ \/ finishes]
        IN /\ finishes => ~said.finished
           /\ speaks => MoreText
           /\ Handle(IF speaks THEN Spoken(s) ELSE s,
                     IF speaks THEN [heardEnd EXCEPT !.text = Append(@, Token)] ELSE heardEnd,
                     IF speaks THEN <<DeltaEvent(Token)>> ELSE <<>>)
  BY DEF ChatChunk
<1> DEFINE told == IF deltas = {} THEN said ELSE TellCall(said, CHOOSE d \in deltas : TRUE)
           call == IF deltas = {} THEN heard ELSE HearCall(heard, CHOOSE d \in deltas : TRUE)
           end == IF finishes THEN ChatDoneEvents(call) ELSE call
           s == [told EXCEPT !.finished = @ \/ finishes]
           token == Token
<1>2. /\ finishes => ~said.finished
      /\ speaks => MoreText
      /\ said' = IF speaks THEN [s EXCEPT !.text = Append(@, token)] ELSE s
      /\ heard' = IF speaks THEN [end EXCEPT !.text = Append(@, token)] ELSE end
      /\ outbox' = IF speaks THEN <<DeltaEvent(token)>> ELSE <<>>
  BY <1>1 DEF Handle, Spoken
<1>3. Hears(round, "chat", told, call) /\ SameTexts(heard, call) /\ told.text = said.text /\ told.finished = said.finished
  <2>1. CASE deltas = {}
    BY <2>1 DEF SameTexts
  <2>2. ASSUME NEW d \in ToolDeltas, deltas = {d} PROVE Hears(round, "chat", told, call) /\ SameTexts(heard, call) /\ told.text = said.text /\ told.finished = said.finished
    <3>1. told = TellCall(said, d) /\ call = HearCall(heard, d)
      BY <2>2
    <3> HIDE DEF told, call
    <3> QED BY <3>1, ChatCallHeard
  <2> QED BY <2>1, <2>2
<1> HIDE DEF told, call
<1>4. Hears(round, "chat", told, end) /\ SameTexts(call, end)
  <2>1. CASE finishes
    <3>1. end = ChatDoneEvents(call)
      BY <2>1
    <3> HIDE DEF end
    <3> QED BY <1>3, <3>1, ChatEndsHeard
  <2>2. CASE ~finishes
    <3>1. end = call
      BY <2>2
    <3> QED BY <1>3, <3>1 DEF SameTexts
  <2> QED BY <2>1, <2>2
<1> HIDE DEF end
<1>5. SaidOK(told) /\ HeardOK(end) /\ TextHeard(told, end) /\ SaidOK(said) /\ TextHeard(said, heard)
  BY <1>4 DEF Hears
<1>6. SaidOK(s) /\ s.calls = told.calls /\ s.text = told.text /\ (told.finished => s.finished)
  <2>1. (told.finished \/ finishes) \in BOOLEAN
    OBVIOUS
  <2> DEFINE fin == told.finished \/ finishes
  <2>2. s = [told EXCEPT !.finished = fin] /\ fin \in BOOLEAN
    BY <1>5 DEF SaidOK
  <2>3. told.finished => fin
    OBVIOUS
  <2> HIDE DEF fin, s
  <2>4. SaidOK(s) /\ s.calls = told.calls /\ s.text = told.text /\ s.finished = fin
    BY <1>5, <2>2 DEF SaidOK
  <2> QED BY <2>3, <2>4
<1> HIDE DEF s
<1>7. Hears(round, "chat", s, end)
  <2>1. SameCalls(end, end) /\ SameNotes(end, end)
    BY DEF SameCalls, SameNotes
  <2>2. TextHeard(s, end)
    BY <1>5, <1>6 DEF TextHeard
  <2> QED BY <1>4, <1>5, <1>6, <2>1, <2>2, SameButText
<1>8. CASE speaks
  <2>1. end.final = <<>>
    BY <1>2, <1>3, <1>4, <1>5, <1>8 DEF MoreText, TextHeard, SameTexts
  <2>2. token \in Nat
    BY <1>5 DEF SaidOK, Token
  <2> HIDE DEF token
  <2>3. /\ Hears(round, "chat", [s EXCEPT !.text = Append(@, token)], [end EXCEPT !.text = Append(@, token)])
        /\ [s EXCEPT !.text = Append(@, token)].text = Append(s.text, token)
    BY <1>7, <2>1, <2>2, TextAdded
  <2> QED BY <1>2, <1>3, <1>6, <1>8, <2>2, <2>3 DEF Continues
<1>9. CASE ~speaks
  BY <1>2, <1>3, <1>6, <1>7, <1>9 DEF Continues
<1> QED BY <1>8, <1>9

----------------------------------------------------------------------------
(* The events of a stream.                                                 *)

\* Whole, of any answer.
TellsWhole(r, f, s, events, message) ==
  /\ Sound(message) /\ message.text = s.text /\ DeltaText(events) = s.text
  /\ DOMAIN message.calls = DOMAIN s.calls /\ Counted(message.calls)
  /\ \A i \in DOMAIN s.calls :
       /\ message.calls[i] = ToolCall(Label(r, i), s.calls[i].args)
       /\ s.calls[i].args = Arguments \/ (f = "anthropic" /\ s.calls[i].args = NoArguments)
       /\ AnnouncedOnce(events, i, Label(r, i))

\* One event more.
LEMMA OneMore ==
  ASSUME NEW S, NEW d \in Seq(S), NEW e
  PROVE  /\ Listed(<<e>>) /\ Len(<<e>>) = 1 /\ DOMAIN <<e>> = {1} /\ <<e>>[1] = e /\ d \o <<e>> = Append(d, e)
         /\ \A n \in DOMAIN (d \o <<e>>) : (n \in DOMAIN d /\ (d \o <<e>>)[n] = d[n]) \/ (n = Len(d) + 1 /\ (d \o <<e>>)[n] = e)
<1> DEFINE t == <<e>>
<1>1. t \in Seq({e}) /\ Len(t) = 1 /\ DOMAIN t = {1} /\ t[1] = e
  OBVIOUS
<1>2. d \o t = Append(d, e)
  BY AppendIsConcat
<1> HIDE DEF t
<1>3. Listed(t) /\ Listed(d)
  BY <1>1, InListed
<1>4. ASSUME NEW n \in DOMAIN (d \o t) PROVE (n \in DOMAIN d /\ (d \o t)[n] = d[n]) \/ (n = Len(d) + 1 /\ (d \o t)[n] = e)
  <2>1. ASSUME NEW k \in DOMAIN t, n = Len(d) + k PROVE n = Len(d) + 1 /\ (d \o t)[n] = e
    <3>1. (d \o t)[n] = t[k]
      BY <1>3, <2>1, Behind
    <3>2. k = 1
      BY <1>1
    <3> QED BY <1>1, <2>1, <3>1, <3>2
  <2>2. n \in DOMAIN d => (d \o t)[n] = d[n]
    BY <1>3, Joined
  <2>3. n \in DOMAIN d \/ \E k \in DOMAIN t : n = Len(d) + k
    BY ZenonT(30), <1>3, Joined
  <2> DEFINE u == d \o t
             z == Len(d) + 1
  <2>4. (n \in DOMAIN d => u[n] = d[n]) /\ (n \in DOMAIN d \/ (n = z /\ u[n] = e))
    BY <2>1, <2>2, <2>3
  <2> HIDE DEF u, z
  <2>5. (n \in DOMAIN d /\ u[n] = d[n]) \/ (n = z /\ u[n] = e)
    BY <2>4
  <2> QED BY <2>5 DEF u, z
<1> QED BY <1>1, <1>2, <1>3, <1>4 DEF t

\* Events of an answer that goes on: none of them is the last.
LEMMA TalkGoesOn ==
  ASSUME NEW d \in Seq(Talk)
  PROVE  Listed(d) /\ \A n \in DOMAIN d : ~Terminal(d[n])
<1>1. ASSUME NEW n \in DOMAIN d PROVE ~Terminal(d[n])
  <2>1. d[n] \in Talk
    OBVIOUS
  <2>2. d[n].type = "delta" \/ d[n].type = "thinking"
    BY <2>1 DEF Talk, ThinkingEvent
  <2> QED BY <2>2 DEF Terminal
<1> QED BY <1>1, InListed

LEMMA GoesOn ==
  ASSUME NEW s, NEW s2, NEW d, Talking(d, s), NEW t, Continues(s, s2, t)
  PROVE  Listed(d) /\ Listed(t) /\ Talking(d \o t, s2)
<1>1. d \in Seq(Talk) /\ Listed(d) /\ DeltaText(d) = s.text
  BY InListed DEF Talking
<1>2. CASE t = <<>> /\ s2.text = s.text
  <2>1. d \o t = d /\ t \in Seq(Talk)
    BY <1>1, <1>2
  <2>2. Listed(t)
    BY <2>1, InListed
  <2> QED BY <1>1, <1>2, <2>1, <2>2 DEF Talking
<1>3. CASE t = <<ThinkingEvent>> /\ s2.text = s.text
  <2>1. Listed(t) /\ DOMAIN t = {1} /\ t[1] = ThinkingEvent /\ d \o t = Append(d, ThinkingEvent)
    BY <1>1, <1>3, OneMore
  <2>2. ThinkingEvent \in Talk /\ ThinkingEvent.type # "delta"
    BY DEF Talk, ThinkingEvent
  <2>3. DeltaText(d \o t) = DeltaText(d)
    BY <1>1, <2>1, <2>2, SameText
  <2>4. d \o t \in Seq(Talk)
    BY <1>1, <2>1, <2>2
  <2> QED BY <1>1, <1>3, <2>1, <2>3, <2>4 DEF Talking
<1>4. ASSUME NEW token \in Nat, t = <<DeltaEvent(token)>>, s2.text = Append(s.text, token) PROVE Listed(t) /\ Talking(d \o t, s2)
  <2>1. Listed(t) /\ d \o t = Append(d, DeltaEvent(token))
    BY <1>1, <1>4, OneMore
  <2>2. d \o t \in Seq(Talk) /\ DeltaText(d \o t) = s2.text
    BY <1>1, <1>4, <2>1, MoreTextSent
  <2> QED BY <2>1, <2>2 DEF Talking
<1> QED BY <1>1, <1>2, <1>3, <1>4 DEF Continues

\* Events that end the stream: the last one, and only it, is done or an error.
LEMMA EndsWell ==
  ASSUME NEW r, NEW f, NEW s, NEW d, Talking(d, s), NEW t, Ends(r, f, s, t)
  PROVE  /\ Listed(d) /\ Listed(t) /\ \E n \in DOMAIN t : Terminal(t[n])
         /\ \A n \in DOMAIN (d \o t) : /\ Terminal((d \o t)[n]) => n = Len(d \o t)
                                       /\ (d \o t)[n].type = "done" => TellsWhole(r, f, s, d \o t, (d \o t)[n].message)
<1>1. d \in Seq(Talk) /\ Listed(d) /\ DeltaText(d) = s.text /\ \A n \in DOMAIN d : ~Terminal(d[n])
  BY TalkGoesOn DEF Talking
<1>2. CASE t = <<ErrorEvent>>
  <2>1. /\ Listed(t) /\ Len(t) = 1 /\ DOMAIN t = {1} /\ t[1] = ErrorEvent
        /\ \A n \in DOMAIN (d \o t) : (n \in DOMAIN d /\ (d \o t)[n] = d[n]) \/ (n = Len(d) + 1 /\ (d \o t)[n] = ErrorEvent)
    BY <1>1, <1>2, OneMore
  <2>2. ErrorEvent.type = "error" /\ Terminal(ErrorEvent)
    BY DEF ErrorEvent, Terminal
  <2>3. Len(d \o t) = Len(d) + 1
    <3>1. Listed(d) /\ Listed(t) /\ Len(t) = 1
      BY <1>1, <2>1
    <3>2. Len(d \o t) = Len(d) + Len(t)
      BY <3>1, Joined
    <3> QED BY <3>1, <3>2
  <2>4. \A n \in DOMAIN d : d[n].type # "done"
    BY <1>1 DEF Terminal
  <2>5. \A n \in DOMAIN (d \o t) : (Terminal((d \o t)[n]) => n = Len(d \o t)) /\ (d \o t)[n].type # "done"
    BY <1>1, <2>1, <2>2, <2>3, <2>4
  <2> QED BY <1>1, <2>1, <2>2, <2>5
<1>3. ASSUME NEW b, NEW m, t = b \o <<DoneEvent(m)>>, Announces(r, f, s, b, m)
      PROVE  /\ Listed(t) /\ \E n \in DOMAIN t : Terminal(t[n])
             /\ \A n \in DOMAIN (d \o t) : /\ Terminal((d \o t)[n]) => n = Len(d \o t)
                                           /\ (d \o t)[n].type = "done" => TellsWhole(r, f, s, d \o t, (d \o t)[n].message)
  <2> DEFINE e == DoneEvent(m)
             z == Len(b) + 1
  <2>1. b \in Seq(Notes) /\ Listed(b)
    BY <1>3, InListed DEF Announces
  <2>2. Terminal(e) /\ e.type = "done" /\ e.message = m
    BY DEF DoneEvent, Terminal
  <2> HIDE DEF e
  <2>3. /\ Listed(<<e>>) /\ Len(<<e>>) = 1 /\ t = Append(b, e)
        /\ \A n \in DOMAIN t : (n \in DOMAIN b /\ t[n] = b[n]) \/ (n = z /\ t[n] = e)
    BY <1>3, <2>1, OneMore DEF e
  <2>4. Listed(t) /\ Len(t) = z /\ z \in DOMAIN t /\ t[z] = e /\ DOMAIN t = 1..z
    <3>1. t = b \o <<e>>
      BY <1>3 DEF e
    <3>2. Listed(t) /\ Len(t) = Len(b) + 1 /\ DOMAIN t = 1..(Len(b) + 1) /\ Len(b) \in Nat
      BY <2>1, <2>3, <3>1, Joined
    <3>3. t[z] = e
      BY <2>1, <2>3
    <3> QED BY <3>2, <3>3
  <2>5. \A n \in DOMAIN b : ~Terminal(b[n]) /\ b[n].type # "delta"
    <3>1. \A n \in DOMAIN b : b[n] \in Notes
      BY <2>1
    <3> QED BY <3>1 DEF Notes, Terminal
  <2>6. \A n \in DOMAIN t : (Terminal(t[n]) => n = z) /\ t[n].type # "delta"
    BY <2>2, <2>3, <2>5
  <2> HIDE DEF z
  <2>7. Len(d \o t) = Len(d) + z
    BY <1>1, <2>4, Joined
  <2>8. ASSUME NEW n \in DOMAIN (d \o t), Terminal((d \o t)[n]) PROVE n = Len(d \o t) /\ (d \o t)[n] = e
    <3>1. n \notin DOMAIN d
      BY <1>1, <2>4, <2>8, Joined
    <3>2. ASSUME NEW k \in DOMAIN t, n = Len(d) + k PROVE k = z /\ (d \o t)[n] = e
      <4>1. (d \o t)[n] = t[k]
        BY <1>1, <2>4, <3>2, Behind
      <4> QED BY <2>4, <2>6, <2>8, <4>1
    <3> QED BY <1>1, <2>4, <2>7, <3>1, <3>2, Joined
  <2>9. TellsWhole(r, f, s, d \o t, m)
    <3>1. DeltaText(d \o t) = s.text
      BY <1>1, <2>4, <2>6, SameText
    <3>2. ASSUME NEW i \in DOMAIN s.calls PROVE AnnouncedOnce(d \o t, i, Label(r, i))
      <4>1. Noted(b, i, TRUE) /\ \A l \in DOMAIN b : b[l].index = i => b[l].label = Label(r, i)
        BY <1>3 DEF Announces
      <4> DEFINE label == Label(r, i)
      <4>2. \A l \in DOMAIN b : b[l].index = i => b[l].label = label
        BY <4>1
      <4> HIDE DEF label
      <4>3. AnnouncedOnce(d \o (b \o <<DoneEvent(m)>>), i, label)
        BY <1>1, <2>1, <4>1, <4>2, AnnouncesOnce
      <4> QED BY <1>3, <4>3 DEF label
    <3> QED BY <1>3, <3>1, <3>2 DEF Announces, TellsWhole
  <2>10. ASSUME NEW n \in DOMAIN (d \o t), (d \o t)[n].type = "done" PROVE TellsWhole(r, f, s, d \o t, (d \o t)[n].message)
    <3>1. Terminal((d \o t)[n])
      BY <2>10 DEF Terminal
    <3> QED BY <2>2, <2>8, <2>9, <3>1
  <2>11. \E n \in DOMAIN t : Terminal(t[n])
    BY <2>2, <2>4
  <2> QED BY <2>4, <2>8, <2>10, <2>11
<1> QED BY <1>1, <1>2, <1>3 DEF Ends

----------------------------------------------------------------------------
(* The steps.                                                              *)

\* A frame is handled when nothing is left to be sent.
LEMMA Listens ==
  ASSUME StreamInv, phase = "reading", outbox = <<>>
  PROVE  /\ Talking(delivered, said) /\ Hears(round, format, said, heard)
         /\ \A n \in DOMAIN delivered : ~Terminal(delivered[n])
<1>1. delivered \in Seq(Range(delivered))
  BY DEF StreamInv, Listed
<1>2. Flow = delivered
  BY <1>1, ConcatEmptySeq DEF Flow
<1>3. DOMAIN outbox = {}
  OBVIOUS
<1> QED BY <1>2, <1>3 DEF StreamInv

Kept == UNCHANGED <<round, format, phase, delivered, cancelled, timedOut>>

LEMMA FrameGoesOn ==
  ASSUME StreamInv, phase = "reading", outbox = <<>>, Kept,
         Hears(round, format, said', heard'), Continues(said, said', outbox')
  PROVE  StreamInv'
<1>1. Talking(delivered, said) /\ \A n \in DOMAIN delivered : ~Terminal(delivered[n])
  BY Listens
<1> DEFINE d == delivered
           t == outbox'
<1>2. Listed(d) /\ Listed(t) /\ Talking(d \o t, said')
  BY <1>1, GoesOn
<1>3. Flow' = d \o t
  BY DEF Flow, Kept
<1> HIDE DEF d, t
<1>4. \A n \in DOMAIN (d \o t) : ~Terminal((d \o t)[n]) /\ (d \o t)[n].type # "done"
  BY <1>2, TalkGoesOn DEF Talking, Terminal
<1>5. /\ \A n \in DOMAIN Flow' : Terminal(Flow'[n]) => n = Len(Flow')
      /\ \A n \in DOMAIN Flow' : Flow'[n].type = "done" => Tells(Flow, Flow[n].message)'
  BY <1>3, <1>4
<1>6. Listed(delivered') /\ Listed(outbox')
  BY <1>2 DEF d, t, Kept
<1>7. Talking(Flow', said') /\ Hears(round', format', said', heard')
  BY <1>2, <1>3 DEF Kept
<1>8. \A n \in DOMAIN delivered' : ~Terminal(delivered'[n])
  BY <1>1 DEF Kept
<1>9. /\ round' \in Nat /\ format' \in Formats /\ phase' = "reading"
      /\ cancelled' \in BOOLEAN /\ timedOut' \in BOOLEAN
  BY DEF Kept, StreamInv
<1> QED BY <1>5, <1>6, <1>7, <1>8, <1>9 DEF StreamInv

LEMMA FrameEnds ==
  ASSUME StreamInv, phase = "reading", outbox = <<>>, Kept,
         said'.text = said.text, Ends(round, format, said', outbox')
  PROVE  StreamInv'
<1>1. Talking(delivered, said) /\ \A n \in DOMAIN delivered : ~Terminal(delivered[n])
  BY Listens
<1> DEFINE d == delivered
           t == outbox'
           s == said'
<1>2. Talking(d, s)
  BY <1>1 DEF Talking
<1>3. /\ Listed(d) /\ Listed(t) /\ \E n \in DOMAIN t : Terminal(t[n])
      /\ \A n \in DOMAIN (d \o t) : /\ Terminal((d \o t)[n]) => n = Len(d \o t)
                                    /\ (d \o t)[n].type = "done" => TellsWhole(round, format, s, d \o t, (d \o t)[n].message)
  <2>1. Ends(round, format, s, t)
    OBVIOUS
  <2> HIDE DEF d, t, s
  <2> QED BY <1>2, <2>1, EndsWell
<1>4. Flow' = d \o t /\ round' = round /\ format' = format
  BY DEF Flow, Kept
<1>5. ASSUME NEW n \in DOMAIN Flow', Flow'[n].type = "done" PROVE Tells(Flow, Flow[n].message)'
  <2>1. TellsWhole(round', format', said', Flow', Flow'[n].message)
    BY <1>3, <1>4, <1>5
  <2> QED BY <2>1 DEF TellsWhole, Tells, Whole, Opened
<1>6. \A n \in DOMAIN Flow' : Terminal(Flow'[n]) => n = Len(Flow')
  BY <1>3, <1>4
<1>7. Listed(delivered') /\ Listed(outbox') /\ ~\A n \in DOMAIN outbox' : ~Terminal(outbox'[n])
  BY <1>3 DEF Kept
<1>8. \A n \in DOMAIN delivered' : ~Terminal(delivered'[n])
  BY <1>1 DEF Kept
<1>9. /\ round' \in Nat /\ format' \in Formats /\ phase' = "reading"
      /\ cancelled' \in BOOLEAN /\ timedOut' \in BOOLEAN
  BY DEF Kept, StreamInv
<1> QED BY <1>5, <1>6, <1>7, <1>8, <1>9 DEF StreamInv

LEMMA SendStep ==
  ASSUME StreamInv, Send
  PROVE  StreamInv'
<1> DEFINE d == delivered
           t == outbox
           e == Head(t)
<1>1. /\ t # <<>> /\ delivered' = Append(d, e) /\ outbox' = Tail(t)
      /\ phase' = (IF Terminal(e) THEN "closed" ELSE phase)
      /\ UNCHANGED <<round, format, said, heard, cancelled, timedOut>>
  BY DEF Send, Terminal
<1>2. Listed(d) /\ Listed(t) /\ phase = "reading"
  BY <1>1 DEF StreamInv
<1> HIDE DEF d, t
<1>3. /\ Append(d, e) \o Tail(t) = d \o t
      /\ Listed(Append(d, e)) /\ Listed(Tail(t)) /\ Len(Append(d, e)) = Len(d) + 1
      /\ \A n \in DOMAIN d : Append(d, e)[n] = d[n]
      /\ Append(d, e)[Len(d) + 1] = e /\ Len(Tail(t)) = Len(t) - 1 /\ e = t[1]
      /\ \A n \in DOMAIN Tail(t) : n + 1 \in DOMAIN t /\ Tail(t)[n] = t[n + 1]
  <2>1. t # <<>>
    BY <1>1
  <2>2. Listed(d) /\ Listed(t)
    BY <1>2
  <2>3. /\ Append(d, Head(t)) \o Tail(t) = d \o t
        /\ Listed(Append(d, Head(t))) /\ Listed(Tail(t)) /\ Len(Append(d, Head(t))) = Len(d) + 1
        /\ \A n \in DOMAIN d : Append(d, Head(t))[n] = d[n]
        /\ Append(d, Head(t))[Len(d) + 1] = Head(t) /\ Len(Tail(t)) = Len(t) - 1 /\ Head(t) = t[1]
    BY <2>1, <2>2, SendKeepsFlow, Zenon
  <2>4. \A n \in DOMAIN Tail(t) : n + 1 \in DOMAIN t /\ Tail(t)[n] = t[n + 1]
    BY <2>1, <2>2 DEF Listed
  <2> QED BY <2>3, <2>4
<1> HIDE DEF e
<1>4. Flow' = d \o t /\ Flow = d \o t
  BY <1>1, <1>3 DEF Flow, d, t
<1>5. /\ \A n \in DOMAIN Flow' : Terminal(Flow'[n]) => n = Len(Flow')
      /\ \A n \in DOMAIN Flow' : Flow'[n].type = "done" => Tells(Flow, Flow[n].message)'
  <2>1. /\ \A n \in DOMAIN Flow : Terminal(Flow[n]) => n = Len(Flow)
        /\ \A n \in DOMAIN Flow : Flow[n].type = "done" => Tells(Flow, Flow[n].message)
    BY DEF StreamInv
  <2>2. ASSUME NEW n \in DOMAIN Flow', Flow'[n].type = "done" PROVE Tells(Flow, Flow[n].message)'
    <3>1. Tells(Flow, Flow[n].message) /\ Flow' = Flow
      BY <1>4, <2>1, <2>2
    <3> HIDE DEF Flow
    <3> QED BY <1>1, <3>1 DEF Tells, Whole, Opened
  <2> QED BY <1>4, <2>1, <2>2
<1>6. Listed(delivered') /\ Listed(outbox')
  BY <1>1, <1>3
<1>7. /\ \A n \in DOMAIN d : ~Terminal(d[n])
      /\ (\A n \in DOMAIN t : ~Terminal(t[n])) => Talking(Flow, said) /\ Hears(round, format, said, heard)
  BY <1>2 DEF StreamInv, d, t
<1>8. DOMAIN delivered' = DOMAIN d \cup {Len(d) + 1} /\ 1 \in DOMAIN t /\ Len(d) \in Nat /\ Len(t) \in Nat
  <2>1. DOMAIN delivered' = 1..(Len(d) + 1) /\ DOMAIN d = 1..Len(d) /\ Len(d) \in Nat /\ DOMAIN t = 1..Len(t) /\ Len(t) \in Nat
    <3>1. DOMAIN d = 1..Len(d) /\ Len(d) \in Nat /\ DOMAIN t = 1..Len(t) /\ Len(t) \in Nat
      BY <1>2, Joined
    <3>2. DOMAIN Append(d, e) = 1..Len(Append(d, e))
      BY <1>3 DEF Listed
    <3> QED BY <1>1, <1>3, <3>1, <3>2
  <2>2. Len(t) # 0
    BY <1>1, <1>2 DEF Listed
  <2> QED BY <2>1, <2>2
<1>9. CASE Terminal(e)
  <2> DEFINE z == Len(d) + 1
  <2>1. z \in DOMAIN Flow /\ Flow[z] = e
    BY <1>2, <1>3, <1>4, <1>8, Behind
  <2>2. z = Len(Flow) /\ Len(Flow) = Len(d) + Len(t)
    BY <1>2, <1>4, <1>9, <2>1, Joined DEF StreamInv
  <2>3. Len(Tail(t)) = 0
    <3>1. Len(t) = 1
      <4>1. Len(d) \in Nat /\ Len(t) \in Nat
        BY <1>8
      <4>2. Len(d) + 1 = Len(d) + Len(t)
        BY <2>2
      <4> DEFINE x == Len(d)
                 y == Len(t)
      <4>3. x \in Nat /\ y \in Nat /\ x + 1 = x + y
        BY <4>1, <4>2
      <4> HIDE DEF x, y
      <4>4. y = 1
        BY <4>3
      <4> QED BY <4>4 DEF y
    <3> QED BY <1>3, <3>1
  <2>4. outbox' = <<>>
    BY <1>1, <1>3, <2>3 DEF Listed
  <2>5. \E n \in DOMAIN delivered' : Terminal(delivered'[n])
    BY <1>1, <1>3, <1>8, <1>9
  <2>6. phase' = "closed"
    BY <1>1, <1>9
  <2>7. /\ round' \in Nat /\ format' \in Formats /\ cancelled' \in BOOLEAN /\ timedOut' \in BOOLEAN
    BY <1>1 DEF StreamInv
  <2> QED BY <1>5, <1>6, <2>4, <2>5, <2>6, <2>7 DEF StreamInv
<1>10. CASE ~Terminal(e)
  <2>1. phase' = "reading"
    BY <1>1, <1>2, <1>10
  <2>2. \A n \in DOMAIN delivered' : ~Terminal(delivered'[n])
    BY <1>1, <1>3, <1>7, <1>8, <1>10
  <2>3. ASSUME \A n \in DOMAIN outbox' : ~Terminal(outbox'[n]) PROVE Talking(Flow', said') /\ Hears(round', format', said', heard')
    <3>1. ASSUME NEW n \in DOMAIN t, Terminal(t[n]) PROVE FALSE
      <4>1. n # 1
        BY <1>3, <1>10, <3>1
      <4>2. n \in 1..Len(t) /\ DOMAIN Tail(t) = 1..(Len(t) - 1)
        BY <1>2, <1>3, Joined DEF Listed
      <4> DEFINE k == n - 1
      <4>3. k \in DOMAIN Tail(t) /\ n = k + 1
        BY <1>8, <4>1, <4>2
      <4>4. Tail(t)[k] = t[n]
        BY <1>3, <4>3
      <4> QED BY <1>1, <2>3, <3>1, <4>3, <4>4
    <3>2. Talking(Flow, said) /\ Hears(round, format, said, heard)
      BY <1>7, <3>1
    <3>3. Flow' = Flow
      BY <1>4
    <3> QED BY <1>1, <3>2, <3>3
  <2>4. /\ round' \in Nat /\ format' \in Formats /\ cancelled' \in BOOLEAN /\ timedOut' \in BOOLEAN
    BY <1>1 DEF StreamInv
  <2> QED BY <1>5, <1>6, <2>1, <2>2, <2>3, <2>4 DEF StreamInv
<1> QED BY <1>9, <1>10

LEMMA CloseStep ==
  ASSUME StreamInv, phase = "reading", Close, UNCHANGED <<round, format, said, heard, delivered>>,
         cancelled' \in BOOLEAN, timedOut' \in BOOLEAN, cancelled' \/ timedOut'
  PROVE  StreamInv'
<1>1. delivered \in Seq(Range(delivered)) /\ delivered' = delivered /\ outbox' = <<>> /\ phase' = "closed"
  BY DEF StreamInv, Listed, Close
<1>2. Flow' = delivered
  BY <1>1, ConcatEmptySeq DEF Flow
<1>3. \A n \in DOMAIN delivered : ~Terminal(delivered[n]) /\ delivered[n].type # "done"
  BY DEF StreamInv, Terminal
<1>4. /\ \A n \in DOMAIN Flow' : Terminal(Flow'[n]) => n = Len(Flow')
      /\ \A n \in DOMAIN Flow' : Flow'[n].type = "done" => Tells(Flow, Flow[n].message)'
  BY <1>2, <1>3
<1>5. Listed(delivered') /\ Listed(outbox')
  <2>1. <<>> \in Seq(Nat)
    OBVIOUS
  <2>2. Listed(<<>>)
    BY <2>1, InListed
  <2> QED BY <1>1, <2>2 DEF StreamInv
<1>6. round' \in Nat /\ format' \in Formats
  BY DEF StreamInv
<1> QED BY <1>1, <1>4, <1>5, <1>6 DEF StreamInv

\* The first frames of a stream find a handler that has heard nothing.
LEMMA NothingHeard ==
  ASSUME NEW r, NEW f
  PROVE  Hears(r, f, Silent, Deaf) /\ Talking(<<>>, Silent) /\ Listed(<<>>)
<1>0. Len(<<>>) = 0 /\ DOMAIN <<>> = {} /\ \A S : <<>> \in Seq(S)
  OBVIOUS
<1>1. SaidOK(Silent)
  <2>1. Silent.calls = <<>>
    BY DEF Silent
  <2>2. Len(Silent.calls) <= MaxCalls
    BY <1>0, <2>1, ProviderStreamsAssumption
  <2>3. Silent \in [text : Seq(Nat), thought : BOOLEAN, calls : Seq(Tellings), finished : BOOLEAN]
    BY <1>0 DEF Silent
  <2> QED BY <2>2, <2>3 DEF SaidOK
<1>2. HeardOK(Deaf)
  <2>1. Deaf.calls = <<>>
    BY DEF Deaf
  <2>2. Deaf.calls \in [DOMAIN Deaf.calls -> Assemblies]
    BY <1>0, <2>1
  <2>3. Deaf \in [text : Seq(Nat), final : Seq(Nat), thought : BOOLEAN, calls : {Deaf.calls}, order : Seq(Keys),
                  named : SUBSET Calls, started : SUBSET Keys, done : SUBSET Keys, boundary : Seq(Notes)]
    BY <1>0, <2>1 DEF Deaf
  <2> QED BY <2>2, <2>3 DEF HeardOK
<1>3. DOMAIN Silent.calls = {} /\ DOMAIN Deaf.calls = {} /\ DOMAIN Deaf.boundary = {}
  BY <1>0 DEF Silent, Deaf
<1>4. TextHeard(Silent, Deaf)
  BY DEF TextHeard, Silent, Deaf
<1>5. CallsHeard(r, f, Silent, Deaf)
  <2>1. Deaf.order = [i \in DOMAIN Silent.calls |-> KeyOf(Silent, i)]
    <3>1. Deaf.order = <<>>
      BY DEF Deaf
    <3> QED BY <1>3, <3>1
  <2>2. Deaf.named = {}
    BY DEF Deaf
  <2> QED BY <1>3, <2>1, <2>2 DEF CallsHeard
<1>6. BoundariesNoted(r, f, Silent, Deaf)
  <2>1. Deaf.started = {} /\ Deaf.done = {}
    BY DEF Deaf
  <2> QED BY <1>3, <2>1 DEF BoundariesNoted, Unnoted
<1>7. Talking(<<>>, Silent) /\ Listed(<<>>)
  <2>1. <<>> \in Seq(Talk) /\ Silent.text = <<>>
    BY <1>0 DEF Silent
  <2> QED BY <2>1, NoText, InListed DEF Talking
<1> QED BY <1>1, <1>2, <1>4, <1>5, <1>6, <1>7 DEF Hears

LEMMA NoFlow ==
  ASSUME delivered = <<>>, outbox = <<>>
  PROVE  Flow = <<>> /\ DOMAIN Flow = {}
BY DEF Flow

LEMMA StreamInit == Init => StreamInv
<1> SUFFICES ASSUME Init PROVE StreamInv
  OBVIOUS
<1>1. /\ round = 0 /\ format = "chat" /\ phase = "idle" /\ outbox = <<>> /\ delivered = <<>>
      /\ cancelled = FALSE /\ timedOut = FALSE
  BY DEF Init
<1>2. Listed(delivered) /\ Listed(outbox)
  BY <1>1, NothingHeard
<1>3. DOMAIN Flow = {}
  BY <1>1, NoFlow
<1>4. round \in Nat /\ format \in Formats
  BY <1>1 DEF Formats
<1> QED BY <1>1, <1>2, <1>3, <1>4 DEF StreamInv

\* No stream is read: the conversation goes on, or a stream is opened.
LEMMA FreshStep ==
  ASSUME round' \in Nat, format' \in Formats, phase' \in {"idle", "reading"}, delivered' = <<>>, outbox' = <<>>,
         cancelled' \in BOOLEAN, timedOut' \in BOOLEAN,
         phase' = "reading" => said' = Silent /\ heard' = Deaf
  PROVE  StreamInv'
<1>1. Listed(delivered') /\ Listed(outbox')
  BY NothingHeard
<1>2. Flow' = <<>> /\ DOMAIN Flow' = {}
  BY DEF Flow
<1>3. phase' = "reading" =>
        /\ \A n \in DOMAIN delivered' : ~Terminal(delivered'[n])
        /\ Talking(Flow', said') /\ Hears(round', format', said', heard')
  <2>1. CASE phase' = "reading"
    BY <1>2, <2>1, NothingHeard
  <2> QED BY <2>1
<1> QED BY <1>1, <1>2, <1>3 DEF StreamInv

\* Nothing happens, or the request's context ends.
LEMMA SameStream ==
  ASSUME StreamInv, UNCHANGED <<round, format, phase, said, heard, outbox, delivered, timedOut>>,
         cancelled' \in BOOLEAN, cancelled => cancelled'
  PROVE  StreamInv'
<1>1. Flow' = Flow
  BY DEF Flow
<1>2. \A n \in DOMAIN Flow' : Flow'[n].type = "done" => Tells(Flow, Flow[n].message)'
  <2>1. ASSUME NEW n \in DOMAIN Flow', Flow'[n].type = "done" PROVE Tells(Flow, Flow[n].message)'
    <3>1. Tells(Flow, Flow[n].message)
      BY <1>1, <2>1 DEF StreamInv
    <3> HIDE DEF Flow
    <3> QED BY <1>1, <3>1 DEF Tells, Whole, Opened
  <2> QED BY <2>1
<1>3. \A n \in DOMAIN Flow' : Terminal(Flow'[n]) => n = Len(Flow')
  BY <1>1 DEF StreamInv
<1>4. phase' = "reading" =>
        /\ \A n \in DOMAIN delivered' : ~Terminal(delivered'[n])
        /\ (\A n \in DOMAIN outbox' : ~Terminal(outbox'[n])) => Talking(Flow', said') /\ Hears(round', format', said', heard')
  BY <1>1 DEF StreamInv
<1>5. phase' = "closed" => outbox' = <<>> /\ (cancelled' \/ timedOut' \/ \E n \in DOMAIN delivered' : Terminal(delivered'[n]))
  BY DEF StreamInv
<1>6. /\ round' \in Nat /\ format' \in Formats /\ phase' \in {"idle", "reading", "closed"}
      /\ cancelled' \in BOOLEAN /\ timedOut' \in BOOLEAN
      /\ Listed(delivered') /\ Listed(outbox')
      /\ phase' = "idle" => delivered' = <<>> /\ outbox' = <<>>
  BY DEF StreamInv
<1> QED BY <1>2, <1>3, <1>4, <1>5, <1>6 DEF StreamInv

LEMMA FrameSteps ==
  ASSUME StreamInv,
         \/ ChatChunk \/ ChatDone
         \/ ResponsesText \/ ResponsesThinking \/ ResponsesTextDone \/ ResponsesItem \/ ResponsesArguments \/ ResponsesCompleted
         \/ AnthropicText \/ AnthropicThinking \/ AnthropicStart \/ AnthropicInput \/ AnthropicStop \/ AnthropicDone
         \/ BadFrame \/ EndOfBody
  PROVE  StreamInv'
<1>1. phase = "reading" /\ outbox = <<>> /\ Kept
  BY DEF ChatChunk, ChatDone, ResponsesText, ResponsesThinking, ResponsesTextDone, ResponsesItem, ResponsesArguments,
         ResponsesCompleted, AnthropicText, AnthropicThinking, AnthropicStart, AnthropicInput, AnthropicStop, AnthropicDone,
         BadFrame, EndOfBody, Frame, Handle, Kept
<1>2. round \in Nat /\ Hears(round, format, said, heard)
  BY <1>1, Listens DEF StreamInv
<1>3. ASSUME Hears(round, format, said', heard'), said'.text = said.text, outbox' = <<>> PROVE StreamInv'
  <2>1. Continues(said, said', outbox')
    BY <1>3 DEF Continues
  <2> QED BY <1>1, <1>3, <2>1, FrameGoesOn
<1>4. ASSUME said' = said, Ends(round, format, said, outbox') PROVE StreamInv'
  <2>1. Ends(round, format, said', outbox') /\ said'.text = said.text
    BY <1>4
  <2> QED BY <1>1, <2>1, FrameEnds
<1>5. CASE ChatChunk
  <2>1. format = "chat"
    BY <1>5 DEF ChatChunk, Frame
  <2>2. Hears(round, format, said', heard') /\ Continues(said, said', outbox')
    BY <1>2, <1>5, <2>1, ChatChunkHeard
  <2> QED BY <1>1, <2>2, FrameGoesOn
<1>6. CASE ChatDone
  <2>1. format = "chat"
    BY <1>6 DEF ChatDone, Frame
  <2> QED BY <1>2, <1>4, <1>6, <2>1, ChatDoneTold
<1>7. CASE ResponsesText \/ AnthropicText
  <2>1. /\ MoreText /\ said' = Spoken(said) /\ heard' = [heard EXCEPT !.text = Append(@, Token)]
        /\ outbox' = <<DeltaEvent(Token)>>
    BY <1>7 DEF ResponsesText, AnthropicText, Handle
  <2>2. Hears(round, format, said', heard') /\ said'.text = Append(said.text, Token) /\ Token \in Nat
    BY <1>2, <2>1, TextHeardMore
  <2>3. Continues(said, said', outbox')
    BY <2>1, <2>2 DEF Continues
  <2> QED BY <1>1, <2>2, <2>3, FrameGoesOn
<1>8. CASE ResponsesThinking \/ AnthropicThinking
  <2>1. Hears(round, format, said', heard') /\ said'.text = said.text /\ outbox' = <<ThinkingEvent>>
    BY <1>2, <1>8, ThinkingHeard
  <2>2. Continues(said, said', outbox')
    BY <2>1 DEF Continues
  <2> QED BY <1>1, <2>1, <2>2, FrameGoesOn
<1>9. CASE ResponsesTextDone
  BY <1>2, <1>3, <1>9, TextDoneHeard
<1>10. CASE ResponsesItem
  <2>1. format = "responses"
    BY <1>10 DEF ResponsesItem, Frame
  <2> QED BY <1>2, <1>3, <1>10, <2>1, ResponsesItemHeard
<1>11. CASE ResponsesArguments
  <2>1. format = "responses"
    BY <1>11 DEF ResponsesArguments, Frame
  <2> QED BY <1>2, <1>3, <1>11, <2>1, ResponsesArgumentsHeard
<1>12. CASE ResponsesCompleted
  <2>1. format = "responses"
    BY <1>12 DEF ResponsesCompleted, Frame
  <2>2. Ends(round, format, said', outbox')
    BY <1>2, <1>12, <2>1, ResponsesTold
  <2>3. said'.text = said.text
    <3>1. SaidOK(said)
      BY <1>2 DEF Hears
    <3>2. \E calls : said' = [said EXCEPT !.calls = calls]
      BY <1>12 DEF ResponsesCompleted, Handle
    <3> QED BY <3>1, <3>2 DEF SaidOK
  <2> QED BY <1>1, <2>2, <2>3, FrameEnds
<1>13. CASE AnthropicStart
  <2>1. format = "anthropic"
    BY <1>13 DEF AnthropicStart, Frame
  <2> QED BY <1>2, <1>3, <1>13, <2>1, AnthropicStartHeard
<1>14. CASE AnthropicInput
  <2>1. format = "anthropic"
    BY <1>14 DEF AnthropicInput, Frame
  <2> QED BY <1>2, <1>3, <1>14, <2>1, AnthropicInputHeard
<1>15. CASE AnthropicStop
  <2>1. format = "anthropic"
    BY <1>15 DEF AnthropicStop, Frame
  <2> QED BY <1>2, <1>3, <1>15, <2>1, AnthropicStopHeard
<1>16. CASE AnthropicDone
  <2>1. format = "anthropic"
    BY <1>16 DEF AnthropicDone, Frame
  <2> QED BY <1>2, <1>4, <1>16, <2>1, AnthropicDoneTold
<1>17. CASE BadFrame \/ EndOfBody
  <2>1. said' = said /\ outbox' = <<ErrorEvent>>
    BY <1>17 DEF BadFrame, EndOfBody, Handle
  <2> QED BY <1>4, <2>1 DEF Ends
<1> QED BY <1>5, <1>6, <1>7, <1>8, <1>9, <1>10, <1>11, <1>12, <1>13, <1>14, <1>15, <1>16, <1>17

LEMMA StreamSteps ==
  ASSUME StreamInv, StreamStep
  PROVE  StreamInv'
<1>1. CASE ReadFails
  <2>1. CASE Handle(said, heard, <<ErrorEvent>>)
    <3>1. phase = "reading" /\ outbox = <<>> /\ Kept /\ said' = said /\ outbox' = <<ErrorEvent>>
      BY <1>1, <2>1 DEF ReadFails, Handle, Kept
    <3>2. Ends(round, format, said', outbox') /\ said'.text = said.text
      BY <3>1 DEF Ends
    <3> QED BY <3>1, <3>2, FrameEnds
  <2>2. CASE Close /\ timedOut' = TRUE /\ UNCHANGED <<round, format, said, heard, delivered, cancelled>>
    <3>1. phase = "reading" /\ cancelled' \in BOOLEAN
      BY <1>1, <2>2 DEF ReadFails, StreamInv
    <3> QED BY <2>2, <3>1, CloseStep
  <2> QED BY <1>1, <2>1, <2>2 DEF ReadFails
<1>2. CASE Cancel
  BY <1>2, SameStream DEF Cancel
<1>3. CASE Stop
  <2>1. /\ phase = "reading" /\ Close /\ UNCHANGED <<round, format, said, heard, delivered>>
        /\ cancelled' = cancelled /\ timedOut' = timedOut /\ cancelled
    BY <1>3 DEF Stop
  <2>2. cancelled' \in BOOLEAN /\ timedOut' \in BOOLEAN
    BY <2>1 DEF StreamInv
  <2> QED BY <2>1, <2>2, CloseStep
<1>4. CASE Send
  BY <1>4, SendStep
<1> QED BY <1>1, <1>2, <1>3, <1>4, FrameSteps DEF StreamStep

LEMMA StreamNext == StreamInv /\ [Next]_vars => StreamInv'
<1> SUFFICES ASSUME StreamInv, [Next]_vars PROVE StreamInv'
  OBVIOUS
<1>1. CASE StreamStep
  BY <1>1, StreamSteps
<1>2. ASSUME NEW f \in Formats, Request(f), UNCHANGED <<phase, said, heard, outbox, delivered, cancelled, timedOut>> PROVE StreamInv'
  <2>1. phase' = "idle" /\ delivered' = <<>> /\ outbox' = <<>> /\ round' \in Nat /\ format' \in Formats
        /\ cancelled' \in BOOLEAN /\ timedOut' \in BOOLEAN
    BY <1>2 DEF Request, StreamInv
  <2> QED BY <2>1, FreshStep
<1>3. CASE GenerateChat \/ GenerateResponses \/ GenerateAnthropic
  <2>1. "chat" \in Formats /\ "responses" \in Formats /\ "anthropic" \in Formats
    BY DEF Formats
  <2>2. \E f \in Formats : Request(f) /\ UNCHANGED <<phase, said, heard, outbox, delivered, cancelled, timedOut>>
    <3>1. CASE GenerateChat
      BY <2>1, <3>1 DEF GenerateChat, Generate
    <3>2. CASE GenerateResponses
      BY <2>1, <3>2 DEF GenerateResponses, Generate
    <3>3. CASE GenerateAnthropic
      BY <2>1, <3>3 DEF GenerateAnthropic, Generate
    <3> QED BY <1>3, <3>1, <3>2, <3>3
  <2> QED BY <1>2, <2>2
<1>4. ASSUME NEW f \in Formats, Fail(f) PROVE StreamInv'
  BY <1>2, <1>4 DEF Fail
<1>5. ASSUME NEW f \in Formats, Open(f) PROVE StreamInv'
  <2>1. /\ phase' = "reading" /\ delivered' = <<>> /\ outbox' = <<>> /\ said' = Silent /\ heard' = Deaf
        /\ cancelled' = FALSE /\ timedOut' = FALSE /\ round' \in Nat /\ format' \in Formats
    BY <1>5 DEF Open, Request, Fresh, StreamInv
  <2> QED BY <2>1, FreshStep
<1>6. CASE OpenChat \/ OpenResponses \/ OpenAnthropic
  BY <1>5, <1>6 DEF OpenChat, OpenResponses, OpenAnthropic, Formats
<1>7. CASE Conclude
  <2>1. /\ phase' = "idle" /\ delivered' = <<>> /\ outbox' = <<>>
        /\ cancelled' = FALSE /\ timedOut' = FALSE /\ round' \in Nat /\ format' \in Formats
    BY <1>7 DEF Conclude, Fresh, StreamInv
  <2> QED BY <2>1, FreshStep
<1>8. CASE UNCHANGED vars
  <2>1. UNCHANGED <<round, format, phase, said, heard, outbox, delivered, timedOut>> /\ cancelled' = cancelled
    BY <1>8 DEF vars, streamVars
  <2>2. cancelled' \in BOOLEAN
    BY <2>1 DEF StreamInv
  <2> QED BY <2>1, <2>2, SameStream
<1> QED BY <1>1, <1>3, <1>4, <1>6, <1>7, <1>8 DEF Next

----------------------------------------------------------------------------
(* The contract of the streams.                                            *)

LEMMA StreamInvTells == StreamInv => StreamEndsWhole
<1> SUFFICES ASSUME StreamInv PROVE StreamEndsWhole
  OBVIOUS
<1>1. Listed(delivered) /\ Listed(outbox)
  BY DEF StreamInv
<1>2. /\ Len(Flow) = Len(delivered) + Len(outbox) /\ Len(delivered) \in Nat /\ Len(outbox) \in Nat
      /\ DOMAIN delivered = 1..Len(delivered) /\ \A n \in DOMAIN delivered : Flow[n] = delivered[n]
  BY <1>1, Joined DEF Flow
<1>3. ASSUME NEW n \in DOMAIN delivered, Terminal(delivered[n])
      PROVE  n = Len(delivered) /\ outbox = <<>> /\ Flow = delivered /\ phase # "reading"
  <2>1. n \in DOMAIN Flow /\ Terminal(Flow[n])
    <3>1. n \in DOMAIN Flow /\ Flow[n] = delivered[n]
      BY <1>1, Joined DEF Flow
    <3> QED BY <1>3, <3>1
  <2>2. n = Len(Flow)
    BY <2>1 DEF StreamInv
  <2>3. n = Len(delivered) /\ Len(outbox) = 0
    <3> DEFINE x == Len(delivered)
               y == Len(outbox)
    <3>1. n \in 1..x /\ x \in Nat /\ y \in Nat
      BY <1>2, <1>3
    <3>2. n = x + y
      BY <1>2, <2>2
    <3> HIDE DEF x, y
    <3>3. n = x /\ y = 0
      BY <3>1, <3>2
    <3> QED BY <3>3 DEF x, y
  <2>4. outbox = <<>> /\ Flow = delivered
    <3>1. outbox = <<>>
      BY <1>1, <2>3 DEF Listed
    <3> QED BY <1>1, <3>1, ConcatEmptySeq DEF Flow, Listed
  <2>5. phase # "reading"
    BY <1>3 DEF StreamInv
  <2> QED BY <2>3, <2>4, <2>5
<1>4. \A n \in DOMAIN delivered : delivered[n].type \in {"done", "error"} => n = Len(delivered) /\ phase # "reading"
  BY <1>3 DEF Terminal
<1>5. phase = "closed" => cancelled \/ timedOut \/ (delivered # <<>> /\ Last(delivered).type \in {"done", "error"})
  <2>1. ASSUME NEW n \in DOMAIN delivered, Terminal(delivered[n]) PROVE delivered # <<>> /\ Last(delivered).type \in {"done", "error"}
    <3>1. n = Len(delivered)
      BY <1>3, <2>1
    <3> QED BY <2>1, <3>1 DEF Last, Terminal
  <2> QED BY <2>1 DEF StreamInv
<1>6. ASSUME NEW n \in DOMAIN delivered, delivered[n].type = "done" PROVE Whole(delivered, delivered[n].message)
  <2>1. Flow = delivered
    BY <1>3, <1>6 DEF Terminal
  <2>2. n \in DOMAIN Flow /\ Flow[n].type = "done"
    BY <1>6, <2>1
  <2>3. Whole(Flow, Flow[n].message)
    BY <2>2 DEF StreamInv, Tells
  <2> QED BY <2>1, <2>3
<1> QED BY <1>4, <1>5, <1>6 DEF StreamEndsWhole

\* Every stream of a provider ends with one done or error event, unless its context or
\* the deadline of the HTTP client ends it, and done tells the whole answer: all of the
\* text, which the deltas have told too, and every tool call with its label and its
\* arguments, announced once and finished once.  In whichever pieces the provider
\* sends it (openai/stream.go, anthropic/stream.go).
THEOREM StreamsEndWhole == Spec => []StreamEndsWhole
<1>1. Spec => []StreamInv
  BY StreamInit, StreamNext, PTL DEF Spec
<1> QED BY <1>1, StreamInvTells, PTL

----------------------------------------------------------------------------
(* The encoders of a history.  Two of them go through it with a fold, which *)
(* is a recursive function on the sets of its places.                       *)

\* A finite set of numbers has a largest element.
LEMMA MaxIn ==
  ASSUME NEW N \in Nat, NEW T, T \subseteq 1..N, T # {}
  PROVE  Max(T) \in T /\ \A y \in T : y <= Max(T)
<1> DEFINE B == {N - x : x \in T}
<1>0. B \subseteq Nat
  OBVIOUS
<1>1. B \subseteq Nat /\ B # {}
  BY <1>0
<1> HIDE DEF B
<1>2. PICK m \in B : \A n \in B : m <= n
  BY <1>1, Least
<1>3. PICK x \in T : m = N - x
  BY DEF B
<1>4. \A y \in T : x >= y
  <2>1. ASSUME NEW y \in T PROVE x >= y
    <3>1. N - x <= N - y
      BY <1>2, <1>3 DEF B
    <3>2. x \in Nat /\ y \in Nat
      OBVIOUS
    <3> QED BY <3>1, <3>2
  <2> QED BY <2>1
<1>5. Max(T) \in T /\ \A y \in T : Max(T) >= y
  BY <1>4 DEF Max
<1>6. \A y \in T : y <= Max(T)
  <2>1. ASSUME NEW y \in T PROVE y <= Max(T)
    <3> DEFINE z == Max(T)
    <3>1. z \in 1..N /\ z >= y
      BY <1>5
    <3> HIDE DEF z
    <3>2. z \in Nat /\ y \in Nat
      BY <3>1
    <3>3. y <= z
      BY <3>1, <3>2
    <3> QED BY <3>3 DEF z
  <2> QED BY <2>1
<1> QED BY <1>5, <1>6

LEMMA MaxUpto ==
  ASSUME NEW n \in Nat, n # 0
  PROVE  Max(1..n) = n /\ (1..n) \ {n} = 1..(n - 1)
<1> DEFINE T == 1..n
           k == Max(T)
<1>1. n \in T /\ T # {}
  OBVIOUS
<1>2. k \in T /\ \A y \in T : y <= k
  <2> HIDE DEF T
  <2>1. T \subseteq 1..n
    BY DEF T
  <2> QED BY <1>1, <2>1, MaxIn
<1> HIDE DEF k
<1>3. k = n
  <2>1. k \in 1..n /\ n <= k
    BY <1>1, <1>2
  <2> QED BY <2>1
<1> QED BY <1>3 DEF k

\* What is folded of a set is what is folded of the set without its largest element,
\* and then of that.
TakesLast(G, p, N, A) ==
  \A T \in SUBSET (1..N) : T # {} /\ p[T \ {Max(T)}] \in A => p[T] = G[Max(T), p[T \ {Max(T)}]]

GoesAlong(G, p, N, A) ==
  /\ \A n \in 0..N : p[1..n] \in A
  /\ \A n \in 1..N : p[1..n] = G[n, p[1..(n - 1)]]

\* A fold along a sequence: what there is after each of its elements.
LEMMA FoldAlong ==
  ASSUME NEW N \in Nat, NEW A, NEW base \in A, NEW G \in [(1..N) \X A -> A], NEW p, p[{}] = base, TakesLast(G, p, N, A)
  PROVE  GoesAlong(G, p, N, A)
<1>0. \A n \in 1..N : n - 1 \in 0..N /\ n \in 0..N /\ n \in Nat /\ n # 0
  OBVIOUS
<1>1. ASSUME NEW n \in 1..N, p[1..(n - 1)] \in A PROVE p[1..n] = G[n, p[1..(n - 1)]] /\ p[1..n] \in A
  <2>1. n \in Nat /\ n # 0 /\ 1..n \in SUBSET (1..N) /\ 1..n # {}
    <3>1. n \in 1..n /\ 1..n \in SUBSET (1..N)
      OBVIOUS
    <3> QED BY <1>0, <3>1
  <2>2. Max(1..n) = n /\ (1..n) \ {n} = 1..(n - 1)
    BY <2>1, MaxUpto
  <2> DEFINE T == 1..n
             U == 1..(n - 1)
  <2>3. T \in SUBSET (1..N) /\ T # {} /\ Max(T) = n /\ T \ {n} = U /\ p[U] \in A
    BY <2>1, <2>2, <1>1
  <2> HIDE DEF T, U
  <2>4. p[T] = G[n, p[U]]
    BY <2>3 DEF TakesLast
  <2>5. G[n, p[U]] \in A
    BY <2>3
  <2> QED BY <2>4, <2>5 DEF T, U
<1>2. p[1..0] = base
  <2>1. 1..0 = {}
    OBVIOUS
  <2> QED BY <2>1
<1> DEFINE Bad == {n \in 0..N : p[1..n] \notin A}
<1>3. ASSUME Bad # {} PROVE FALSE
  <2>1. Bad \subseteq Nat
    OBVIOUS
  <2>2. PICK n \in Bad : \A m \in Bad : n <= m
    <3> HIDE DEF Bad
    <3> QED BY <1>3, <2>1, Least
  <2>3. CASE n = 0
    BY <1>2, <2>2, <2>3
  <2>4. CASE n # 0
    <3>1. n \in 1..N /\ n - 1 \in 0..N /\ ~(n <= n - 1)
      BY <2>2, <2>4
    <3>0. n - 1 \notin Bad
      BY <2>2, <3>1
    <3>2. p[1..(n - 1)] \in A
      BY <3>0, <3>1
    <3>3. p[1..n] \in A
      BY <1>1, <3>1, <3>2
    <3> QED BY <2>2, <3>3
  <2> QED BY <2>3, <2>4
<1>4. \A n \in 0..N : p[1..n] \in A
  BY <1>3
<1> QED BY <1>0, <1>1, <1>4 DEF GoesAlong

FoldsOn(G, base, g, N) == \A T \in SUBSET (1..N) : g[T] = IF T = {} THEN base ELSE G[Max(T), g[T \ {Max(T)}]]

LEMMA FoldOnPlaces ==
  ASSUME NEW N \in Nat, NEW A, NEW base \in A, NEW G \in [(1..N) \X A -> A]
  PROVE  \E g \in [SUBSET (1..N) -> A] : FoldsOn(G, base, g, N)
<1> DEFINE S == 1..N
           ch == [T \in (SUBSET S) \ {{}} |-> Max(T)]
<1>1. IsFiniteSet(S)
  <2>1. 1 \in Int /\ N \in Int
    OBVIOUS
  <2> QED BY <2>1, FS_Interval
<1>2. ASSUME NEW T \in SUBSET S, T # {} PROVE ch[T] = Max(T) /\ Max(T) \in T /\ Max(T) \in S
  <2>1. Max(T) \in T
    BY <1>2, MaxIn
  <2>2. T \in (SUBSET S) \ {{}}
    BY <1>2
  <2>3. ch[T] = Max(T)
    BY <2>2
  <2> QED BY <2>1, <2>3
<1>3. Takes(S, ch)
  <2>1. \A T \in (SUBSET S) \ {{}} : Max(T) \in S
    BY <1>2
  <2>2. ch \in [(SUBSET S) \ {{}} -> S]
    BY <2>1
  <2> HIDE DEF ch
  <2> QED BY <1>2, <2>2 DEF Takes
<1> HIDE DEF S, ch
<1>4. G \in [S \X A -> A]
  BY DEF S
<1>5. PICK g \in [SUBSET S -> A] : Solves(G, base, ch, g, SUBSET S)
  BY <1>1, <1>3, <1>4, FoldExists
<1>6. \A T \in SUBSET S : g[T] = IF T = {} THEN base ELSE G[Max(T), g[T \ {Max(T)}]]
  BY <1>2, <1>5 DEF Solves
<1> QED BY <1>6 DEF S, FoldsOn

\* The recursive functions of the two folds.
InputPart(h) ==
  CHOOSE g : g = [T \in SUBSET DOMAIN h |-> IF T = {} THEN <<>> ELSE AddInput(g[T \ {Max(T)}], h[Max(T)])]

LEMMA ResponsesInputIs == \A h : ResponsesInput(h) = InputPart(h)[DOMAIN h]
  BY Zenon DEF ResponsesInput, FoldLeft, MapThenFoldSet, InputPart

MappedPart(h) ==
  CHOOSE g : g = [T \in SUBSET DOMAIN h |-> IF T = {} THEN <<>> ELSE AddMessage(g[T \ {Max(T)}], h[Max(T)])]

LEMMA AnthropicMessagesIs == \A h : AnthropicMessages(h) = MappedPart(h)[DOMAIN h]
  BY Zenon DEF AnthropicMessages, FoldLeft, MapThenFoldSet, MappedPart

\* Items, and messages of a request.
Items == {Text, Thinking} \cup [type : {"call", "result"}, label : Labels]
Wire == [role : {"user", "assistant", "tool"}, items : Seq(Items)]

\* A message that has items in every format.
Encodable(m) ==
  /\ m.role \in {"user", "assistant", "tool"}
  /\ ResponsesItems(m) \in Seq(Items)
  /\ m.role = "tool" => ResultOf(m) \in Items
  /\ m.role = "assistant" => AssistantContent(m) \in Seq(Items)

AllEncodable(h) == Listed(h) /\ \A n \in DOMAIN h : Encodable(h[n])

\* The messages of a request after some of the history.
AfterInput(h, n) == InputPart(h)[1..n]
AfterMessages(h, n) == MappedPart(h)[1..n]

LEMMA AddInputIs ==
  ASSUME NEW m, Encodable(m), NEW x \in Seq(Wire)
  PROVE  AddInput(x, m) \in Seq(Wire)
<1> DEFINE items == ResponsesItems(m)
           t == [n \in DOMAIN items |-> Sent(m.role, <<items[n]>>)]
<1>1. items \in Seq(Items) /\ m.role \in {"user", "assistant", "tool"}
  BY DEF Encodable
<1>2. AddInput(x, m) = x \o t
  BY DEF AddInput
<1> HIDE DEF items
<1>3. ASSUME NEW n \in DOMAIN items PROVE Sent(m.role, <<items[n]>>) \in Wire
  <2>1. items[n] \in Items
    BY <1>1
  <2>2. <<items[n]>> \in Seq(Items)
    BY <2>1
  <2> QED BY <1>1, <2>2 DEF Sent, Wire
<1>4. t \in Seq(Wire)
  <2>1. DOMAIN items = 1..Len(items) /\ Len(items) \in Nat
    BY <1>1
  <2>2. t \in [1..Len(items) -> Wire]
    BY <1>3, <2>1
  <2> HIDE DEF t
  <2> QED BY <2>1, <2>2
<1> HIDE DEF t
<1> QED BY <1>2, <1>4

LEMMA AddMessageCases ==
  ASSUME NEW m, NEW x
  PROVE  /\ m.role = "tool" /\ TakesResult(x) =>
              AddMessage(x, m) = ReplaceAt(x, Len(x), Sent("user", Append(Last(x).items, ResultOf(m))))
         /\ m.role = "tool" /\ ~TakesResult(x) => AddMessage(x, m) = Append(x, Sent("user", <<ResultOf(m)>>))
         /\ m.role = "assistant" => AddMessage(x, m) = Append(x, Sent("assistant", AssistantContent(m)))
         /\ m.role = "user" => AddMessage(x, m) = Append(x, Sent("user", <<Text>>))
<1>1. m.role = "tool" /\ TakesResult(x) =>
        AddMessage(x, m) = ReplaceAt(x, Len(x), Sent("user", Append(Last(x).items, ResultOf(m))))
  BY DEF AddMessage
<1>2. m.role = "tool" /\ ~TakesResult(x) => AddMessage(x, m) = Append(x, Sent("user", <<ResultOf(m)>>))
  BY DEF AddMessage
<1>3. m.role = "assistant" => AddMessage(x, m) = Append(x, Sent("assistant", AssistantContent(m)))
  BY DEF AddMessage
<1>4. m.role = "user" => AddMessage(x, m) = Append(x, Sent("user", <<Text>>))
  BY DEF AddMessage
<1> QED BY <1>1, <1>2, <1>3, <1>4

LEMMA AddMessageIs ==
  ASSUME NEW m, Encodable(m), NEW x \in Seq(Wire)
  PROVE  AddMessage(x, m) \in Seq(Wire)
<1>1. m.role \in {"user", "assistant", "tool"}
  BY DEF Encodable
<1>2. CASE m.role = "tool" /\ TakesResult(x)
  <2> DEFINE n == Len(x)
             old == x[n]
             new == Sent("user", Append(old.items, ResultOf(m)))
  <2>1. n \in DOMAIN x
    BY <1>2 DEF TakesResult
  <2>2. AddMessage(x, m) = ReplaceAt(x, Len(x), Sent("user", Append(Last(x).items, ResultOf(m))))
    BY <1>2, AddMessageCases
  <2>3. AddMessage(x, m) = [x EXCEPT ![n] = new]
    BY <2>2 DEF ReplaceAt, Last
  <2>4. ResultOf(m) \in Items
    BY <1>2 DEF Encodable
  <2>5. old.items \in Seq(Items)
    <3>1. old \in Wire
      BY <2>1
    <3> HIDE DEF old
    <3> QED BY <3>1 DEF Wire
  <2> HIDE DEF n, old
  <2>6. Append(old.items, ResultOf(m)) \in Seq(Items)
    BY <2>4, <2>5
  <2>7. new \in Wire
    BY <2>6 DEF Sent, Wire
  <2> HIDE DEF new
  <2> QED BY <2>1, <2>3, <2>7
<1>3. ASSUME NEW new \in Wire, AddMessage(x, m) = Append(x, new) PROVE AddMessage(x, m) \in Seq(Wire)
  BY <1>3
<1>4. CASE m.role = "tool" /\ ~TakesResult(x)
  <2> DEFINE new == Sent("user", <<ResultOf(m)>>)
  <2>1. ResultOf(m) \in Items
    BY <1>4 DEF Encodable
  <2>2. new \in Wire
    BY <2>1 DEF Sent, Wire
  <2>3. AddMessage(x, m) = Append(x, new)
    BY <1>4, AddMessageCases
  <2> QED BY <1>3, <2>2, <2>3
<1>5. CASE m.role = "assistant"
  <2> DEFINE new == Sent("assistant", AssistantContent(m))
  <2>1. AssistantContent(m) \in Seq(Items)
    BY <1>5 DEF Encodable
  <2>2. new \in Wire
    BY <2>1 DEF Sent, Wire
  <2>3. AddMessage(x, m) = Append(x, new)
    BY <1>5, AddMessageCases
  <2> QED BY <1>3, <2>2, <2>3
<1>6. CASE m.role = "user"
  <2> DEFINE new == Sent("user", <<Text>>)
  <2>1. <<Text>> \in Seq(Items)
    <3>1. Text \in Items
      BY DEF Items
    <3> QED BY <3>1
  <2>2. new \in Wire
    BY <2>1 DEF Sent, Wire
  <2>3. AddMessage(x, m) = Append(x, new)
    BY <1>6, AddMessageCases
  <2> QED BY <1>3, <2>2, <2>3
<1> QED BY <1>1, <1>2, <1>4, <1>5, <1>6

LEMMA InputChain ==
  ASSUME NEW h, AllEncodable(h)
  PROVE  /\ AfterInput(h, 0) = <<>> /\ ResponsesInput(h) = AfterInput(h, Len(h))
         /\ \A n \in 0..Len(h) : AfterInput(h, n) \in Seq(Wire)
         /\ \A n \in 1..Len(h) : AfterInput(h, n) = AddInput(AfterInput(h, n - 1), h[n])
<1> DEFINE N == Len(h)
           A == Seq(Wire)
           none == <<>>
           G == [x \in (1..N) \X A |-> AddInput(x[2], h[x[1]])]
           p == InputPart(h)
<1>1. N \in Nat /\ DOMAIN h = 1..N /\ none \in A
  BY DEF AllEncodable, Listed
<1>2. \A n \in 1..N, x \in A : AddInput(x, h[n]) \in A
  BY <1>1, AddInputIs DEF AllEncodable
<1>3. ResponsesInput(h) = p[1..N]
  BY <1>1, ResponsesInputIs
<1>4. p = CHOOSE g : g = [T \in SUBSET (1..N) |-> IF T = {} THEN none ELSE AddInput(g[T \ {Max(T)}], h[Max(T)])]
  BY <1>1 DEF InputPart
<1> HIDE DEF N, A, p, none
<1>5. G \in [(1..N) \X A -> A] /\ \A n \in 1..N, x \in A : G[n, x] = AddInput(x, h[n])
  BY <1>2
<1> HIDE DEF G
<1>6. PICK g \in [SUBSET (1..N) -> A] : FoldsOn(G, none, g, N)
  BY <1>1, <1>5, FoldOnPlaces
<1>7. ASSUME NEW T \in SUBSET (1..N), T # {} PROVE Max(T) \in 1..N /\ T \ {Max(T)} \in SUBSET (1..N)
  BY <1>1, <1>7, MaxIn
<1>8. \A T \in SUBSET (1..N) : g[T] = IF T = {} THEN none ELSE AddInput(g[T \ {Max(T)}], h[Max(T)])
  BY <1>5, <1>6, <1>7 DEF FoldsOn
<1>9. g = [T \in SUBSET (1..N) |-> IF T = {} THEN none ELSE AddInput(g[T \ {Max(T)}], h[Max(T)])]
  BY <1>6, <1>8
<1>10. p = [T \in SUBSET (1..N) |-> IF T = {} THEN none ELSE AddInput(p[T \ {Max(T)}], h[Max(T)])]
  BY <1>4, <1>9
<1>11. p[{}] = none
  BY <1>10
<1>12. TakesLast(G, p, N, A)
  <2> SUFFICES ASSUME NEW T \in SUBSET (1..N), T # {}, p[T \ {Max(T)}] \in A PROVE p[T] = G[Max(T), p[T \ {Max(T)}]]
    BY DEF TakesLast
  <2>1. p[T] = AddInput(p[T \ {Max(T)}], h[Max(T)])
    BY <1>10
  <2> QED BY <1>5, <1>7, <2>1
<1>13. GoesAlong(G, p, N, A)
  BY <1>1, <1>5, <1>11, <1>12, FoldAlong
<1>14. ASSUME NEW n \in 1..N PROVE p[1..n] = AddInput(p[1..(n - 1)], h[n])
  <2>1. n - 1 \in 0..N
    BY <1>1
  <2> DEFINE q == p[1..(n - 1)]
  <2>2. q \in A /\ p[1..n] = G[n, q]
    BY <1>13, <2>1 DEF GoesAlong
  <2> HIDE DEF q
  <2>3. p[1..n] = AddInput(q, h[n])
    BY <1>5, <2>2
  <2> QED BY <2>3 DEF q
<1>15. p[1..0] = none
  <2>1. 1..0 = {}
    OBVIOUS
  <2> QED BY <1>11, <2>1
<1>16. \A n \in 0..N : p[1..n] \in A
  BY <1>13 DEF GoesAlong
<1> QED BY <1>3, <1>14, <1>15, <1>16 DEF AfterInput, p, N, A, none

LEMMA MessagesChain ==
  ASSUME NEW h, AllEncodable(h)
  PROVE  /\ AfterMessages(h, 0) = <<>> /\ AnthropicMessages(h) = AfterMessages(h, Len(h))
         /\ \A n \in 0..Len(h) : AfterMessages(h, n) \in Seq(Wire)
         /\ \A n \in 1..Len(h) : AfterMessages(h, n) = AddMessage(AfterMessages(h, n - 1), h[n])
<1> DEFINE N == Len(h)
           A == Seq(Wire)
           none == <<>>
           G == [x \in (1..N) \X A |-> AddMessage(x[2], h[x[1]])]
           p == MappedPart(h)
<1>1. N \in Nat /\ DOMAIN h = 1..N /\ none \in A
  BY DEF AllEncodable, Listed
<1>2. \A n \in 1..N, x \in A : AddMessage(x, h[n]) \in A
  BY <1>1, AddMessageIs DEF AllEncodable
<1>3. AnthropicMessages(h) = p[1..N]
  BY <1>1, AnthropicMessagesIs
<1>4. p = CHOOSE g : g = [T \in SUBSET (1..N) |-> IF T = {} THEN none ELSE AddMessage(g[T \ {Max(T)}], h[Max(T)])]
  BY <1>1 DEF MappedPart
<1> HIDE DEF N, A, p, none
<1>5. G \in [(1..N) \X A -> A] /\ \A n \in 1..N, x \in A : G[n, x] = AddMessage(x, h[n])
  BY <1>2
<1> HIDE DEF G
<1>6. PICK g \in [SUBSET (1..N) -> A] : FoldsOn(G, none, g, N)
  BY <1>1, <1>5, FoldOnPlaces
<1>7. ASSUME NEW T \in SUBSET (1..N), T # {} PROVE Max(T) \in 1..N /\ T \ {Max(T)} \in SUBSET (1..N)
  BY <1>1, <1>7, MaxIn
<1>8. \A T \in SUBSET (1..N) : g[T] = IF T = {} THEN none ELSE AddMessage(g[T \ {Max(T)}], h[Max(T)])
  BY <1>5, <1>6, <1>7 DEF FoldsOn
<1>9. g = [T \in SUBSET (1..N) |-> IF T = {} THEN none ELSE AddMessage(g[T \ {Max(T)}], h[Max(T)])]
  BY <1>6, <1>8
<1>10. p = [T \in SUBSET (1..N) |-> IF T = {} THEN none ELSE AddMessage(p[T \ {Max(T)}], h[Max(T)])]
  BY <1>4, <1>9
<1>11. p[{}] = none
  BY <1>10
<1>12. TakesLast(G, p, N, A)
  <2> SUFFICES ASSUME NEW T \in SUBSET (1..N), T # {}, p[T \ {Max(T)}] \in A PROVE p[T] = G[Max(T), p[T \ {Max(T)}]]
    BY DEF TakesLast
  <2>1. p[T] = AddMessage(p[T \ {Max(T)}], h[Max(T)])
    BY <1>10
  <2> QED BY <1>5, <1>7, <2>1
<1>13. GoesAlong(G, p, N, A)
  BY <1>1, <1>5, <1>11, <1>12, FoldAlong
<1>14. ASSUME NEW n \in 1..N PROVE p[1..n] = AddMessage(p[1..(n - 1)], h[n])
  <2>1. n - 1 \in 0..N
    BY <1>1
  <2> DEFINE q == p[1..(n - 1)]
  <2>2. q \in A /\ p[1..n] = G[n, q]
    BY <1>13, <2>1 DEF GoesAlong
  <2> HIDE DEF q
  <2>3. p[1..n] = AddMessage(q, h[n])
    BY <1>5, <2>2
  <2> QED BY <2>3 DEF q
<1>15. p[1..0] = none
  <2>1. 1..0 = {}
    OBVIOUS
  <2> QED BY <1>11, <2>1
<1>16. \A n \in 0..N : p[1..n] \in A
  BY <1>13 DEF GoesAlong
<1> QED BY <1>3, <1>14, <1>15, <1>16 DEF AfterMessages, p, N, A, none

\* A label tells the request and the call.
LEMMA LabelsDiffer ==
  ASSUME NEW r, NEW i, NEW s, NEW j, Label(r, i) = Label(s, j)
  PROVE  r = s /\ i = j
<1>1. Label(r, i)[1] = <<r, i, 1>> /\ Label(s, j)[1] = <<s, j, 1>>
  BY DEF Label
<1>2. <<r, i, 1>> = <<s, j, 1>>
  BY <1>1
<1> QED BY <1>2

LEMMA LabelIn ==
  ASSUME NEW r \in Nat, NEW i \in Nat
  PROVE  Label(r, i) \in Labels
<1> DEFINE P == Nat \X Nat \X Nat
           two == 2
           L == Label(r, i)
<1>1. two \in Nat /\ L \in [1..two -> P]
  BY DEF Label
<1> HIDE DEF two, L, P
<1>2. L \in Seq(P)
  BY <1>1
<1> QED BY <1>2 DEF L, P, Labels

----------------------------------------------------------------------------
(* Answers, and the items that they become.                                *)

\* The calls of the answer to request s.
Numbered(s, calls) ==
  \E k \in Nat : DOMAIN calls = 1..k /\ \A c \in 1..k : calls[c].label = Label(s, c)

AnswerOf(s, m) == Sound(m) /\ Numbered(s, m.calls)

\* A list of items holds calls of an answer alone, no call twice.
Names(items, calls) ==
  /\ \A k \in DOMAIN items : \/ items[k].type \notin {"call", "result"}
                             \/ \E c \in DOMAIN calls : items[k] = UseOf(calls[c])
  /\ \A k, l \in DOMAIN items : items[k] = items[l] /\ items[k].type = "call" => k = l

NamesAll(items, calls) == \A c \in DOMAIN calls : \E k \in DOMAIN items : items[k] = UseOf(calls[c])

LEMMA FrontIs ==
  ASSUME NEW front \in Fronts, NEW calls
  PROVE  front \in Seq(Items) /\ Names(front, calls)
<1>1. Text \in Items /\ Thinking \in Items /\ Text.type = "text" /\ Thinking.type = "thinking"
  BY DEF Items, Text, Thinking
<1>2. \A k \in DOMAIN front : front[k] \in {Text, Thinking}
  BY DEF Fronts
<1>3. front \in Seq(Items)
  <2>1. Range(front) \subseteq {Text, Thinking} /\ Listed(front)
    BY InListed DEF Fronts
  <2>2. Range(front) \subseteq Items
    BY <1>1, <2>1
  <2> QED BY <2>1, <2>2, ListedIn
<1> QED BY <1>1, <1>2, <1>3 DEF Names

LEMMA ContentIs ==
  ASSUME NEW s \in Nat, NEW calls, Numbered(s, calls), NEW front \in Fronts
  PROVE  /\ front \o Uses(calls) \in Seq(Items) /\ Names(front \o Uses(calls), calls) /\ NamesAll(front \o Uses(calls), calls)
<1> DEFINE uses == Uses(calls)
           items == front \o uses
<1>1. PICK k \in Nat : DOMAIN calls = 1..k /\ \A c \in 1..k : calls[c].label = Label(s, c)
  BY DEF Numbered
<1>2. DOMAIN uses = 1..k /\ \A c \in 1..k : uses[c] = UseOf(calls[c]) /\ uses[c].type = "call" /\ uses[c].label = Label(s, c)
  BY <1>1 DEF Uses, UseOf
<1>3. uses \in Seq(Items)
  <2>1. ASSUME NEW c \in 1..k PROVE uses[c] \in Items
    <3>1. Label(s, c) \in Labels
      BY LabelIn
    <3>2. uses[c] = [type |-> "call", label |-> Label(s, c)]
      BY <1>1, <1>2 DEF UseOf
    <3> QED BY <3>1, <3>2 DEF Items
  <2>2. uses = [c \in 1..k |-> uses[c]]
    BY <1>1 DEF Uses
  <2> HIDE DEF uses
  <2>3. uses \in [1..k -> Items]
    BY <2>1, <2>2
  <2> QED BY <2>3
<1>4. Listed(uses) /\ Listed(front) /\ front \in Seq(Items) /\ Names(front, calls)
  BY <1>3, FrontIs, InListed DEF Fronts
<1> HIDE DEF uses
<1>5. /\ items \in Seq(Items) /\ \A n \in DOMAIN front : items[n] = front[n]
      /\ \A n \in DOMAIN items : n \in DOMAIN front \/ \E c \in DOMAIN uses : n = Len(front) + c
  <2>1. items \in Seq(Items)
    BY <1>3, <1>4
  <2>2. \A n \in DOMAIN front : items[n] = front[n]
    BY <1>4, Joined
  <2>3. \A n \in DOMAIN items : n \in DOMAIN front \/ \E c \in DOMAIN uses : n = Len(front) + c
    BY ZenonT(30), <1>4, Joined
  <2> QED BY <2>1, <2>2, <2>3
<1>6. \A c \in DOMAIN uses : Len(front) + c \in DOMAIN items /\ items[Len(front) + c] = uses[c]
  BY <1>4, Behind
<1> HIDE DEF items
<1>7. NamesAll(items, calls)
  BY <1>1, <1>2, <1>6 DEF NamesAll
<1>8. ASSUME NEW n \in DOMAIN items
      PROVE  \/ items[n].type \notin {"call", "result"}
             \/ \E c \in 1..k : n = Len(front) + c /\ items[n] = UseOf(calls[c]) /\ items[n].label = Label(s, c)
  <2>1. CASE n \in DOMAIN front
    <3>1. items[n] \in {Text, Thinking}
      BY <1>5, <2>1 DEF Fronts
    <3> QED BY <3>1 DEF Text, Thinking
  <2>2. ASSUME NEW c \in DOMAIN uses, n = Len(front) + c
        PROVE  c \in 1..k /\ items[n] = UseOf(calls[c]) /\ items[n].label = Label(s, c)
    BY <1>2, <1>6, <2>2
  <2> QED BY <1>5, <2>1, <2>2
<1>9. ASSUME NEW n \in DOMAIN items, NEW l \in DOMAIN items, items[n] = items[l], items[n].type = "call" PROVE n = l
  <2>1. PICK c \in 1..k : n = Len(front) + c /\ items[n].label = Label(s, c)
    BY <1>8, <1>9
  <2>2. PICK d \in 1..k : l = Len(front) + d /\ items[l].label = Label(s, d)
    BY <1>8, <1>9
  <2>3. c = d
    BY <1>9, <2>1, <2>2, LabelsDiffer
  <2> QED BY <2>1, <2>2, <2>3
<1>10. Names(items, calls)
  BY <1>1, <1>8, <1>9 DEF Names
<1> QED BY <1>5, <1>7, <1>10 DEF items, uses

\* The items of a message in a request of a format.
ItemsIn(f, m) ==
  CASE m.role = "tool"      -> <<ResultOf(m)>>
    [] m.role = "assistant" -> IF m.raw.format = f THEN m.raw.items ELSE PlainItems(m)
    [] OTHER                -> <<Text>>

\* Replayable, of one answer.
MayReplay(f, m) ==
  f = "responses" /\ m.raw.format = "responses" => \A c \in DOMAIN m.calls : UseOf(m.calls[c]) \in Range(m.raw.items)

LEMMA AnswerItems ==
  ASSUME NEW s \in Nat, NEW m, AnswerOf(s, m), NEW f \in Formats
  PROVE  /\ ItemsIn(f, m) \in Seq(Items) /\ Names(ItemsIn(f, m), m.calls)
         /\ MayReplay(f, m) => NamesAll(ItemsIn(f, m), m.calls)
<1>1. m.role = "assistant" /\ RawTells(m.raw, m.calls) /\ Numbered(s, m.calls)
  BY DEF AnswerOf, Sound
<1> DEFINE Good(items) == items \in Seq(Items) /\ Names(items, m.calls) /\ NamesAll(items, m.calls)
<1>2. Good(PlainItems(m))
  <2>1. TextItems(m.text) \in Fronts
    BY TextFront
  <2> QED BY <1>1, <2>1, ContentIs DEF PlainItems
<1>3. ASSUME NEW front \in Fronts, m.raw.items = front \o Uses(m.calls) PROVE Good(m.raw.items)
  BY <1>1, <1>3, ContentIs
<1> HIDE DEF Good
<1>4. ItemsIn(f, m) = IF m.raw.format = f THEN m.raw.items ELSE PlainItems(m)
  BY <1>1 DEF ItemsIn
<1>5. CASE m.raw.format # f
  BY <1>2, <1>4, <1>5 DEF Good
<1>6. CASE m.raw.format = f /\ \E front \in Fronts : m.raw.items = front \o Uses(m.calls)
  BY <1>3, <1>4, <1>6 DEF Good
<1>7. CASE m.raw.format = f /\ m.raw.items \in Fronts /\ m.raw.format = "responses"
  <2>1. ItemsIn(f, m) = m.raw.items /\ m.raw.items \in Seq(Items) /\ Names(m.raw.items, m.calls)
    BY <1>4, <1>7, FrontIs
  <2>2. MayReplay(f, m) => NamesAll(m.raw.items, m.calls)
    <3>1. \A x \in Range(m.raw.items) : \E k \in DOMAIN m.raw.items : m.raw.items[k] = x
      BY DEF Range
    <3> QED BY <1>7, <3>1 DEF MayReplay, NamesAll
  <2> QED BY <2>1, <2>2
<1>8. CASE m.raw.format = f /\ m.raw = NoRaw
  <2>1. f = "none"
    BY <1>8 DEF NoRaw
  <2> QED BY <2>1 DEF Formats
<1> QED BY <1>1, <1>5, <1>6, <1>7, <1>8 DEF RawTells

----------------------------------------------------------------------------
(* The history of a conversation.                                          *)

\* Where the answers are, and which message has the result of a call.
Answering(h) == {n \in DOMAIN h : h[n].role = "assistant"}
HasResult(h, a, c) == a + c \in DOMAIN h /\ h[a + c] = ToolResult(h[a].calls[c])

\* A message is a user's, an answer to one of the first b requests, or the result of a
\* call of an answer.
Turn(h, b, n) ==
  \/ h[n] = User
  \/ \E s \in 1..b : AnswerOf(s, h[n])
  \/ \E a \in Answering(h) : \E c \in DOMAIN h[a].calls : n = a + c /\ h[n] = ToolResult(h[a].calls[c])

\* Results follow their calls, and no two calls have one label.
Talks(h, b) ==
  /\ Listed(h)
  /\ \A n \in DOMAIN h : Turn(h, b, n)
  /\ \A a \in Answering(h) : \A c \in DOMAIN h[a].calls : HasResult(h, a, c)
  /\ \A a, d \in Answering(h) : a # d =>
       \A c \in DOMAIN h[a].calls, e \in DOMAIN h[d].calls : h[a].calls[c].label # h[d].calls[e].label

LEMMA TurnIs ==
  ASSUME NEW b \in Nat, NEW h, Talks(h, b), NEW n \in DOMAIN h
  PROVE  /\ n \in Nat /\ h[n].role \in {"user", "assistant", "tool"}
         /\ h[n].role = "assistant" => \E s \in 1..b : AnswerOf(s, h[n])
         /\ h[n].role = "tool" =>
              \E a \in Answering(h) : \E c \in DOMAIN h[a].calls : n = a + c /\ h[n] = ToolResult(h[a].calls[c])
<1>0. Listed(h) /\ Turn(h, b, n)
  BY DEF Talks
<1>1. n \in Nat
  BY <1>0 DEF Listed
<1>2. CASE h[n] = User
  BY <1>1, <1>2 DEF User
<1>3. ASSUME NEW s \in 1..b, AnswerOf(s, h[n])
      PROVE  h[n].role = "assistant" /\ \E t \in 1..b : AnswerOf(t, h[n])
  BY <1>3 DEF AnswerOf, Sound
<1>4. ASSUME NEW a \in Answering(h), NEW c \in DOMAIN h[a].calls, n = a + c, h[n] = ToolResult(h[a].calls[c])
      PROVE  h[n].role = "tool"
  BY <1>4 DEF ToolResult
<1> QED BY <1>0, <1>1, <1>2, <1>3, <1>4 DEF Turn

\* A result has the label of a call.
LEMMA ResultIs ==
  ASSUME NEW b \in Nat, NEW h, Talks(h, b), NEW a \in Answering(h), NEW c \in DOMAIN h[a].calls
  PROVE  /\ ResultOf(ToolResult(h[a].calls[c])) = [type |-> "result", label |-> h[a].calls[c].label]
         /\ ResultOf(ToolResult(h[a].calls[c])) \in Items
<1>1. PICK s \in 1..b : AnswerOf(s, h[a])
  BY TurnIs DEF Answering
<1>2. c \in Nat /\ h[a].calls[c].label = Label(s, c)
  BY <1>1 DEF AnswerOf, Numbered
<1>3. Label(s, c) \in Labels
  <2>1. s \in Nat
    OBVIOUS
  <2> QED BY <1>2, <2>1, LabelIn
<1>4. ResultOf(ToolResult(h[a].calls[c])) = [type |-> "result", label |-> h[a].calls[c].label]
  BY DEF ResultOf, ToolResult
<1> QED BY <1>2, <1>3, <1>4 DEF Items

\* All of a history has items in every format.
LEMMA TalkItems ==
  ASSUME NEW b \in Nat, NEW h, Talks(h, b), NEW f \in Formats, NEW n \in DOMAIN h
  PROVE  /\ ItemsIn(f, h[n]) \in Seq(Items)
         /\ h[n].role = "user" => ItemsIn(f, h[n]) = <<Text>>
         /\ h[n].role = "tool" => ItemsIn(f, h[n]) = <<ResultOf(h[n])>> /\ ResultOf(h[n]) \in Items
<1>1. h[n].role \in {"user", "assistant", "tool"}
  BY TurnIs
<1>2. CASE h[n].role = "assistant"
  <2>1. PICK s \in 1..b : AnswerOf(s, h[n])
    BY <1>2, TurnIs
  <2>2. s \in Nat
    OBVIOUS
  <2> QED BY <1>2, <2>1, <2>2, AnswerItems
<1>3. CASE h[n].role = "user"
  <2>1. ItemsIn(f, h[n]) = <<Text>>
    BY <1>3 DEF ItemsIn
  <2>2. Text \in Items
    BY DEF Items
  <2> QED BY <1>3, <2>1, <2>2
<1>4. CASE h[n].role = "tool"
  <2>1. ItemsIn(f, h[n]) = <<ResultOf(h[n])>>
    BY <1>4 DEF ItemsIn
  <2>2. PICK a \in Answering(h) : \E c \in DOMAIN h[a].calls : n = a + c /\ h[n] = ToolResult(h[a].calls[c])
    BY <1>4, TurnIs
  <2>3. PICK c \in DOMAIN h[a].calls : h[n] = ToolResult(h[a].calls[c])
    BY <2>2
  <2>4. ResultOf(ToolResult(h[a].calls[c])) \in Items
    BY ResultIs
  <2> QED BY <1>4, <2>1, <2>3, <2>4
<1> QED BY <1>1, <1>2, <1>3, <1>4

LEMMA TalkEncodable ==
  ASSUME NEW b \in Nat, NEW h, Talks(h, b)
  PROVE  AllEncodable(h)
<1>1. ASSUME NEW n \in DOMAIN h PROVE Encodable(h[n])
  <2>1. h[n].role \in {"user", "assistant", "tool"}
    BY TurnIs
  <2>2. "responses" \in Formats /\ "anthropic" \in Formats
    BY DEF Formats
  <2>3. ResponsesItems(h[n]) = ItemsIn("responses", h[n])
    BY <2>1 DEF ResponsesItems, ItemsIn
  <2>4. h[n].role = "assistant" => AssistantContent(h[n]) = ItemsIn("anthropic", h[n])
    BY DEF AssistantContent, ItemsIn
  <2> QED BY <2>1, <2>2, <2>3, <2>4, TalkItems DEF Encodable
<1> QED BY <1>1 DEF Talks, AllEncodable

\* The messages M of a request have the items of the history h, item k of message n
\* where pos says, and no others.
Placed(f, h, M, pos) ==
  /\ \A n \in DOMAIN h : \A k \in DOMAIN ItemsIn(f, h[n]) :
       pos[n, k] \in DOMAIN M /\ ItemsIn(f, h[n])[k] \in Range(M[pos[n, k]].items)
  /\ \A q \in DOMAIN M : \A item \in Range(M[q].items) :
       \E n \in DOMAIN h : \E k \in DOMAIN ItemsIn(f, h[n]) : q = pos[n, k] /\ item = ItemsIn(f, h[n])[k]

\* An item of a call or of a result says which message of the history it is from.
LEMMA CallItem ==
  ASSUME NEW b \in Nat, NEW h, Talks(h, b), NEW f \in Formats, NEW a \in Answering(h), NEW c \in DOMAIN h[a].calls,
         NEW n \in DOMAIN h, NEW k \in DOMAIN ItemsIn(f, h[n]), ItemsIn(f, h[n])[k] = UseOf(h[a].calls[c])
  PROVE  n = a
<1> DEFINE items == ItemsIn(f, h[n])
           use == UseOf(h[a].calls[c])
<1>1. use.type = "call" /\ use.label = h[a].calls[c].label
  BY DEF UseOf
<1>2. h[n].role \in {"user", "assistant", "tool"}
  BY TurnIs
<1>3. CASE h[n].role = "user"
  <2>1. items = <<Text>>
    BY <1>3, TalkItems
  <2>2. items[k] = Text
    BY <2>1
  <2> QED BY <1>1, <2>2 DEF Text
<1>4. CASE h[n].role = "tool"
  <2>1. items = <<ResultOf(h[n])>>
    BY <1>4, TalkItems
  <2>2. items[k] = ResultOf(h[n])
    BY <2>1
  <2> QED BY <1>1, <2>2 DEF ResultOf
<1>5. CASE h[n].role = "assistant"
  <2>1. PICK s \in 1..b : AnswerOf(s, h[n])
    BY <1>5, TurnIs
  <2>2. s \in Nat
    OBVIOUS
  <2>3. Names(items, h[n].calls)
    BY <2>1, <2>2, AnswerItems
  <2>4. PICK e \in DOMAIN h[n].calls : items[k] = UseOf(h[n].calls[e])
    BY <1>1, <2>3 DEF Names
  <2>5. h[n].calls[e].label = h[a].calls[c].label
    BY <2>4 DEF UseOf
  <2>6. n \in Answering(h)
    BY <1>5 DEF Answering
  <2> QED BY <2>5, <2>6 DEF Talks
<1> QED BY <1>2, <1>3, <1>4, <1>5

LEMMA ResultItem ==
  ASSUME NEW b \in Nat, NEW h, Talks(h, b), NEW f \in Formats, NEW a \in Answering(h), NEW c \in DOMAIN h[a].calls,
         NEW n \in DOMAIN h, NEW k \in DOMAIN ItemsIn(f, h[n]),
         ItemsIn(f, h[n])[k] = [type |-> "result", label |-> h[a].calls[c].label]
  PROVE  n = a + c /\ k = 1
<1> DEFINE items == ItemsIn(f, h[n])
           result == [type |-> "result", label |-> h[a].calls[c].label]
<1>1. result.type = "result" /\ result.label = h[a].calls[c].label
  OBVIOUS
<1>2. h[n].role \in {"user", "assistant", "tool"}
  BY TurnIs
<1>3. CASE h[n].role = "user"
  <2>1. items = <<Text>>
    BY <1>3, TalkItems
  <2>2. items[k] = Text
    BY <2>1
  <2> QED BY <1>1, <2>2 DEF Text
<1>4. CASE h[n].role = "tool"
  <2>1. items = <<ResultOf(h[n])>>
    BY <1>4, TalkItems
  <2>2. k = 1 /\ items[k] = ResultOf(h[n])
    BY <2>1
  <2>3. PICK d \in Answering(h) : \E e \in DOMAIN h[d].calls : n = d + e /\ h[n] = ToolResult(h[d].calls[e])
    BY <1>4, TurnIs
  <2>4. PICK e \in DOMAIN h[d].calls : n = d + e /\ h[n] = ToolResult(h[d].calls[e])
    BY <2>3
  <2>5. items[k] = [type |-> "result", label |-> h[d].calls[e].label]
    BY <2>2, <2>4, ResultIs
  <2>6. h[d].calls[e].label = h[a].calls[c].label
    BY <1>1, <2>5
  <2>7. d = a
    BY <2>6 DEF Talks
  <2>8. e = c
    <3>1. PICK s \in 1..b : AnswerOf(s, h[a])
      BY TurnIs DEF Answering
    <3>2. h[a].calls[c].label = Label(s, c) /\ h[a].calls[e].label = Label(s, e)
      BY <2>7, <3>1 DEF AnswerOf, Numbered
    <3> QED BY <2>6, <2>7, <3>2, LabelsDiffer
  <2> QED BY <2>2, <2>4, <2>7, <2>8
<1>5. CASE h[n].role = "assistant"
  <2>1. PICK s \in 1..b : AnswerOf(s, h[n])
    BY <1>5, TurnIs
  <2>2. s \in Nat
    OBVIOUS
  <2>3. Names(items, h[n].calls)
    BY <2>1, <2>2, AnswerItems
  <2>4. PICK e \in DOMAIN h[n].calls : items[k] = UseOf(h[n].calls[e])
    BY <1>1, <2>3 DEF Names
  <2>5. items[k].type = "call"
    BY <2>4 DEF UseOf
  <2> QED BY <1>1, <2>5
<1> QED BY <1>2, <1>3, <1>4, <1>5

StandsOnce(f, h, M, pos, a, c) ==
  \E k \in DOMAIN ItemsIn(f, h[a]) :
    UsedAt(M, h[a].calls[c].label) = {pos[a, k]} /\ ResultAt(M, h[a].calls[c].label) = {pos[a + c, 1]}

\* A call that the items of its answer name, and its result, stand once in the messages.
LEMMA PairPlaced ==
  ASSUME NEW b \in Nat, NEW h, Talks(h, b), NEW f \in Formats, NEW M, NEW pos, Placed(f, h, M, pos),
         NEW a \in Answering(h), NEW c \in DOMAIN h[a].calls, NamesAll(ItemsIn(f, h[a]), h[a].calls)
  PROVE  StandsOnce(f, h, M, pos, a, c)
<1> DEFINE label == h[a].calls[c].label
           use == [type |-> "call", label |-> label]
           result == [type |-> "result", label |-> label]
<1>1. use = UseOf(h[a].calls[c]) /\ use.type = "call" /\ a \in DOMAIN h
  BY DEF UseOf, Answering
<1>2. PICK k \in DOMAIN ItemsIn(f, h[a]) : ItemsIn(f, h[a])[k] = use
  BY <1>1 DEF NamesAll
<1>3. ASSUME NEW l \in DOMAIN ItemsIn(f, h[a]), ItemsIn(f, h[a])[l] = use PROVE l = k
  <2>1. PICK s \in 1..b : AnswerOf(s, h[a])
    BY TurnIs DEF Answering
  <2>2. s \in Nat
    OBVIOUS
  <2>3. Names(ItemsIn(f, h[a]), h[a].calls)
    BY <2>1, <2>2, AnswerItems
  <2> QED BY <1>1, <1>2, <1>3, <2>3 DEF Names
<1>4. UsedAt(M, label) = {pos[a, k]}
  <2>1. pos[a, k] \in DOMAIN M /\ use \in Range(M[pos[a, k]].items)
    BY <1>1, <1>2 DEF Placed
  <2>2. ASSUME NEW q \in DOMAIN M, use \in Range(M[q].items) PROVE q = pos[a, k]
    <3>1. PICK n \in DOMAIN h : \E l \in DOMAIN ItemsIn(f, h[n]) : q = pos[n, l] /\ use = ItemsIn(f, h[n])[l]
      BY <2>2 DEF Placed
    <3>2. PICK l \in DOMAIN ItemsIn(f, h[n]) : q = pos[n, l] /\ use = ItemsIn(f, h[n])[l]
      BY <3>1
    <3>3. ItemsIn(f, h[n])[l] = UseOf(h[a].calls[c])
      BY <1>1, <3>2
    <3>4. n = a
      BY <3>3, CallItem
    <3>5. l = k
      BY <1>3, <3>2, <3>4
    <3> QED BY <3>2, <3>4, <3>5
  <2> QED BY <2>1, <2>2 DEF UsedAt
<1>5. ResultAt(M, label) = {pos[a + c, 1]}
  <2> DEFINE m == a + c
  <2>1. m \in DOMAIN h /\ h[m] = ToolResult(h[a].calls[c])
    BY DEF Talks, HasResult
  <2>2. ResultOf(h[m]) = result /\ h[m].role = "tool"
    <3>1. ResultOf(ToolResult(h[a].calls[c])) = result
      BY ResultIs
    <3>2. ToolResult(h[a].calls[c]).role = "tool"
      BY DEF ToolResult
    <3> QED BY <2>1, <3>1, <3>2
  <2>3. ItemsIn(f, h[m]) = <<result>>
    BY <2>1, <2>2, TalkItems
  <2>4. 1 \in DOMAIN ItemsIn(f, h[m]) /\ ItemsIn(f, h[m])[1] = result
    BY <2>3
  <2>5. pos[m, 1] \in DOMAIN M /\ result \in Range(M[pos[m, 1]].items)
    BY <2>1, <2>4 DEF Placed
  <2>6. ASSUME NEW q \in DOMAIN M, result \in Range(M[q].items) PROVE q = pos[m, 1]
    <3>1. PICK n \in DOMAIN h : \E l \in DOMAIN ItemsIn(f, h[n]) : q = pos[n, l] /\ result = ItemsIn(f, h[n])[l]
      BY <2>6 DEF Placed
    <3>2. PICK l \in DOMAIN ItemsIn(f, h[n]) : q = pos[n, l] /\ result = ItemsIn(f, h[n])[l]
      BY <3>1
    <3>3. ItemsIn(f, h[n])[l] = [type |-> "result", label |-> h[a].calls[c].label]
      BY <3>2
    <3>4. n = a + c /\ l = 1
      BY <3>3, ResultItem
    <3> QED BY <3>2, <3>4
  <2> QED BY <2>5, <2>6 DEF ResultAt
<1> QED BY <1>4, <1>5 DEF StandsOnce

\* Between an answer and the result of one of its calls are results alone.
LEMMA ResultsBetween ==
  ASSUME NEW b \in Nat, NEW h, Talks(h, b), NEW a \in Answering(h), NEW c \in DOMAIN h[a].calls
  PROVE  /\ a \in Nat /\ c \in Nat /\ a # 0 /\ c # 0 /\ a \in DOMAIN h /\ a + c \in DOMAIN h
         /\ \A n \in (a + 1)..(a + c) : n \in DOMAIN h /\ h[n].role = "tool"
<1>1. a \in DOMAIN h /\ a \in Nat /\ a # 0
  BY DEF Answering, Talks, Listed
<1>2. PICK s \in 1..b : AnswerOf(s, h[a])
  BY TurnIs DEF Answering
<1>3. PICK k \in Nat : DOMAIN h[a].calls = 1..k
  BY <1>2 DEF AnswerOf, Numbered
<1>4. ASSUME NEW d \in DOMAIN h[a].calls PROVE a + d \in DOMAIN h /\ h[a + d].role = "tool"
  <2>1. a + d \in DOMAIN h /\ h[a + d] = ToolResult(h[a].calls[d])
    BY DEF Talks, HasResult
  <2>2. ToolResult(h[a].calls[d]).role = "tool"
    BY DEF ToolResult
  <2> QED BY <2>1, <2>2
<1>5. ASSUME NEW n \in (a + 1)..(a + c) PROVE n \in DOMAIN h /\ h[n].role = "tool"
  <2>1. n - a \in DOMAIN h[a].calls /\ a + (n - a) = n
    BY <1>1, <1>3
  <2> QED BY <1>4, <2>1
<1> QED BY <1>1, <1>3, <1>4, <1>5

\* Every call of every answer that can be replayed is paired in a request.
Paired(f, h, M) ==
  \A a \in Answering(h) : MayReplay(f, h[a]) =>
    \A c \in DOMAIN h[a].calls :
      \E used, result \in DOMAIN M :
        /\ UsedAt(M, h[a].calls[c].label) = {used} /\ ResultAt(M, h[a].calls[c].label) = {result}
        /\ Follows(f, M, used, result)

\* Wherever a call is, its result is where the provider looks for it.
InOrder(f, h, M, pos) ==
  \A a \in Answering(h) : \A c \in DOMAIN h[a].calls : \A k \in DOMAIN ItemsIn(f, h[a]) :
    Follows(f, M, pos[a, k], pos[a + c, 1])

LEMMA PairsPlaced ==
  ASSUME NEW b \in Nat, NEW h, Talks(h, b), NEW f \in Formats, NEW M, NEW pos, Placed(f, h, M, pos), InOrder(f, h, M, pos)
  PROVE  Paired(f, h, M)
<1> SUFFICES ASSUME NEW a \in Answering(h), MayReplay(f, h[a]), NEW c \in DOMAIN h[a].calls
             PROVE  \E used, result \in DOMAIN M :
                      /\ UsedAt(M, h[a].calls[c].label) = {used} /\ ResultAt(M, h[a].calls[c].label) = {result}
                      /\ Follows(f, M, used, result)
  BY DEF Paired
<1>1. PICK s \in 1..b : AnswerOf(s, h[a])
  BY TurnIs DEF Answering
<1>2. s \in Nat
  OBVIOUS
<1>3. NamesAll(ItemsIn(f, h[a]), h[a].calls)
  BY <1>1, <1>2, AnswerItems
<1>4. StandsOnce(f, h, M, pos, a, c)
  BY <1>3, PairPlaced
<1> DEFINE label == h[a].calls[c].label
<1>5. PICK k \in DOMAIN ItemsIn(f, h[a]) : UsedAt(M, label) = {pos[a, k]} /\ ResultAt(M, label) = {pos[a + c, 1]}
  BY <1>4 DEF StandsOnce
<1>6. UsedAt(M, label) \subseteq DOMAIN M /\ ResultAt(M, label) \subseteq DOMAIN M
  BY DEF UsedAt, ResultAt
<1> HIDE DEF label
<1>7. pos[a, k] \in DOMAIN M /\ pos[a + c, 1] \in DOMAIN M
  BY <1>5, <1>6
<1> QED BY <1>5, <1>7 DEF label, InOrder

----------------------------------------------------------------------------
(* Chat messages: one for one.                                             *)

LEMMA ChatPairs ==
  ASSUME NEW b \in Nat, NEW h, Talks(h, b)
  PROVE  Paired("chat", h, ChatMessages(h))
<1> DEFINE f == "chat"
           M == ChatMessages(h)
           pos == [x \in Nat \X Nat |-> x[1]]
<1>0. f \in Formats
  BY DEF Formats
<1>1. ASSUME NEW n \in DOMAIN h PROVE M[n].role = h[n].role /\ M[n].items = ItemsIn(f, h[n])
  <2>1. h[n].role \in {"user", "assistant", "tool"}
    BY TurnIs
  <2>2. h[n].role = "assistant" => h[n].raw.format # f
    <3>1. ASSUME NEW s \in 1..b, AnswerOf(s, h[n]) PROVE h[n].raw.format # f
      BY <3>1 DEF AnswerOf, Sound, RawTells, NoRaw
    <3> QED BY <3>1, TurnIs
  <2>3. M[n] = ChatMessage(h[n])
    BY DEF ChatMessages
  <2>4. ChatMessage(h[n]) = Sent(h[n].role, ItemsIn(f, h[n]))
    BY <2>1, <2>2 DEF ChatMessage, ItemsIn
  <2> QED BY <2>3, <2>4 DEF Sent
<1>2. DOMAIN M = DOMAIN h
  BY DEF ChatMessages
<1> HIDE DEF M, f
<1>3. ASSUME NEW n \in DOMAIN h, NEW k \in DOMAIN ItemsIn(f, h[n]) PROVE pos[n, k] = n
  <2>1. n \in Nat /\ ItemsIn(f, h[n]) \in Seq(Items)
    BY <1>0, TurnIs, TalkItems
  <2>2. k \in Nat
    BY <2>1
  <2> QED BY <2>1, <2>2
<1>4. ASSUME NEW a \in Answering(h), NEW c \in DOMAIN h[a].calls PROVE pos[a + c, 1] = a + c
  <2>1. a \in Nat /\ c \in Nat
    BY ResultsBetween
  <2> DEFINE m == a + c
  <2>2. m \in Nat
    BY <2>1
  <2> HIDE DEF m
  <2>3. pos[m, 1] = m
    BY <2>2
  <2> QED BY <2>3 DEF m
<1> HIDE DEF pos
<1>5. Placed(f, h, M, pos)
  <2>1. ASSUME NEW n \in DOMAIN h, NEW k \in DOMAIN ItemsIn(f, h[n])
        PROVE  pos[n, k] \in DOMAIN M /\ ItemsIn(f, h[n])[k] \in Range(M[pos[n, k]].items)
    BY <1>1, <1>2, <1>3 DEF Range
  <2>2. ASSUME NEW q \in DOMAIN M, NEW item \in Range(M[q].items)
        PROVE  \E n \in DOMAIN h : \E k \in DOMAIN ItemsIn(f, h[n]) : q = pos[n, k] /\ item = ItemsIn(f, h[n])[k]
    <3>1. q \in DOMAIN h /\ item \in Range(ItemsIn(f, h[q]))
      BY <1>1, <1>2
    <3>2. PICK k \in DOMAIN ItemsIn(f, h[q]) : item = ItemsIn(f, h[q])[k]
      BY <3>1 DEF Range
    <3> QED BY <1>3, <3>1, <3>2
  <2> QED BY <2>1, <2>2 DEF Placed
<1>6. ASSUME NEW a \in Answering(h), NEW c \in DOMAIN h[a].calls, NEW k \in DOMAIN ItemsIn(f, h[a])
      PROVE  Follows(f, M, pos[a, k], pos[a + c, 1])
  <2>1. /\ a \in Nat /\ c \in Nat /\ a # 0 /\ c # 0 /\ a \in DOMAIN h
        /\ \A n \in (a + 1)..(a + c) : n \in DOMAIN h /\ h[n].role = "tool"
    BY ResultsBetween
  <2>2. a < a + c
    BY <2>1
  <2>3. \A n \in (a + 1)..(a + c) : M[n].role # "user"
    BY <1>1, <2>1
  <2>4. pos[a, k] = a /\ pos[a + c, 1] = a + c
    BY <1>3, <1>4, <2>1
  <2>5. f # "anthropic"
    BY DEF f
  <2> DEFINE m == a + c
  <2>6. a < m /\ \A n \in (a + 1)..m : M[n].role # "user"
    BY <2>2, <2>3
  <2> HIDE DEF m
  <2> QED BY <2>4, <2>5, <2>6 DEF Follows, m
<1>7. InOrder(f, h, M, pos)
  BY <1>6 DEF InOrder
<1>8. Paired(f, h, M)
  BY <1>0, <1>5, <1>7, PairsPlaced
<1> QED BY <1>8 DEF f, M

----------------------------------------------------------------------------
(* A list of items, message after message.                                 *)

\* P is made by putting the sequences T[1], T[2] ... behind each other.
Appends(N, P, T) ==
  /\ P[0] = <<>>
  /\ \A n \in 1..N : Listed(T[n]) /\ P[n] = P[n - 1] \o T[n]

Within(p, q) == Len(p) \in Nat /\ Len(q) \in Nat /\ Len(p) <= Len(q)

\* What P has after j of them.
HasUpto(P, T, j) ==
  /\ Listed(P[j])
  /\ \A n \in 0..j : Within(P[n], P[j])
  /\ \A n \in 1..j : \A k \in DOMAIN T[n] : Len(P[n - 1]) + k \in DOMAIN P[j] /\ P[j][Len(P[n - 1]) + k] = T[n][k]
  /\ \A q \in DOMAIN P[j] : \E n \in 1..j : \E k \in DOMAIN T[n] : q = Len(P[n - 1]) + k

LEMMA AppendsStart ==
  ASSUME NEW P, NEW T, P[0] = <<>>
  PROVE  HasUpto(P, T, 0)
<1>1. Listed(P[0]) /\ Len(P[0]) = 0 /\ DOMAIN P[0] = {}
  BY NothingHeard
<1>2. \A n \in 0..0 : n = 0
  OBVIOUS
<1>3. \A n \in 1..0 : FALSE
  OBVIOUS
<1>4. \A n \in 0..0 : Within(P[n], P[0])
  BY <1>1, <1>2 DEF Within
<1> QED BY <1>1, <1>3, <1>4 DEF HasUpto

LEMMA AppendsMore ==
  ASSUME NEW P, NEW T, NEW j \in Nat, j # 0, HasUpto(P, T, j - 1), Listed(T[j]), P[j] = P[j - 1] \o T[j]
  PROVE  HasUpto(P, T, j) /\ Len(P[j]) = Len(P[j - 1]) + Len(T[j])
<1> DEFINE i == j - 1
           p == P[i]
           t == T[j]
           u == P[j]
<1>0. i \in Nat /\ j = i + 1 /\ (\A n \in 0..j : n \in 0..i \/ n = j) /\ (\A n \in 1..j : n \in 1..i \/ n = j) /\ j \in 1..j
  OBVIOUS
<1>1. HasUpto(P, T, i) /\ Listed(p) /\ Listed(t) /\ u = p \o t
  BY DEF HasUpto
<1> HIDE DEF i
<1>2. /\ Listed(u) /\ Len(u) = Len(p) + Len(t) /\ Len(p) \in Nat /\ Len(t) \in Nat /\ DOMAIN p \subseteq DOMAIN u
      /\ \A q \in DOMAIN p : u[q] = p[q]
  <2> HIDE DEF p, t, u
  <2>1. /\ Listed(u) /\ Len(u) = Len(p) + Len(t) /\ Len(p) \in Nat /\ Len(t) \in Nat
        /\ DOMAIN p = 1..Len(p) /\ DOMAIN u = 1..(Len(p) + Len(t))
    BY <1>1, Joined
  <2>2. \A q \in DOMAIN p : u[q] = p[q]
    BY <1>1, Joined
  <2> QED BY <2>1, <2>2
<1>3. \A q \in DOMAIN u : q \in DOMAIN p \/ \E k \in DOMAIN t : q = Len(p) + k
  <2> HIDE DEF p, t, u
  <2> QED BY ZenonT(30), <1>1, Joined
<1>4. \A k \in DOMAIN t : Len(p) + k \in DOMAIN u /\ u[Len(p) + k] = t[k]
  <2> HIDE DEF p, t, u
  <2> QED BY <1>1, Behind
<1>5. ASSUME NEW n \in 0..j PROVE Within(P[n], u)
  <2>1. CASE n \in 0..i
    <3>1. Within(P[n], p)
      BY <1>1, <2>1 DEF HasUpto
    <3> HIDE DEF p, u
    <3> QED BY <1>2, <3>1 DEF Within
  <2>2. CASE n = j
    <3>1. P[n] = u
      BY <2>2
    <3> HIDE DEF p, u
    <3>2. Len(u) \in Nat
      BY <1>2
    <3> QED BY <3>1, <3>2 DEF Within
  <2> QED BY <1>0, <2>1, <2>2
<1>6. ASSUME NEW n \in 1..j, NEW k \in DOMAIN T[n]
      PROVE  Len(P[n - 1]) + k \in DOMAIN u /\ u[Len(P[n - 1]) + k] = T[n][k]
  <2>1. CASE n \in 1..i
    BY <1>1, <1>2, <2>1 DEF HasUpto
  <2>2. CASE n = j
    BY <1>4, <2>2 DEF i
  <2> QED BY <1>0, <2>1, <2>2
<1>7. ASSUME NEW q \in DOMAIN u PROVE \E n \in 1..j : \E k \in DOMAIN T[n] : q = Len(P[n - 1]) + k
  <2>1. CASE q \in DOMAIN p
    <3>1. \E n \in 1..i : \E k \in DOMAIN T[n] : q = Len(P[n - 1]) + k
      BY <1>1, <2>1 DEF HasUpto
    <3> QED BY <1>0, <3>1
  <2>2. ASSUME NEW k \in DOMAIN t, q = Len(p) + k PROVE \E n \in 1..j : \E l \in DOMAIN T[n] : q = Len(P[n - 1]) + l
    BY <1>0, <2>2 DEF i
  <2> QED BY <1>3, <2>1, <2>2
<1> QED BY <1>2, <1>5, <1>6, <1>7 DEF HasUpto, i

AllUpto(N, P, T) ==
  /\ \A j \in 0..N : HasUpto(P, T, j)
  /\ \A j \in 1..N : Len(P[j]) = Len(P[j - 1]) + Len(T[j])

LEMMA AppendsAll ==
  ASSUME NEW N \in Nat, NEW P, NEW T, Appends(N, P, T)
  PROVE  AllUpto(N, P, T)
<1> DEFINE Bad == {j \in 0..N : ~HasUpto(P, T, j)}
<1>1. ASSUME NEW j \in 1..N, HasUpto(P, T, j - 1) PROVE HasUpto(P, T, j) /\ Len(P[j]) = Len(P[j - 1]) + Len(T[j])
  <2>0. j \in Nat /\ j # 0
    OBVIOUS
  <2>1. Listed(T[j]) /\ P[j] = P[j - 1] \o T[j]
    BY DEF Appends
  <2> QED BY <1>1, <2>0, <2>1, AppendsMore
<1>2. ASSUME Bad # {} PROVE FALSE
  <2>1. Bad \subseteq Nat
    OBVIOUS
  <2>2. PICK j \in Bad : \A m \in Bad : j <= m
    <3> HIDE DEF Bad
    <3> QED BY <1>2, <2>1, Least
  <2>3. CASE j = 0
    BY <2>2, <2>3, AppendsStart DEF Appends
  <2>4. CASE j # 0
    <3>1. j \in 1..N /\ j - 1 \in 0..N /\ ~(j <= j - 1)
      BY <2>2, <2>4
    <3>2. j - 1 \notin Bad
      BY <2>2, <3>1
    <3> QED BY <1>1, <2>2, <3>1, <3>2
  <2> QED BY <2>3, <2>4
<1>3. \A j \in 0..N : HasUpto(P, T, j)
  BY <1>2
<1>4. \A j \in 1..N : j - 1 \in 0..N
  OBVIOUS
<1> HIDE DEF Bad
<1> QED BY <1>1, <1>3, <1>4 DEF AllUpto

----------------------------------------------------------------------------
(* The input of the Responses API: the items of a message, one by one.     *)

InputOf(m) == [k \in DOMAIN ItemsIn("responses", m) |-> Sent(m.role, <<ItemsIn("responses", m)[k]>>)]

Inputs(h) == [n \in 1..Len(h) |-> InputOf(h[n])]
InputAfter(h) == [n \in 0..Len(h) |-> AfterInput(h, n)]

LEMMA InputAppends ==
  ASSUME NEW b \in Nat, NEW h, Talks(h, b)
  PROVE  /\ Appends(Len(h), InputAfter(h), Inputs(h)) /\ ResponsesInput(h) = InputAfter(h)[Len(h)]
         /\ Len(h) \in Nat /\ DOMAIN h = 1..Len(h)
<1> DEFINE f == "responses"
           P == InputAfter(h)
           T == Inputs(h)
<1>1. AllEncodable(h) /\ Len(h) \in Nat /\ DOMAIN h = 1..Len(h) /\ f \in Formats
  BY TalkEncodable DEF Talks, Listed, Formats
<1>2. /\ AfterInput(h, 0) = <<>> /\ ResponsesInput(h) = AfterInput(h, Len(h))
      /\ \A n \in 1..Len(h) : AfterInput(h, n) = AddInput(AfterInput(h, n - 1), h[n])
  BY <1>1, InputChain
<1>3. /\ 0 \in 0..Len(h) /\ Len(h) \in 0..Len(h) /\ \A n \in 1..Len(h) : n \in 0..Len(h) /\ n - 1 \in 0..Len(h)
  BY <1>1
<1>4. P[0] = <<>> /\ ResponsesInput(h) = P[Len(h)]
  BY <1>2, <1>3 DEF InputAfter
<1>5. ASSUME NEW n \in 1..Len(h) PROVE Listed(T[n]) /\ P[n] = P[n - 1] \o T[n]
  <2>1. ItemsIn(f, h[n]) \in Seq(Items) /\ h[n].role \in {"user", "assistant", "tool"}
    BY <1>1, TalkItems, TurnIs
  <2>2. ResponsesItems(h[n]) = ItemsIn(f, h[n])
    BY <2>1 DEF ResponsesItems, ItemsIn
  <2>3. P[n] = AddInput(P[n - 1], h[n])
    BY <1>2, <1>3 DEF InputAfter
  <2>4. T[n] = InputOf(h[n])
    BY DEF Inputs
  <2>5. P[n] = P[n - 1] \o T[n]
    BY <2>2, <2>3, <2>4 DEF AddInput, InputOf
  <2> DEFINE s == InputOf(h[n])
             items == ItemsIn(f, h[n])
             k == Len(items)
  <2>6. k \in Nat /\ DOMAIN items = 1..k
    BY <2>1
  <2>7. s = [l \in 1..k |-> s[l]]
    BY <2>6 DEF InputOf
  <2>8. \A l \in 1..k : s[l] \in Range(s)
    BY <2>7 DEF Range
  <2> HIDE DEF s, k
  <2>9. s \in [1..k -> Range(s)]
    BY <2>7, <2>8
  <2>10. Listed(s)
    BY <2>6, <2>9 DEF Listed
  <2> QED BY <2>4, <2>5, <2>10 DEF s
<1> QED BY <1>1, <1>4, <1>5 DEF Appends

\* Where item k of message n is.
InputAt(h) == [x \in Nat \X Nat |-> Len(InputAfter(h)[x[1] - 1]) + x[2]]

LEMMA PlaceIs ==
  ASSUME NEW b \in Nat, NEW h, Talks(h, b), NEW n \in DOMAIN h
  PROVE  /\ n \in Nat /\ n - 1 \in Nat /\ n - 1 <= n /\ n # 0
         /\ \A m \in Nat : m # 0 /\ m < n => n - 1 \in DOMAIN h /\ m <= n - 1
<1> DEFINE N == Len(h)
<1>1. N \in Nat /\ n \in 1..N /\ DOMAIN h = 1..N
  BY InputAppends
<1> HIDE DEF N
<1> QED BY <1>1

EachPlaced(h) ==
  /\ \A n \in DOMAIN h : \A k \in DOMAIN ItemsIn("responses", h[n]) :
       /\ InputAt(h)[n, k] = Len(InputAfter(h)[n - 1]) + k /\ InputAt(h)[n, k] \in DOMAIN ResponsesInput(h)
       /\ ResponsesInput(h)[InputAt(h)[n, k]] = Sent(h[n].role, <<ItemsIn("responses", h[n])[k]>>)
  /\ \A q \in DOMAIN ResponsesInput(h) :
       \E n \in DOMAIN h : \E k \in DOMAIN ItemsIn("responses", h[n]) : q = InputAt(h)[n, k]

LEMMA InputPlaces ==
  ASSUME NEW b \in Nat, NEW h, Talks(h, b)
  PROVE  EachPlaced(h)
<1> DEFINE f == "responses"
           P == InputAfter(h)
           T == Inputs(h)
           M == ResponsesInput(h)
           N == Len(h)
<1>1. Appends(N, P, T) /\ M = P[N] /\ N \in Nat /\ DOMAIN h = 1..N
  BY InputAppends
<1>2. HasUpto(P, T, N)
  <2>1. N \in 0..N
    BY <1>1
  <2> HIDE DEF P, T, N
  <2>2. AllUpto(N, P, T)
    BY <1>1, AppendsAll
  <2> QED BY <2>1, <2>2 DEF AllUpto
<1>3. \A n \in DOMAIN h : T[n] = InputOf(h[n])
  BY <1>1 DEF Inputs
<1>4. ASSUME NEW n \in DOMAIN h, NEW k \in DOMAIN ItemsIn(f, h[n])
      PROVE  InputAt(h)[n, k] = Len(P[n - 1]) + k /\ k \in DOMAIN T[n] /\ T[n][k] = Sent(h[n].role, <<ItemsIn(f, h[n])[k]>>)
  <2>1. f \in Formats
    BY DEF Formats
  <2>2. n \in Nat
    BY <1>1
  <2>3. ItemsIn(f, h[n]) \in Seq(Items)
    BY <2>1, TalkItems
  <2>4. k \in Nat
    BY <2>3
  <2>5. InputAt(h)[n, k] = Len(P[n - 1]) + k
    BY <2>2, <2>4 DEF InputAt
  <2>6. k \in DOMAIN T[n] /\ T[n][k] = Sent(h[n].role, <<ItemsIn(f, h[n])[k]>>)
    BY <1>3 DEF InputOf
  <2> QED BY <2>5, <2>6
<1>5. \A n \in DOMAIN h : DOMAIN T[n] = DOMAIN ItemsIn(f, h[n])
  BY <1>3 DEF InputOf
<1> HIDE DEF P, T, M, N, f
<1>6. ASSUME NEW n \in DOMAIN h, NEW k \in DOMAIN ItemsIn(f, h[n])
      PROVE  /\ InputAt(h)[n, k] = Len(P[n - 1]) + k /\ InputAt(h)[n, k] \in DOMAIN M
             /\ M[InputAt(h)[n, k]] = Sent(h[n].role, <<ItemsIn(f, h[n])[k]>>)
  <2>1. InputAt(h)[n, k] = Len(P[n - 1]) + k /\ k \in DOMAIN T[n] /\ T[n][k] = Sent(h[n].role, <<ItemsIn(f, h[n])[k]>>)
    BY <1>4
  <2>2. Len(P[n - 1]) + k \in DOMAIN P[N] /\ P[N][Len(P[n - 1]) + k] = T[n][k]
    BY <1>1, <1>2, <2>1 DEF HasUpto
  <2> QED BY <1>1, <2>1, <2>2
<1>7. ASSUME NEW q \in DOMAIN M PROVE \E n \in DOMAIN h : \E k \in DOMAIN ItemsIn(f, h[n]) : q = InputAt(h)[n, k]
  <2>1. PICK n \in 1..N : \E k \in DOMAIN T[n] : q = Len(P[n - 1]) + k
    BY <1>1, <1>2 DEF HasUpto
  <2>2. PICK k \in DOMAIN T[n] : q = Len(P[n - 1]) + k
    BY <2>1
  <2>3. n \in DOMAIN h /\ k \in DOMAIN ItemsIn(f, h[n])
    BY <1>1, <1>5, <2>2
  <2> QED BY <1>4, <2>2, <2>3
<1> QED BY <1>6, <1>7 DEF EachPlaced, f, P, M

\* How far the messages reach.
LEMMA InputReach ==
  ASSUME NEW b \in Nat, NEW h, Talks(h, b), NEW n \in DOMAIN h, NEW m \in Nat, m <= n
  PROVE  /\ Within(InputAfter(h)[m], InputAfter(h)[n])
         /\ Len(InputAfter(h)[n]) = Len(InputAfter(h)[n - 1]) + Len(ItemsIn("responses", h[n]))
<1> DEFINE P == InputAfter(h)
           T == Inputs(h)
           N == Len(h)
           items == ItemsIn("responses", h[n])
<1>1. Appends(N, P, T) /\ N \in Nat /\ DOMAIN h = 1..N
  BY InputAppends
<1>2. "responses" \in Formats
  BY DEF Formats
<1>3. items \in Seq(Items)
  BY <1>2, TalkItems
<1>4. T[n] = InputOf(h[n])
  BY <1>1 DEF Inputs
<1>5. T[n] = [k \in DOMAIN items |-> T[n][k]]
  BY <1>4 DEF InputOf
<1>6. n \in 0..N /\ n \in 1..N /\ m \in 0..n
  BY <1>1
<1> HIDE DEF P, T, N
<1>7. HasUpto(P, T, n) /\ Len(P[n]) = Len(P[n - 1]) + Len(T[n]) /\ Listed(T[n])
  <2>1. HasUpto(P, T, n) /\ Len(P[n]) = Len(P[n - 1]) + Len(T[n])
    <3>1. AllUpto(N, P, T)
      BY <1>1, AppendsAll
    <3> QED BY <1>6, <3>1 DEF AllUpto
  <2> QED BY <1>1, <1>6, <2>1 DEF Appends
<1> DEFINE t == T[n]
<1>8. Len(t) = Len(items)
  <2>1. DOMAIN t = DOMAIN items
    BY <1>5
  <2> HIDE DEF t, items
  <2>2. Len(t) \in Nat /\ Len(items) \in Nat /\ DOMAIN t = 1..Len(t) /\ DOMAIN items = 1..Len(items)
    BY <1>3, <1>7 DEF Listed, t
  <2> DEFINE x == Len(t)
             y == Len(items)
  <2>3. x \in Nat /\ y \in Nat /\ 1..x = 1..y
    BY <2>1, <2>2
  <2> HIDE DEF x, y
  <2>4. x = y
    <3>1. \A z \in Nat : z # 0 => z \in 1..z
      OBVIOUS
    <3>2. x # 0 => x \in 1..y
      BY <2>3, <3>1
    <3>3. y # 0 => y \in 1..x
      BY <2>3, <3>1
    <3> QED BY <2>3, <3>2, <3>3
  <2> QED BY <2>4 DEF x, y
<1>9. Within(P[m], P[n])
  BY <1>6, <1>7 DEF HasUpto
<1> QED BY <1>7, <1>8, <1>9 DEF P

LEMMA ResponsesPairs ==
  ASSUME NEW b \in Nat, NEW h, Talks(h, b)
  PROVE  Paired("responses", h, ResponsesInput(h))
<1> DEFINE f == "responses"
           M == ResponsesInput(h)
           pos == InputAt(h)
           P == InputAfter(h)
<1>0. f \in Formats
  BY DEF Formats
<1>1. \A n \in DOMAIN h : \A k \in DOMAIN ItemsIn(f, h[n]) :
        pos[n, k] = Len(P[n - 1]) + k /\ pos[n, k] \in DOMAIN M /\ M[pos[n, k]] = Sent(h[n].role, <<ItemsIn(f, h[n])[k]>>)
  <2>1. EachPlaced(h)
    BY InputPlaces
  <2> QED BY <2>1 DEF EachPlaced
<1>2. \A q \in DOMAIN M : \E n \in DOMAIN h : \E k \in DOMAIN ItemsIn(f, h[n]) : q = pos[n, k]
  <2>1. EachPlaced(h)
    BY InputPlaces
  <2> QED BY <2>1 DEF EachPlaced
<1>3. ASSUME NEW n \in DOMAIN h, NEW k \in DOMAIN ItemsIn(f, h[n])
      PROVE  M[pos[n, k]].role = h[n].role /\ Range(M[pos[n, k]].items) = {ItemsIn(f, h[n])[k]}
  <2> DEFINE item == ItemsIn(f, h[n])[k]
  <2>1. M[pos[n, k]] = Sent(h[n].role, <<item>>)
    BY <1>1
  <2> HIDE DEF item
  <2>2. Range(<<item>>) = {item}
    BY DEF Range
  <2> DEFINE m == M[pos[n, k]]
             r == h[n].role
  <2>3. m = [role |-> r, items |-> <<item>>]
    BY <2>1 DEF Sent
  <2> HIDE DEF m, r
  <2>4. m.role = r /\ m.items = <<item>>
    BY <2>3
  <2> QED BY <2>2, <2>4 DEF item, m, r
<1>4. ASSUME NEW a \in Answering(h), NEW c \in DOMAIN h[a].calls, NEW k \in DOMAIN ItemsIn(f, h[a])
      PROVE  Follows(f, M, pos[a, k], pos[a + c, 1])
  <2>1. /\ a \in Nat /\ c \in Nat /\ a # 0 /\ c # 0 /\ a \in DOMAIN h /\ a + c \in DOMAIN h
        /\ \A n \in (a + 1)..(a + c) : n \in DOMAIN h /\ h[n].role = "tool"
    BY ResultsBetween
  <2> DEFINE e == a + c
             used == pos[a, k]
             result == pos[e, 1]
             A == Len(P[a - 1])
             B == Len(P[a])
             C == Len(P[e - 1])
             D == Len(P[e])
  <2>2. e \in DOMAIN h /\ e \in Nat /\ a < e /\ h[e].role = "tool" /\ e \in (a + 1)..e /\ e - 1 \in Nat /\ a <= e - 1 /\ a - 1 \in Nat
    BY <2>1
  <2>3. h[a].role = "assistant"
    BY DEF Answering
  <2>4. \A n \in (a + 1)..e : h[n].role = "tool"
    BY <2>1
  <2> HIDE DEF e
  <2>5. ItemsIn(f, h[e]) = <<ResultOf(h[e])>>
    BY <1>0, <2>2, TalkItems
  <2>6. 1 \in DOMAIN ItemsIn(f, h[e]) /\ Len(ItemsIn(f, h[e])) = 1
    BY <2>5
  <2>7. used = A + k /\ result = C + 1 /\ result \in DOMAIN M
    BY <1>1, <2>1, <2>2, <2>6
  <2> HIDE DEF used, result
  <2>8. ItemsIn(f, h[a]) \in Seq(Items)
    BY <1>0, <2>1, TalkItems
  <2>9. k \in Nat /\ k # 0 /\ k <= Len(ItemsIn(f, h[a])) /\ Len(ItemsIn(f, h[a])) \in Nat
    BY <2>8
  <2>10. D = C + 1
    <3>1. e <= e
      BY <2>2
    <3> QED BY <2>2, <2>6, <3>1, InputReach
  <2>11. B = A + Len(ItemsIn(f, h[a])) /\ A \in Nat /\ B \in Nat
    <3>1. a - 1 <= a /\ a - 1 \in Nat
      BY <2>1
    <3>2. B = A + Len(ItemsIn(f, h[a])) /\ Within(P[a - 1], P[a])
      BY <2>1, <3>1, InputReach
    <3> QED BY <3>2 DEF Within
  <2>12. C \in Nat /\ B <= C
    <3>1. e - 1 \in DOMAIN h
      <4>1. Listed(h)
        BY DEF Talks
      <4>2. Len(h) \in Nat /\ DOMAIN h = 1..Len(h)
        BY <4>1 DEF Listed
      <4> QED BY <2>1, <2>2, <4>2
    <3>2. Within(P[a], P[e - 1])
      BY <2>1, <2>2, <3>1, InputReach
    <3> QED BY <3>2 DEF Within
  <2>13. used < result
    <3> HIDE DEF A, B, C, used, result
    <3> DEFINE l == Len(ItemsIn(f, h[a]))
    <3>1. l \in Nat /\ k <= l /\ k \in Nat /\ B = A + l
      BY <2>9, <2>11
    <3> HIDE DEF l
    <3> QED BY <2>7, <2>11, <2>12, <3>1
  <2>14. ASSUME NEW q \in (used + 1)..result PROVE M[q].role # "user"
    <3>1. q \in Int /\ used < q /\ q <= result /\ used \in Nat /\ result \in Nat
      <4> HIDE DEF used, result, A, C
      <4> QED BY <2>7, <2>9, <2>11, <2>12
    <3>2. q \in DOMAIN M
      <4>1. M \in Seq(Wire)
        <5>1. AllEncodable(h) /\ Len(h) \in Nat
          BY TalkEncodable, InputAppends
        <5>2. Len(h) \in 0..Len(h)
          BY <5>1
        <5> QED BY <5>1, <5>2, InputChain
      <4>2. Len(M) \in Nat /\ DOMAIN M = 1..Len(M)
        <5> HIDE DEF M
        <5> QED BY <4>1
      <4> HIDE DEF M, used, result
      <4> QED BY <2>7, <3>1, <4>2
    <3>3. PICK n \in DOMAIN h : \E l \in DOMAIN ItemsIn(f, h[n]) : q = pos[n, l]
      BY <1>2, <3>2
    <3>4. PICK l \in DOMAIN ItemsIn(f, h[n]) : q = pos[n, l]
      BY <3>3
    <3> DEFINE X == Len(P[n - 1])
               Y == Len(P[n])
               z == Len(ItemsIn(f, h[n]))
    <3>5. q = X + l /\ M[q].role = h[n].role
      BY <1>1, <1>3, <3>4
    <3>6. n \in Nat /\ n - 1 \in Nat /\ n - 1 <= n /\ n # 0
      BY PlaceIs
    <3>7. Y = X + z /\ X \in Nat /\ Y \in Nat
      <4>1. Y = X + z /\ Within(P[n - 1], P[n])
        BY <3>6, InputReach
      <4> QED BY <4>1 DEF Within
    <3>8. l \in Nat /\ l # 0 /\ l <= z /\ z \in Nat
      <4> DEFINE items == ItemsIn(f, h[n])
      <4>1. items \in Seq(Items) /\ l \in DOMAIN items
        BY <1>0, TalkItems
      <4> HIDE DEF items
      <4>2. l \in Nat /\ l # 0 /\ l <= Len(items) /\ Len(items) \in Nat
        BY <4>1
      <4> QED BY <4>2 DEF items
    <3>9. ~(n < a)
      <4>1. SUFFICES ASSUME n < a PROVE FALSE
        OBVIOUS
      <4>2. Within(P[n], P[a - 1])
        <5>1. a - 1 \in DOMAIN h /\ n <= a - 1
          BY <2>1, <3>6, <4>1, PlaceIs
        <5> QED BY <3>6, <5>1, InputReach
      <4>3. Y <= A
        BY <4>2 DEF Within
      <4> HIDE DEF used, result, A, C, X, Y, z
      <4> QED BY <2>7, <2>9, <2>11, <3>1, <3>5, <3>7, <3>8, <4>3
    <3>10. ~(e < n)
      <4>1. SUFFICES ASSUME e < n PROVE FALSE
        OBVIOUS
      <4>2. Within(P[e], P[n - 1])
        <5>1. n - 1 \in DOMAIN h /\ e <= n - 1
          BY <2>2, <3>6, <4>1, PlaceIs
        <5> QED BY <2>2, <5>1, InputReach
      <4>3. D <= X
        BY <4>2 DEF Within
      <4> HIDE DEF used, result, A, C, D, X, Y, z
      <4> QED BY <2>7, <2>10, <2>12, <3>1, <3>5, <3>7, <3>8, <4>3
    <3>11. n = a \/ n \in (a + 1)..e
      <4>1. a \in Nat /\ e \in Nat /\ n \in Nat
        BY <2>1, <2>2, <3>6
      <4> HIDE DEF e
      <4> QED BY <3>9, <3>10, <4>1
    <3> QED BY <2>3, <2>4, <3>5, <3>11
  <2>15. f # "anthropic"
    BY DEF f
  <2>16. used < result /\ \A q \in (used + 1)..result : M[q].role # "user"
    BY <2>13, <2>14
  <2> HIDE DEF used, result, f, M
  <2>17. Follows(f, M, used, result)
    BY <2>15, <2>16 DEF Follows
  <2> QED BY <2>17 DEF used, result, e
<1> HIDE DEF M, pos, f
<1>5. Placed(f, h, M, pos)
  <2>1. ASSUME NEW n \in DOMAIN h, NEW k \in DOMAIN ItemsIn(f, h[n])
        PROVE  pos[n, k] \in DOMAIN M /\ ItemsIn(f, h[n])[k] \in Range(M[pos[n, k]].items)
    BY <1>1, <1>3
  <2>2. ASSUME NEW q \in DOMAIN M, NEW item \in Range(M[q].items)
        PROVE  \E n \in DOMAIN h : \E k \in DOMAIN ItemsIn(f, h[n]) : q = pos[n, k] /\ item = ItemsIn(f, h[n])[k]
    <3>1. PICK n \in DOMAIN h : \E k \in DOMAIN ItemsIn(f, h[n]) : q = pos[n, k]
      BY <1>2
    <3>2. PICK k \in DOMAIN ItemsIn(f, h[n]) : q = pos[n, k]
      BY <3>1
    <3>3. item = ItemsIn(f, h[n])[k]
      BY <1>3, <3>2
    <3> QED BY <3>2, <3>3
  <2> QED BY <2>1, <2>2 DEF Placed
<1>6. InOrder(f, h, M, pos)
  BY <1>4 DEF InOrder
<1>7. Paired(f, h, M)
  BY <1>0, <1>5, <1>6, PairsPlaced
<1> QED BY <1>7 DEF f, M

----------------------------------------------------------------------------
(* The messages of Anthropic: a result may join the last message.          *)

LEMMA SameEnd ==
  ASSUME NEW k \in Nat, NEW l \in Nat, 1..k = 1..l
  PROVE  k = l
<1>1. k # 0 => k \in 1..l
  <2>1. k # 0 => k \in 1..k
    OBVIOUS
  <2> QED BY <2>1
<1>2. l # 0 => l \in 1..k
  <2>1. l # 0 => l \in 1..l
    OBVIOUS
  <2> QED BY <2>1
<1>3. k # 0 => k <= l
  BY <1>1
<1>4. l # 0 => l <= k
  BY <1>2
<1> QED BY <1>3, <1>4

LEMMA FunctionListed ==
  ASSUME NEW l \in Nat, NEW y, y = [q \in 1..l |-> y[q]]
  PROVE  Listed(y) /\ Len(y) = l
<1> DEFINE Y == Range(y)
<1>1. \A q \in 1..l : y[q] \in Y
  BY DEF Range
<1> HIDE DEF Y
<1>2. [q \in 1..l |-> y[q]] \in [1..l -> Y]
  BY <1>1
<1>3. y \in [1..l -> Y]
  BY <1>2
<1>4. y \in Seq(Y) /\ Len(y) = l
  <2>1. ASSUME NEW z \in [1..l -> Y] PROVE z \in Seq(Y) /\ Len(z) = l
    <3>1. z \in Seq(Y)
      OBVIOUS
    <3>2. Len(z) \in Nat /\ DOMAIN z = 1..Len(z) /\ DOMAIN z = 1..l
      BY <3>1
    <3> QED BY <3>1, <3>2, SameEnd
  <2> QED BY <1>3, <2>1
<1> QED BY <1>4 DEF Y, Listed

\* The messages y have what x have, where they are, and in their last message the items
\* added, and nothing else.
Gains(x, y, added) ==
  /\ y # <<>> /\ Len(y) \in DOMAIN y /\ Range(added) \subseteq Range(y[Len(y)].items)
  /\ \A q \in DOMAIN x : q \in DOMAIN y /\ Range(x[q].items) \subseteq Range(y[q].items)
  /\ \A q \in DOMAIN y : \A item \in Range(y[q].items) :
       \/ q \in DOMAIN x /\ item \in Range(x[q].items)
       \/ q = Len(y) /\ item \in Range(added)

LEMMA AppendGains ==
  ASSUME NEW x \in Seq(Wire), NEW new \in Wire, NEW y, y = Append(x, new)
  PROVE  Gains(x, y, new.items) /\ Len(y) = Len(x) + 1 /\ Last(y) = new
<1> DEFINE l == Len(x)
<1>1. l \in Nat /\ DOMAIN x = 1..l
  OBVIOUS
<1>2. Len(y) = l + 1 /\ DOMAIN y = 1..(l + 1) /\ y[l + 1] = new /\ \A q \in 1..l : y[q] = x[q]
  BY AppendProperties
<1> HIDE DEF l
<1>3. y # <<>>
  <2>1. y = <<>> => DOMAIN y = {}
    BY NothingHeard
  <2> QED BY <1>1, <1>2, <2>1
<1>4. Len(y) \in DOMAIN y /\ y[Len(y)] = new /\ (\A q \in DOMAIN x : q \in DOMAIN y /\ y[q] = x[q])
  BY <1>1, <1>2
<1>5. \A q \in DOMAIN y : q \in DOMAIN x \/ q = Len(y)
  BY <1>1, <1>2
<1>6. Last(y) = new
  BY <1>4 DEF Last
<1>7. Gains(x, y, new.items)
  BY <1>3, <1>4, <1>5 DEF Gains
<1> QED BY <1>2, <1>6, <1>7 DEF l

LEMMA RangeOfAppend ==
  ASSUME NEW s \in Seq(Items), NEW item \in Items
  PROVE  Range(Append(s, item)) = Range(s) \cup {item} /\ Append(s, item)[Len(s) + 1] = item /\ Append(s, item) \in Seq(Items)
<1> DEFINE l == Len(s)
           t == Append(s, item)
<1>1. l \in Nat /\ DOMAIN s = 1..l
  OBVIOUS
<1>2. DOMAIN t = 1..(l + 1) /\ t[l + 1] = item /\ (\A q \in 1..l : t[q] = s[q]) /\ t \in Seq(Items)
  BY AppendProperties
<1> HIDE DEF l, t
<1>3. \A x \in Range(s) : x \in Range(t)
  <2>1. \A q \in 1..l : q \in 1..(l + 1)
    BY <1>1
  <2> QED BY <1>1, <1>2, <2>1 DEF Range
<1>4. l + 1 \in DOMAIN t
  BY <1>1, <1>2
<1>5. item \in Range(t)
  BY <1>2, <1>4 DEF Range
<1>6. \A q \in DOMAIN t : q \in DOMAIN s \/ q = l + 1
  BY <1>1, <1>2
<1>7. ASSUME NEW x \in Range(t) PROVE x \in Range(s) \cup {item}
  <2>1. PICK q \in DOMAIN t : x = t[q]
    BY <1>7 DEF Range
  <2> QED BY <1>1, <1>2, <1>6, <2>1 DEF Range
<1> QED BY <1>2, <1>3, <1>5, <1>7 DEF t, l

Replaces(x, y, new, item) == new = Sent("user", Append(x[Len(x)].items, item)) /\ y = [x EXCEPT ![Len(x)] = new]

LEMMA ReplaceGains ==
  ASSUME NEW x \in Seq(Wire), x # <<>>, NEW item \in Items, NEW new, NEW y, Replaces(x, y, new, item)
  PROVE  Gains(x, y, <<item>>) /\ Len(y) = Len(x) /\ Last(y) = new /\ x[Len(x)].items \in Seq(Items)
<1> DEFINE l == Len(x)
           old == x[l].items
<1>1. l \in Nat /\ DOMAIN x = 1..l /\ l \in DOMAIN x /\ l # 0
  OBVIOUS
<1>2. old \in Seq(Items)
  <2> DEFINE m == x[l]
  <2>1. m \in Wire
    BY <1>1
  <2> HIDE DEF m
  <2>2. m.items \in Seq(Items)
    BY <2>1 DEF Wire
  <2> QED BY <2>2 DEF m
<1>3. new.items = Append(old, item)
  BY DEF Replaces, Sent
<1>4. y = [x EXCEPT ![l] = new]
  BY DEF Replaces
<1> HIDE DEF l, old
<1>5. Range(new.items) = Range(old) \cup {item} /\ new.items \in Seq(Items)
  BY <1>2, <1>3, RangeOfAppend
<1>6. DOMAIN y = 1..l /\ y[l] = new /\ \A q \in 1..l : q # l => y[q] = x[q]
  BY <1>1, <1>4
<1>7. Len(y) = l
  <2>1. y = [q \in 1..l |-> y[q]]
    BY <1>1, <1>4
  <2> QED BY <1>1, <2>1, FunctionListed
<1>8. Range(<<item>>) = {item}
  BY DEF Range
<1>9. y # <<>>
  <2>1. y = <<>> => DOMAIN y = {}
    BY NothingHeard
  <2> QED BY <1>1, <1>6, <2>1
<1>10. ASSUME NEW q \in DOMAIN x PROVE q \in DOMAIN y /\ Range(x[q].items) \subseteq Range(y[q].items)
  BY <1>1, <1>5, <1>6 DEF old
<1>11. ASSUME NEW q \in DOMAIN y, NEW it \in Range(y[q].items)
       PROVE  (q \in DOMAIN x /\ it \in Range(x[q].items)) \/ (q = Len(y) /\ it \in Range(<<item>>))
  <2>1. CASE q = l
    <3>1. it \in Range(old) \cup {item}
      BY <1>5, <1>6, <1>11, <2>1
    <3> QED BY <1>1, <1>7, <1>8, <2>1, <3>1 DEF old
  <2>2. CASE q # l
    BY <1>1, <1>6, <1>11, <2>2
  <2> QED BY <2>1, <2>2
<1>12. Len(y) \in DOMAIN y /\ Range(<<item>>) \subseteq Range(y[Len(y)].items)
  BY <1>1, <1>5, <1>6, <1>7, <1>8
<1>13. Last(y) = new
  BY <1>6, <1>7 DEF Last
<1>14. Gains(x, y, <<item>>)
  BY <1>9, <1>10, <1>11, <1>12 DEF Gains
<1> QED BY <1>2, <1>7, <1>13, <1>14 DEF l, old

\* What a message does to the messages before it.
Mapped(x, y, m) ==
  /\ Gains(x, y, ItemsIn("anthropic", m))
  /\ TakesResult(y) <=> m.role = "tool"
  /\ Len(y) = IF m.role = "tool" /\ TakesResult(x) THEN Len(x) ELSE Len(x) + 1

LEMMA AddMapped ==
  ASSUME NEW m, Encodable(m), NEW x \in Seq(Wire)
  PROVE  Mapped(x, AddMessage(x, m), m)
<1> DEFINE y == AddMessage(x, m)
           f == "anthropic"
<1>1. m.role \in {"user", "assistant", "tool"}
  BY DEF Encodable
<1>2. /\ m.role = "tool" => ItemsIn(f, m) = <<ResultOf(m)>> /\ ResultOf(m) \in Items
      /\ m.role = "assistant" => ItemsIn(f, m) = AssistantContent(m) /\ AssistantContent(m) \in Seq(Items)
      /\ m.role = "user" => ItemsIn(f, m) = <<Text>>
  BY DEF ItemsIn, AssistantContent, Encodable
<1>3. ResultOf(m).type = "result" /\ Text.type = "text"
  BY DEF ResultOf, Text
<1>4. CASE m.role = "tool" /\ TakesResult(x)
  <2> DEFINE item == ResultOf(m)
             old == x[Len(x)].items
             new == Sent("user", Append(old, item))
  <2>1. y = [x EXCEPT ![Len(x)] = new]
    BY <1>4, AddMessageCases DEF ReplaceAt, Last
  <2>2. x # <<>> /\ item \in Items
    BY <1>2, <1>4 DEF TakesResult
  <2> HIDE DEF y, item
  <2>3. Gains(x, y, <<item>>) /\ Len(y) = Len(x) /\ Last(y) = new /\ old \in Seq(Items)
    <3> HIDE DEF new
    <3>1. Replaces(x, y, new, item)
      BY <2>1 DEF Replaces, new
    <3> QED BY <2>2, <3>1, ReplaceGains
  <2> HIDE DEF old
  <2>4. new.role = "user" /\ new.items = Append(old, item)
    BY DEF Sent
  <2>5. Append(old, item) # <<Text>>
    <3> DEFINE l == Len(old)
               t == Append(old, item)
    <3>1. t[l + 1] = item /\ DOMAIN t = 1..(l + 1) /\ l \in Nat
      BY <2>2, <2>3, RangeOfAppend, AppendProperties
    <3>2. <<Text>>[1] = Text /\ DOMAIN <<Text>> = 1..1
      OBVIOUS
    <3> HIDE DEF l, t
    <3>3. SUFFICES ASSUME t = <<Text>> PROVE FALSE
      BY DEF t
    <3>4. l = 0
      BY <3>1, <3>2, <3>3
    <3>5. item = Text
      BY <3>1, <3>2, <3>3, <3>4
    <3> QED BY <1>3, <3>5 DEF item
  <2> HIDE DEF new
  <2>6. TakesResult(y)
    BY <2>3, <2>4, <2>5 DEF TakesResult, Gains
  <2>7. Gains(x, y, ItemsIn(f, m))
    BY <1>2, <1>4, <2>3 DEF item
  <2> QED BY <1>4, <2>3, <2>6, <2>7 DEF Mapped, y
<1>5. ASSUME NEW new \in Wire, y = Append(x, new), new.items = ItemsIn(f, m), ~(m.role = "tool" /\ TakesResult(x)),
             (new.role = "user" /\ new.items # <<Text>>) <=> m.role = "tool"
      PROVE  Mapped(x, y, m)
  <2> HIDE DEF y
  <2>1. Gains(x, y, new.items) /\ Len(y) = Len(x) + 1 /\ Last(y) = new
    BY <1>5, AppendGains
  <2>2. TakesResult(y) <=> m.role = "tool"
    BY <1>5, <2>1 DEF TakesResult, Gains
  <2> QED BY <1>5, <2>1, <2>2 DEF Mapped
<1>6. CASE m.role = "tool" /\ ~TakesResult(x)
  <2> DEFINE item == ResultOf(m)
             new == Sent("user", <<item>>)
  <2>1. item \in Items
    BY <1>2, <1>6
  <2>2. new \in Wire /\ new.role = "user" /\ new.items = <<item>>
    BY <2>1 DEF Sent, Wire
  <2>3. y = Append(x, new)
    BY <1>6, AddMessageCases
  <2>4. <<item>> # <<Text>>
    <3>1. item # Text
      BY <1>3
    <3> HIDE DEF item
    <3>2. <<item>>[1] = item /\ <<Text>>[1] = Text
      OBVIOUS
    <3> QED BY <3>1, <3>2
  <2>5. new.items = ItemsIn(f, m)
    BY <1>2, <1>6, <2>2
  <2> HIDE DEF new, item, y
  <2> QED BY <1>5, <1>6, <2>2, <2>3, <2>4, <2>5 DEF y
<1>7. CASE m.role = "assistant"
  <2> DEFINE new == Sent("assistant", AssistantContent(m))
  <2>1. new \in Wire /\ new.role = "assistant" /\ new.items = AssistantContent(m)
    BY <1>2, <1>7 DEF Sent, Wire
  <2>2. y = Append(x, new)
    BY <1>7, AddMessageCases
  <2>3. new.items = ItemsIn(f, m)
    BY <1>2, <1>7, <2>1
  <2> HIDE DEF new, y
  <2> QED BY <1>5, <1>7, <2>1, <2>2, <2>3 DEF y
<1>8. CASE m.role = "user"
  <2> DEFINE new == Sent("user", <<Text>>)
  <2>1. <<Text>> \in Seq(Items)
    <3>1. Text \in Items
      BY DEF Items
    <3> QED BY <3>1
  <2>2. new \in Wire /\ new.role = "user" /\ new.items = <<Text>>
    BY <2>1 DEF Sent, Wire
  <2>3. y = Append(x, new)
    BY <1>8, AddMessageCases
  <2>4. new.items = ItemsIn(f, m)
    BY <1>2, <1>8, <2>2
  <2> HIDE DEF new, y
  <2> QED BY <1>5, <1>8, <2>2, <2>3, <2>4 DEF y
<1> QED BY <1>1, <1>4, <1>6, <1>7, <1>8

\* After j messages of the history: every item is in the message that was last when
\* its own was added.
MappedUpto(h, j) ==
  LET y == AfterMessages(h, j)
  IN /\ \A n \in 1..j : \A k \in DOMAIN ItemsIn("anthropic", h[n]) :
          Len(AfterMessages(h, n)) \in DOMAIN y /\ ItemsIn("anthropic", h[n])[k] \in Range(y[Len(AfterMessages(h, n))].items)
     /\ \A q \in DOMAIN y : \A item \in Range(y[q].items) :
          \E n \in 1..j : \E k \in DOMAIN ItemsIn("anthropic", h[n]) :
            q = Len(AfterMessages(h, n)) /\ item = ItemsIn("anthropic", h[n])[k]

AllMapped(h) ==
  /\ AfterMessages(h, 0) = <<>> /\ AnthropicMessages(h) = AfterMessages(h, Len(h))
  /\ \A n \in 1..Len(h) : Mapped(AfterMessages(h, n - 1), AfterMessages(h, n), h[n]) /\ Len(AfterMessages(h, n)) \in Nat

LEMMA MappedChain ==
  ASSUME NEW b \in Nat, NEW h, Talks(h, b)
  PROVE  AllMapped(h)
<1> DEFINE N == Len(h)
<1>1. AllEncodable(h) /\ N \in Nat /\ DOMAIN h = 1..N
  BY TalkEncodable, InputAppends
<1>2. /\ AfterMessages(h, 0) = <<>> /\ AnthropicMessages(h) = AfterMessages(h, N)
      /\ \A n \in 0..N : AfterMessages(h, n) \in Seq(Wire)
      /\ \A n \in 1..N : AfterMessages(h, n) = AddMessage(AfterMessages(h, n - 1), h[n])
  BY <1>1, MessagesChain
<1>3. ASSUME NEW n \in 1..N
      PROVE  Mapped(AfterMessages(h, n - 1), AfterMessages(h, n), h[n]) /\ Len(AfterMessages(h, n)) \in Nat
  <2>1. Encodable(h[n])
    BY <1>1 DEF AllEncodable
  <2>2. n - 1 \in 0..N /\ n \in 0..N
    BY <1>1
  <2>3. AfterMessages(h, n - 1) \in Seq(Wire) /\ AfterMessages(h, n) \in Seq(Wire)
    BY <1>2, <2>2
  <2>4. AfterMessages(h, n) = AddMessage(AfterMessages(h, n - 1), h[n])
    BY <1>2
  <2> DEFINE x == AfterMessages(h, n - 1)
             y == AfterMessages(h, n)
  <2> HIDE DEF x, y
  <2>5. x \in Seq(Wire) /\ y \in Seq(Wire) /\ y = AddMessage(x, h[n])
    BY <2>3, <2>4 DEF x, y
  <2>6. Mapped(x, y, h[n])
    BY <2>1, <2>5, AddMapped
  <2>7. Len(y) \in Nat
    BY <2>5
  <2> QED BY <2>6, <2>7 DEF x, y
<1> QED BY <1>2, <1>3 DEF AllMapped

LEMMA MappedMore ==
  ASSUME NEW h, NEW j \in Nat, j # 0, MappedUpto(h, j - 1), Mapped(AfterMessages(h, j - 1), AfterMessages(h, j), h[j])
  PROVE  MappedUpto(h, j)
<1> DEFINE i == j - 1
           x == AfterMessages(h, i)
           y == AfterMessages(h, j)
           l == Len(y)
           I(n) == ItemsIn("anthropic", h[n])
           L(n) == Len(AfterMessages(h, n))
<1>1. j \in 1..j /\ (\A n \in 1..j : n \in 1..i \/ n = j) /\ (\A n \in 1..i : n \in 1..j)
  OBVIOUS
<1>2. Gains(x, y, I(j))
  BY DEF Mapped
<1>3. /\ l \in DOMAIN y /\ Range(I(j)) \subseteq Range(y[l].items)
      /\ \A q \in DOMAIN x : q \in DOMAIN y /\ Range(x[q].items) \subseteq Range(y[q].items)
      /\ \A q \in DOMAIN y : \A item \in Range(y[q].items) :
           (q \in DOMAIN x /\ item \in Range(x[q].items)) \/ (q = l /\ item \in Range(I(j)))
  BY <1>2 DEF Gains
<1>4. /\ \A n \in 1..i : \A k \in DOMAIN I(n) : L(n) \in DOMAIN x /\ I(n)[k] \in Range(x[L(n)].items)
      /\ \A q \in DOMAIN x : \A item \in Range(x[q].items) :
           \E n \in 1..i : \E k \in DOMAIN I(n) : q = L(n) /\ item = I(n)[k]
  BY DEF MappedUpto
<1> HIDE DEF i, x, y, l
<1>5. ASSUME NEW n \in 1..j, NEW k \in DOMAIN I(n)
      PROVE  L(n) \in DOMAIN y /\ I(n)[k] \in Range(y[L(n)].items)
  <2>1. CASE n \in 1..i
    BY <1>3, <1>4, <2>1
  <2>2. CASE n = j
    <3>1. L(n) = l
      BY <2>2 DEF l, y
    <3>2. I(n)[k] \in Range(I(j))
      BY <2>2 DEF Range
    <3> QED BY <1>3, <3>1, <3>2
  <2> QED BY <1>1, <2>1, <2>2
<1>6. ASSUME NEW q \in DOMAIN y, NEW item \in Range(y[q].items)
      PROVE  \E n \in 1..j : \E k \in DOMAIN I(n) : q = L(n) /\ item = I(n)[k]
  <2>1. CASE q \in DOMAIN x /\ item \in Range(x[q].items)
    <3>1. \E n \in 1..i : \E k \in DOMAIN I(n) : q = L(n) /\ item = I(n)[k]
      BY <1>4, <2>1
    <3> QED BY <1>1, <3>1
  <2>2. CASE q = l /\ item \in Range(I(j))
    <3>1. PICK k \in DOMAIN I(j) : item = I(j)[k]
      BY <2>2 DEF Range
    <3>2. q = L(j)
      BY <2>2 DEF l, y
    <3> QED BY <1>1, <3>1, <3>2
  <2> QED BY <1>3, <2>1, <2>2
<1> QED BY <1>5, <1>6 DEF MappedUpto, y

LEMMA MappedAll ==
  ASSUME NEW b \in Nat, NEW h, Talks(h, b)
  PROVE  MappedUpto(h, Len(h))
<1> DEFINE N == Len(h)
           Bad == {j \in 0..N : ~MappedUpto(h, j)}
<1>1. AllMapped(h) /\ N \in Nat /\ N \in 0..N
  BY MappedChain, InputAppends
<1> HIDE DEF N
<1>2. MappedUpto(h, 0)
  <2>1. AfterMessages(h, 0) = <<>> /\ DOMAIN <<>> = {} /\ 1..0 = {}
    BY <1>1 DEF AllMapped
  <2> QED BY <2>1 DEF MappedUpto
<1>3. ASSUME NEW j \in 1..N, MappedUpto(h, j - 1) PROVE MappedUpto(h, j)
  <2>1. Mapped(AfterMessages(h, j - 1), AfterMessages(h, j), h[j])
    BY <1>1 DEF AllMapped, N
  <2>2. j \in Nat /\ j # 0
    OBVIOUS
  <2> QED BY <1>3, <2>1, <2>2, MappedMore
<1>4. ASSUME Bad # {} PROVE FALSE
  <2>1. Bad \subseteq Nat
    OBVIOUS
  <2>2. PICK j \in Bad : \A m \in Bad : j <= m
    <3> HIDE DEF Bad
    <3> QED BY <1>4, <2>1, Least
  <2>3. j # 0
    BY <1>2
  <2>4. j \in 1..N /\ j - 1 \in 0..N /\ ~(j <= j - 1)
    BY <1>1, <2>3
  <2>5. j - 1 \notin Bad
    BY <2>2, <2>4
  <2> QED BY <1>3, <2>4, <2>5
<1>5. MappedUpto(h, N)
  BY <1>1, <1>4
<1> QED BY <1>5 DEF N

\* Message n is a result; the one before takes it if it has results already.
Together(h, p, n) ==
  /\ TakesResult(AfterMessages(h, n))
  /\ TakesResult(AfterMessages(h, p)) => Len(AfterMessages(h, n)) = Len(AfterMessages(h, p))
  /\ ~TakesResult(AfterMessages(h, p)) => Len(AfterMessages(h, n)) = Len(AfterMessages(h, p)) + 1

\* Results that follow each other are in one message, right behind their answer's.
LEMMA ResultsTogether ==
  ASSUME NEW b \in Nat, NEW h, Talks(h, b), NEW a \in Answering(h), NEW c \in DOMAIN h[a].calls
  PROVE  /\ Len(AfterMessages(h, a + c)) = Len(AfterMessages(h, a)) + 1 /\ Len(AfterMessages(h, a)) \in Nat
<1> DEFINE L(n) == Len(AfterMessages(h, n))
           N == Len(h)
           Bad == {d \in 1..c : L(a + d) # L(a) + 1}
<1>1. AllMapped(h) /\ N \in Nat /\ DOMAIN h = 1..N
  BY MappedChain, InputAppends
<1>2. /\ a \in Nat /\ c \in Nat /\ a # 0 /\ c # 0 /\ a \in DOMAIN h /\ a + c \in DOMAIN h
      /\ \A n \in (a + 1)..(a + c) : n \in DOMAIN h /\ h[n].role = "tool"
  BY ResultsBetween
<1>3. L(a) \in Nat
  BY <1>1, <1>2 DEF AllMapped
<1>4. ~TakesResult(AfterMessages(h, a))
  <2>1. h[a].role = "assistant"
    BY DEF Answering
  <2>2. TakesResult(AfterMessages(h, a)) <=> h[a].role = "tool"
    BY <1>1, <1>2 DEF AllMapped, Mapped
  <2> QED BY <2>1, <2>2
<1> HIDE DEF N
<1>5. ASSUME NEW d \in 1..c
      PROVE  Together(h, a + d - 1, a + d)
  <2> DEFINE n == a + d
  <2>1. n \in (a + 1)..(a + c)
    BY <1>2
  <2> HIDE DEF n
  <2>2. n \in 1..N /\ h[n].role = "tool"
    BY <1>1, <1>2, <2>1
  <2>3. Mapped(AfterMessages(h, n - 1), AfterMessages(h, n), h[n])
    BY <1>1, <2>2 DEF AllMapped, N
  <2>4. Together(h, n - 1, n)
    BY <2>2, <2>3 DEF Mapped, Together
  <2>5. n - 1 = a + d - 1
    BY <1>2 DEF n
  <2> QED BY Zenon, <2>4, <2>5 DEF n
<1>6. L(a + 1) = L(a) + 1
  <2>1. 1 \in 1..c /\ a + 1 - 1 = a
    BY <1>2
  <2>2. Together(h, a, a + 1)
    BY <1>5, <2>1
  <2> QED BY <1>4, <2>2 DEF Together
<1>7. ASSUME Bad # {} PROVE FALSE
  <2>1. Bad \subseteq Nat
    BY <1>2
  <2>2. PICK d \in Bad : \A m \in Bad : d <= m
    <3> HIDE DEF Bad
    <3> QED BY <1>7, <2>1, Least
  <2>3. d # 1
    BY <1>6
  <2> DEFINE e == d - 1
  <2>4. d \in 1..c /\ e \in 1..c /\ ~(d <= e) /\ a + d - 1 = a + e
    BY <1>2, <2>3
  <2> HIDE DEF e
  <2>5. e \notin Bad
    BY <2>2, <2>4
  <2>6. L(a + e) = L(a) + 1
    BY <2>4, <2>5
  <2>7. TakesResult(AfterMessages(h, a + e))
    BY <1>5, <2>4 DEF Together
  <2>8. Together(h, a + e, a + d)
    BY <1>5, <2>4
  <2>9. L(a + d) = L(a) + 1
    BY <2>6, <2>7, <2>8 DEF Together
  <2> QED BY <2>9
<1>8. c \in 1..c
  BY <1>2
<1>9. L(a + c) = L(a) + 1
  BY <1>7, <1>8
<1> QED BY <1>3, <1>9

LEMMA AnthropicPairs ==
  ASSUME NEW b \in Nat, NEW h, Talks(h, b)
  PROVE  Paired("anthropic", h, AnthropicMessages(h))
<1> DEFINE f == "anthropic"
           M == AfterMessages(h, Len(h))
           N == Len(h)
           pos == [x \in Nat \X Nat |-> Len(AfterMessages(h, x[1]))]
<1>0. f \in Formats
  BY DEF Formats
<1>1. N \in Nat /\ DOMAIN h = 1..N /\ AnthropicMessages(h) = M
  BY InputAppends, MappedChain DEF AllMapped
<1>2. /\ \A n \in 1..N : \A k \in DOMAIN ItemsIn(f, h[n]) :
           Len(AfterMessages(h, n)) \in DOMAIN M /\ ItemsIn(f, h[n])[k] \in Range(M[Len(AfterMessages(h, n))].items)
      /\ \A q \in DOMAIN M : \A item \in Range(M[q].items) :
           \E n \in 1..N : \E k \in DOMAIN ItemsIn(f, h[n]) : q = Len(AfterMessages(h, n)) /\ item = ItemsIn(f, h[n])[k]
  <2>1. MappedUpto(h, N)
    BY MappedAll
  <2> QED BY <2>1 DEF MappedUpto
<1> HIDE DEF f, M, N
<1>3. ASSUME NEW n \in DOMAIN h, NEW k \in DOMAIN ItemsIn(f, h[n]) PROVE pos[n, k] = Len(AfterMessages(h, n))
  <2>1. n \in Nat /\ ItemsIn(f, h[n]) \in Seq(Items)
    BY <1>0, TurnIs, TalkItems
  <2>2. k \in Nat
    BY <2>1
  <2> QED BY <2>1, <2>2
<1>4. ASSUME NEW n \in Nat PROVE pos[n, 1] = Len(AfterMessages(h, n))
  OBVIOUS
<1> HIDE DEF pos
<1>5. Placed(f, h, M, pos)
  <2>1. ASSUME NEW n \in DOMAIN h, NEW k \in DOMAIN ItemsIn(f, h[n])
        PROVE  pos[n, k] \in DOMAIN M /\ ItemsIn(f, h[n])[k] \in Range(M[pos[n, k]].items)
    BY <1>1, <1>2, <1>3
  <2>2. ASSUME NEW q \in DOMAIN M, NEW item \in Range(M[q].items)
        PROVE  \E n \in DOMAIN h : \E k \in DOMAIN ItemsIn(f, h[n]) : q = pos[n, k] /\ item = ItemsIn(f, h[n])[k]
    <3>1. PICK n \in 1..N : \E k \in DOMAIN ItemsIn(f, h[n]) : q = Len(AfterMessages(h, n)) /\ item = ItemsIn(f, h[n])[k]
      BY <1>2
    <3>2. PICK k \in DOMAIN ItemsIn(f, h[n]) : q = Len(AfterMessages(h, n)) /\ item = ItemsIn(f, h[n])[k]
      BY <3>1
    <3> QED BY <1>1, <1>3, <3>2
  <2> QED BY <2>1, <2>2 DEF Placed
<1>6. ASSUME NEW a \in Answering(h), NEW c \in DOMAIN h[a].calls, NEW k \in DOMAIN ItemsIn(f, h[a])
      PROVE  Follows(f, M, pos[a, k], pos[a + c, 1])
  <2> DEFINE used == pos[a, k]
             result == pos[a + c, 1]
             l == Len(AfterMessages(h, a))
  <2>1. a \in DOMAIN h /\ a + c \in Nat
    <3>1. a \in Nat /\ c \in Nat /\ a \in DOMAIN h
      BY ResultsBetween
    <3> QED BY <3>1
  <2>2. used = l
    BY <1>3, <2>1
  <2>3. result = Len(AfterMessages(h, a + c))
    BY <1>4, <2>1
  <2>4. Len(AfterMessages(h, a + c)) = l + 1 /\ l \in Nat
    BY ResultsTogether
  <2> HIDE DEF used, result, l
  <2>5. used < result /\ result = used + 1
    BY <2>2, <2>3, <2>4
  <2>6. Follows(f, M, used, result)
    BY <2>5 DEF Follows, f
  <2> QED BY <2>6 DEF used, result
<1>7. InOrder(f, h, M, pos)
  BY <1>6 DEF InOrder
<1>8. Paired(f, h, M)
  BY <1>0, <1>5, <1>7, PairsPlaced
<1> QED BY <1>1, <1>8 DEF f

----------------------------------------------------------------------------
(* Every client's request of a conversation.                               *)

LEMMA TalksPaired ==
  ASSUME NEW b \in Nat, Talks(history, b)
  PROVE  CallsPaired
<1> SUFFICES ASSUME NEW f \in Formats, Replayable(f), NEW n \in DOMAIN history, history[n].role = "assistant",
                    NEW c \in DOMAIN history[n].calls
             PROVE  \E used, result \in DOMAIN Encoded(f, history) :
                      /\ UsedAt(Encoded(f, history), history[n].calls[c].label) = {used}
                      /\ ResultAt(Encoded(f, history), history[n].calls[c].label) = {result}
                      /\ Follows(f, Encoded(f, history), used, result)
  BY DEF CallsPaired
<1>1. n \in Answering(history)
  BY DEF Answering
<1>2. MayReplay(f, history[n])
  BY DEF Replayable, MayReplay
<1>3. Paired(f, history, Encoded(f, history))
  <2>1. CASE f = "chat"
    <3>1. Encoded(f, history) = ChatMessages(history)
      BY <2>1 DEF Encoded
    <3> QED BY <2>1, <3>1, ChatPairs
  <2>2. CASE f = "responses"
    <3>1. Encoded(f, history) = ResponsesInput(history)
      BY <2>2 DEF Encoded
    <3> QED BY <2>2, <3>1, ResponsesPairs
  <2>3. CASE f = "anthropic"
    <3>1. Encoded(f, history) = AnthropicMessages(history)
      BY <2>3 DEF Encoded
    <3> QED BY <2>3, <3>1, AnthropicPairs
  <2> QED BY <2>1, <2>2, <2>3 DEF Formats
<1> QED BY <1>1, <1>2, <1>3 DEF Paired

----------------------------------------------------------------------------
(* A conversation goes on.                                                 *)

LEMMA TalksFirst == Talks(<<User>>, 0)
<1> DEFINE h == <<User>>
<1>1. DOMAIN h = {1} /\ h[1] = User
  OBVIOUS
<1>2. Listed(h)
  <2>1. User \in {User}
    OBVIOUS
  <2>2. h \in Seq({User}) /\ Range(h) = {User}
    BY DEF Range
  <2> QED BY <2>2 DEF Listed
<1>3. Answering(h) = {}
  BY <1>1 DEF Answering, User
<1> HIDE DEF h
<1>4. \A n \in DOMAIN h : Turn(h, 0, n)
  BY <1>1 DEF Turn
<1> QED BY <1>2, <1>3, <1>4 DEF Talks, h

LEMMA TalksLonger ==
  ASSUME NEW b \in Nat, NEW b2 \in Nat, b <= b2, NEW h, Talks(h, b)
  PROVE  Talks(h, b2)
<1>1. \A s \in 1..b : s \in 1..b2
  OBVIOUS
<1>2. \A n \in DOMAIN h : Turn(h, b2, n)
  BY <1>1 DEF Talks, Turn
<1> QED BY <1>2 DEF Talks

\* What an exchange is.
ExchangeOf(m, e) ==
  /\ Listed(e) /\ 1 \in DOMAIN e /\ e[1] = m
  /\ \A c \in DOMAIN m.calls : 1 + c \in DOMAIN e /\ e[1 + c] = ToolResult(m.calls[c])
  /\ \A n \in DOMAIN e : n = 1 \/ e[n] = User \/ \E c \in DOMAIN m.calls : n = 1 + c

\* What stands behind the answer: its results, or the next run's input.
Behindhand(m, v) ==
  /\ Listed(v)
  /\ \A c \in DOMAIN m.calls : c \in DOMAIN v /\ v[c] = ToolResult(m.calls[c])
  /\ \A n \in DOMAIN v : v[n] = User \/ n \in DOMAIN m.calls

LEMMA ExchangeIs ==
  ASSUME NEW s, NEW m, Numbered(s, m.calls)
  PROVE  ExchangeOf(m, Exchange(m))
<1> DEFINE t == [n \in DOMAIN m.calls |-> ToolResult(m.calls[n])]
           u == <<m>>
           e == Exchange(m)
<1>1. PICK k \in Nat : DOMAIN m.calls = 1..k
  BY DEF Numbered
<1>2. Listed(u) /\ Len(u) = 1 /\ DOMAIN u = {1} /\ u[1] = m
  <2>1. u \in Seq({m}) /\ Range(u) = {m}
    BY DEF Range
  <2> QED BY <2>1 DEF Listed
<1>3. \E v : e = u \o v /\ Behindhand(m, v)
  <2>1. CASE m.calls = <<>>
    <3> DEFINE v == <<User>>
    <3>1. e = u \o v /\ DOMAIN m.calls = {}
      BY <2>1 DEF Exchange
    <3>2. v \in Seq({User}) /\ Range(v) = {User} /\ DOMAIN v = {1} /\ v[1] = User
      BY DEF Range
    <3> HIDE DEF v, e, u
    <3>3. Listed(v)
      BY <3>2 DEF Listed
    <3> QED BY <3>1, <3>2, <3>3 DEF Behindhand
  <2>2. CASE m.calls # <<>>
    <3>1. e = u \o t
      BY <2>2 DEF Exchange
    <3>2. t = [n \in 1..k |-> t[n]] /\ DOMAIN t = DOMAIN m.calls
      BY <1>1
    <3>3. \A c \in DOMAIN t : t[c] = ToolResult(m.calls[c])
      OBVIOUS
    <3> HIDE DEF t, u, e
    <3>4. Listed(t)
      BY <3>2, FunctionListed
    <3>5. Behindhand(m, t)
      BY <3>2, <3>3, <3>4 DEF Behindhand
    <3> QED BY <3>1, <3>5
  <2> QED BY <2>1, <2>2
<1> HIDE DEF u, e
<1>4. PICK v : e = u \o v /\ Behindhand(m, v)
  BY <1>3
<1>5. Listed(u) /\ Listed(v)
  BY <1>2, <1>4 DEF Behindhand
<1>6. Listed(u \o v) /\ DOMAIN (u \o v) = 1..(Len(u) + Len(v)) /\ Len(v) \in Nat
  BY <1>5, Joined
<1>7. \A n \in DOMAIN u : (u \o v)[n] = u[n]
  BY <1>5, Joined
<1>8. \A n \in DOMAIN (u \o v) : n \in DOMAIN u \/ \E c \in DOMAIN v : n = Len(u) + c
  BY ZenonT(30), <1>5, Joined
<1>9. \A c \in DOMAIN v : Len(u) + c \in DOMAIN (u \o v) /\ (u \o v)[Len(u) + c] = v[c]
  <2>1. ASSUME NEW c \in DOMAIN v, NEW j, j = Len(u) + c PROVE j \in DOMAIN (u \o v) /\ (u \o v)[j] = v[c]
    BY <1>5, <2>1, Behind
  <2> QED BY <2>1
<1>10. 1 \in DOMAIN e /\ e[1] = m
  BY <1>2, <1>4, <1>6, <1>7
<1>11. \A c \in DOMAIN m.calls : 1 + c \in DOMAIN e /\ e[1 + c] = ToolResult(m.calls[c])
  BY <1>2, <1>4, <1>9 DEF Behindhand
<1>12. \A n \in DOMAIN e : n = 1 \/ e[n] = User \/ \E c \in DOMAIN m.calls : n = 1 + c
  <2>1. ASSUME NEW c \in DOMAIN v PROVE e[1 + c] = v[c]
    BY <1>2, <1>4, <1>9
  <2> QED BY <1>2, <1>4, <1>8, <2>1 DEF Behindhand
<1>13. ExchangeOf(m, e)
  BY <1>4, <1>6, <1>10, <1>11, <1>12 DEF ExchangeOf
<1> QED BY <1>13 DEF e

LEMMA TalksMore ==
  ASSUME NEW b \in Nat, NEW s \in Nat, b < s, NEW h, Talks(h, b), NEW m, AnswerOf(s, m)
  PROVE  Talks(h \o Exchange(m), s)
<1> DEFINE e == Exchange(m)
           g == h \o e
           N == Len(h)
           o == N + 1
<1>1. m.role = "assistant" /\ Numbered(s, m.calls) /\ Listed(h)
  BY DEF AnswerOf, Sound, Talks
<1>2. ExchangeOf(m, e)
  BY <1>1, ExchangeIs
<1> HIDE DEF e
<1>3. Listed(e) /\ 1 \in DOMAIN e /\ e[1] = m
  BY <1>2 DEF ExchangeOf
<1>4. /\ Listed(g) /\ N \in Nat /\ DOMAIN h = 1..N /\ DOMAIN g = 1..(N + Len(e)) /\ Len(e) \in Nat
      /\ \A n \in DOMAIN h : g[n] = h[n]
  BY <1>1, <1>3, Joined
<1>5. \A n \in DOMAIN g : n \in DOMAIN h \/ \E k \in DOMAIN e : n = N + k
  BY ZenonT(30), <1>1, <1>3, Joined
<1>6. \A k \in DOMAIN e : N + k \in DOMAIN g /\ g[N + k] = e[k]
  BY <1>1, <1>3, Behind
<1>7. \A n \in DOMAIN h : n \in DOMAIN g /\ n # o /\ n \in Nat
  BY <1>4
<1> HIDE DEF g, N
<1>8. o \in DOMAIN g /\ g[o] = m /\ o \in Nat
  BY <1>3, <1>4, <1>6
<1>9. \A c \in DOMAIN m.calls : c \in Nat
  BY <1>1 DEF Numbered
<1>10. ASSUME NEW c \in DOMAIN m.calls PROVE N + (1 + c) = o + c
  BY <1>4, <1>9
<1> HIDE DEF o
<1>11. \A c \in DOMAIN m.calls : o + c \in DOMAIN g /\ g[o + c] = ToolResult(m.calls[c])
  <2>1. ASSUME NEW c \in DOMAIN m.calls PROVE o + c \in DOMAIN g /\ g[o + c] = ToolResult(m.calls[c])
    <3>1. 1 + c \in DOMAIN e /\ e[1 + c] = ToolResult(m.calls[c])
      BY <1>2 DEF ExchangeOf
    <3>2. N + (1 + c) \in DOMAIN g /\ g[N + (1 + c)] = e[1 + c]
      BY <1>6, <3>1
    <3> QED BY <1>10, <3>1, <3>2
  <2> QED BY <2>1
<1>12. \A n \in DOMAIN g : n \in DOMAIN h \/ n = o \/ g[n] = User \/ \E c \in DOMAIN m.calls : n = o + c
  <2>1. ASSUME NEW k \in DOMAIN e
        PROVE  N + k = o \/ g[N + k] = User \/ \E c \in DOMAIN m.calls : N + k = o + c
    <3>1. k = 1 \/ e[k] = User \/ \E c \in DOMAIN m.calls : k = 1 + c
      BY <1>2 DEF ExchangeOf
    <3>2. g[N + k] = e[k]
      BY <1>6
    <3> QED BY <1>10, <3>1, <3>2 DEF o
  <2> QED BY <1>5, <2>1
<1>13. \A a \in Answering(h) : a \in DOMAIN h /\ a \in Answering(g) /\ g[a] = h[a]
  BY <1>4, <1>7 DEF Answering
<1>14. \A a \in Answering(g) : a \in Answering(h) \/ a = o
  <2>1. ASSUME NEW a \in Answering(g) PROVE a \in Answering(h) \/ a = o
    <3>1. a \in DOMAIN g /\ g[a].role = "assistant"
      BY DEF Answering
    <3>2. CASE a \in DOMAIN h
      BY <1>4, <3>1, <3>2 DEF Answering
    <3>3. CASE g[a] = User
      BY <3>1, <3>3 DEF User
    <3>4. ASSUME NEW c \in DOMAIN m.calls, a = o + c PROVE FALSE
      <4>1. g[a] = ToolResult(m.calls[c])
        BY <1>11, <3>4
      <4> QED BY <3>1, <4>1 DEF ToolResult
    <3> QED BY <1>12, <3>1, <3>2, <3>3, <3>4
  <2> QED BY <2>1
<1>15. o \in Answering(g)
  BY <1>1, <1>8 DEF Answering
<1>16. ASSUME NEW n \in DOMAIN g PROVE Turn(g, s, n)
  <2>1. CASE n \in DOMAIN h
    <3>1. Turn(h, b, n) /\ g[n] = h[n]
      BY <1>4, <2>1 DEF Talks
    <3>2. CASE h[n] = User
      BY <3>1, <3>2 DEF Turn
    <3>3. ASSUME NEW r \in 1..b, AnswerOf(r, h[n]) PROVE Turn(g, s, n)
      <4>1. r \in 1..s
        OBVIOUS
      <4> QED BY <3>1, <3>3, <4>1 DEF Turn
    <3>4. ASSUME NEW a \in Answering(h), NEW c \in DOMAIN h[a].calls, n = a + c, h[n] = ToolResult(h[a].calls[c])
          PROVE  Turn(g, s, n)
      <4>1. a \in Answering(g) /\ g[a] = h[a]
        BY <1>13
      <4> QED BY <3>1, <3>4, <4>1 DEF Turn
    <3> QED BY <3>1, <3>2, <3>3, <3>4 DEF Turn
  <2>2. CASE n = o
    <3>1. s \in 1..s /\ AnswerOf(s, g[n])
      BY <1>8, <2>2
    <3> QED BY <3>1 DEF Turn
  <2>3. CASE g[n] = User
    BY <2>3 DEF Turn
  <2>4. ASSUME NEW c \in DOMAIN m.calls, n = o + c PROVE Turn(g, s, n)
    <3>1. g[n] = ToolResult(g[o].calls[c]) /\ c \in DOMAIN g[o].calls
      BY <1>8, <1>11, <2>4
    <3> QED BY <1>15, <2>4, <3>1 DEF Turn
  <2> QED BY <1>12, <2>1, <2>2, <2>3, <2>4
<1>17. ASSUME NEW a \in Answering(g), NEW c \in DOMAIN g[a].calls PROVE HasResult(g, a, c)
  <2>1. CASE a \in Answering(h)
    <3>1. g[a] = h[a] /\ c \in DOMAIN h[a].calls
      BY <1>13, <2>1
    <3>2. HasResult(h, a, c)
      BY <2>1, <3>1 DEF Talks
    <3> QED BY <1>4, <1>7, <3>1, <3>2 DEF HasResult
  <2>2. CASE a = o
    BY <1>8, <1>11, <2>2 DEF HasResult
  <2> QED BY <1>14, <2>1, <2>2
<1>18. ASSUME NEW a \in Answering(h), NEW c \in DOMAIN h[a].calls, NEW d \in DOMAIN m.calls
       PROVE  h[a].calls[c].label # m.calls[d].label
  <2>1. PICK r \in 1..b : AnswerOf(r, h[a])
    BY TurnIs DEF Answering
  <2>2. h[a].calls[c].label = Label(r, c) /\ m.calls[d].label = Label(s, d)
    BY <1>1, <2>1 DEF AnswerOf, Numbered
  <2>3. r # s
    OBVIOUS
  <2> QED BY <2>2, <2>3, LabelsDiffer
<1>19. ASSUME NEW a \in Answering(g), NEW d \in Answering(g), a # d, NEW c \in DOMAIN g[a].calls, NEW k \in DOMAIN g[d].calls
       PROVE  g[a].calls[c].label # g[d].calls[k].label
  <2>1. CASE a \in Answering(h) /\ d \in Answering(h)
    <3>1. g[a] = h[a] /\ g[d] = h[d]
      BY <1>13, <2>1
    <3> QED BY <1>19, <2>1, <3>1 DEF Talks
  <2>2. CASE a \in Answering(h) /\ d = o
    BY <1>8, <1>13, <1>18, <2>2
  <2>3. CASE a = o /\ d \in Answering(h)
    BY <1>8, <1>13, <1>18, <2>3
  <2> QED BY <1>14, <1>19, <2>1, <2>2, <2>3
<1>20. Talks(g, s)
  BY <1>4, <1>16, <1>17, <1>19 DEF Talks
<1> QED BY <1>20 DEF g, e

----------------------------------------------------------------------------
(* The steps of a conversation.                                            *)

\* The answers are to requests so far; that of an open stream is not in the history.
Conversed ==
  /\ phase # "idle" => round # 0
  /\ Talks(history, IF phase = "idle" THEN round ELSE round - 1)

LEMMA ConversedInit == Init => Conversed
<1> SUFFICES ASSUME Init PROVE Conversed
  OBVIOUS
<1>1. phase = "idle" /\ round = 0 /\ history = <<User>>
  BY DEF Init
<1>2. Talks(history, 0)
  BY <1>1, TalksFirst
<1> QED BY <1>1, <1>2 DEF Conversed

LEMMA StreamStays ==
  ASSUME StreamInv, StreamStep
  PROVE  phase # "idle" /\ phase' # "idle" /\ round' = round
<1>1. CASE Send
  <2>1. phase # "idle"
    BY <1>1 DEF Send, StreamInv
  <2> QED BY <1>1, <2>1 DEF Send
<1>2. CASE ReadFails \/ Cancel \/ Stop
  BY <1>2 DEF ReadFails, Cancel, Stop, Close, Handle
<1>3. CASE ~(Send \/ ReadFails \/ Cancel \/ Stop)
  BY <1>3 DEF StreamStep, ChatChunk, ChatDone, ResponsesText, ResponsesThinking, ResponsesTextDone, ResponsesItem, ResponsesArguments,
         ResponsesCompleted, AnthropicText, AnthropicThinking, AnthropicStart, AnthropicInput, AnthropicStop, AnthropicDone,
         BadFrame, EndOfBody, Frame, Handle
<1> QED BY <1>1, <1>2, <1>3

LEMMA CallsNumbered ==
  ASSUME NEW answer \in Answers
  PROVE  Numbered(round + 1, CallsOf(answer))
<1>1. answer.calls \in UNION {[1..n -> {NoArguments, <<1>>, Arguments}] : n \in 0..MaxCalls}
  BY DEF Answers
<1>2. PICK k \in 0..MaxCalls : DOMAIN answer.calls = 1..k
  BY <1>1
<1>3. DOMAIN CallsOf(answer) = 1..k /\ \A c \in 1..k : CallsOf(answer)[c].label = Label(round + 1, c)
  BY <1>2 DEF CallsOf, ToolCall
<1> QED BY <1>2, <1>3 DEF Numbered

LEMMA AnswerTalks ==
  ASSUME StreamInv, Conversed, phase = "idle", phase' = "idle", round' = round + 1,
         NEW m, AnswerOf(round + 1, m), history' = history \o Exchange(m)
  PROVE  Conversed'
<1>1. round \in Nat /\ Talks(history, round)
  BY DEF StreamInv, Conversed
<1> DEFINE b == round
           s == b + 1
           h == history
<1>2. b \in Nat /\ s \in Nat /\ b < s /\ Talks(h, b) /\ AnswerOf(s, m)
  BY <1>1
<1> HIDE DEF b, s, h
<1>3. Talks(h \o Exchange(m), s)
  BY <1>2, TalksMore
<1> QED BY <1>3 DEF Conversed, b, s, h

LEMMA RequestTalks ==
  ASSUME StreamInv, Conversed, NEW f, Request(f), UNCHANGED history, phase' \in {"idle", "reading"}
  PROVE  Conversed'
<1>1. round \in Nat /\ Talks(history, round) /\ round' = round + 1
  BY DEF StreamInv, Conversed, Request
<1>2. CASE phase' = "reading"
  <2>1. round' - 1 = round /\ round' # 0
    BY <1>1
  <2> QED BY <1>1, <1>2, <2>1 DEF Conversed
<1>3. CASE phase' = "idle"
  <2>1. round + 1 \in Nat /\ round <= round + 1
    BY <1>1
  <2>2. Talks(history, round + 1)
    BY <1>1, <2>1, TalksLonger
  <2> QED BY <1>1, <1>3, <2>2 DEF Conversed
<1> QED BY <1>2, <1>3

LEMMA GenerateTalks ==
  ASSUME StreamInv, Conversed, NEW f, NEW m, Generate(f, m), AnswerOf(round + 1, m)
  PROVE  Conversed'
<1>1. phase = "idle" /\ phase' = "idle" /\ round' = round + 1 /\ history' = history \o Exchange(m)
  BY DEF Generate, Request
<1> QED BY <1>1, AnswerTalks

\* The items that came name the calls.
LEMMA ItemsTell ==
  ASSUME NEW f \in {"responses", "anthropic"}, NEW text, NEW calls
  PROVE  RawTells(Raw(f, TextItems(text) \o Uses(calls)), calls)
<1> DEFINE items == TextItems(text) \o Uses(calls)
           raw == Raw(f, items)
<1>1. raw = NoRaw \/ (raw.format = f /\ raw.items = TextItems(text) \o Uses(calls))
  BY RawIs
<1> HIDE DEF raw
<1>2. RawTells(raw, calls)
  BY <1>1, TextFront DEF RawTells
<1> QED BY <1>2 DEF raw

LEMMA GeneratedTalks ==
  ASSUME StreamInv, Conversed, GenerateChat \/ GenerateResponses \/ GenerateAnthropic
  PROVE  Conversed'
<1>1. ASSUME NEW answer \in Answers, NEW f, NEW text, NEW raw, RawTells(raw, CallsOf(answer)),
             Generate(f, Assistant(text, CallsOf(answer), raw))
      PROVE  Conversed'
  <2> DEFINE m == Assistant(text, CallsOf(answer), raw)
  <2>1. m.role = "assistant" /\ m.calls = CallsOf(answer) /\ m.raw = raw
    BY DEF Assistant
  <2>2. Numbered(round + 1, CallsOf(answer))
    BY CallsNumbered
  <2>3. Generate(f, m)
    BY <1>1
  <2> HIDE DEF m
  <2>4. AnswerOf(round + 1, m)
    BY <1>1, <2>1, <2>2 DEF AnswerOf, Sound
  <2> QED BY <2>3, <2>4, GenerateTalks
<1>2. CASE GenerateChat
  <2>1. PICK answer \in Answers : \E message \in ChatResponse(answer.text, CallsOf(answer)) : Generate("chat", message)
    BY <1>2 DEF GenerateChat
  <2>2. Generate("chat", Assistant(answer.text, CallsOf(answer), NoRaw))
    BY <2>1 DEF ChatResponse
  <2>3. RawTells(NoRaw, CallsOf(answer))
    BY DEF RawTells
  <2> QED BY <1>1, <2>2, <2>3
<1>3. CASE GenerateResponses
  <2>1. PICK answer \in Answers, itemized \in BOOLEAN :
          LET text == IF itemized THEN answer.text ELSE <<>>
              whole == IF itemized THEN <<>> ELSE answer.text
              calls == CallsOf(answer)
          IN \E message \in ResponsesResponse(TextItems(text) \o Uses(calls), text, calls, whole) : Generate("responses", message)
    BY <1>3 DEF GenerateResponses
  <2> DEFINE text == IF itemized THEN answer.text ELSE <<>>
             whole == IF itemized THEN <<>> ELSE answer.text
             calls == CallsOf(answer)
             raw == Raw("responses", TextItems(text) \o Uses(calls))
  <2>2. \E message \in ResponsesResponse(TextItems(text) \o Uses(calls), text, calls, whole) : Generate("responses", message)
    BY <2>1
  <2> HIDE DEF text, whole
  <2>3. Generate("responses", Assistant(IF text # <<>> THEN text ELSE whole, calls, raw))
    BY <2>2 DEF ResponsesResponse
  <2>4. RawTells(raw, calls)
    BY ItemsTell
  <2> QED BY <1>1, <2>3, <2>4
<1>4. CASE GenerateAnthropic
  <2>1. PICK answer \in Answers :
          \E message \in AnthropicResponse(TextItems(answer.text) \o Uses(CallsOf(answer)), answer.text, CallsOf(answer)) :
             Generate("anthropic", message)
    BY <1>4 DEF GenerateAnthropic
  <2> DEFINE raw == Raw("anthropic", TextItems(answer.text) \o Uses(CallsOf(answer)))
  <2>2. Generate("anthropic", Assistant(answer.text, CallsOf(answer), raw))
    BY <2>1 DEF AnthropicResponse
  <2>3. RawTells(raw, CallsOf(answer))
    BY ItemsTell
  <2> QED BY <1>1, <2>2, <2>3
<1> QED BY <1>2, <1>3, <1>4

\* A message of done is an answer to the last request.
LEMMA DoneAnswers ==
  ASSUME StreamInv, phase = "closed", delivered # <<>>, Last(delivered).type = "done"
  PROVE  AnswerOf(round, Last(delivered).message)
<1> DEFINE m == Last(delivered).message
           n == Len(delivered)
<1>1. Listed(delivered) /\ outbox = <<>> /\ \A j \in DOMAIN Flow : Flow[j].type = "done" => Tells(Flow, Flow[j].message)
  BY DEF StreamInv
<1>2. Flow = delivered
  BY <1>1, ConcatEmptySeq DEF Flow, Listed
<1>3. n \in DOMAIN delivered /\ delivered[n] = Last(delivered)
  <2>1. DOMAIN delivered = 1..n /\ n \in Nat
    BY <1>1 DEF Listed
  <2>2. n # 0
    BY <1>1 DEF Listed
  <2> QED BY <2>1, <2>2 DEF Last
<1>4. Tells(delivered, m)
  BY <1>1, <1>2, <1>3
<1> HIDE DEF m
<1>5. PICK k \in Nat : DOMAIN m.calls = 1..k
  BY <1>4 DEF Tells, Counted
<1>6. ASSUME NEW c \in 1..k PROVE m.calls[c].label = Label(round, c)
  <2>1. m.calls[c] = ToolCall(Label(round, c), said.calls[c].args)
    BY <1>4, <1>5 DEF Tells, Whole
  <2> QED BY <2>1 DEF ToolCall
<1>7. AnswerOf(round, m)
  BY <1>4, <1>5, <1>6 DEF AnswerOf, Numbered, Tells
<1> QED BY <1>7 DEF m

LEMMA ConcludeTalks ==
  ASSUME StreamInv, Conversed, Conclude
  PROVE  Conversed'
<1> DEFINE b == round - 1
           s == round
           h == history
<1>1. phase = "closed" /\ phase' = "idle" /\ round' = s
  BY DEF Conclude
<1>2. s \in Nat /\ s # 0 /\ Talks(h, b)
  BY <1>1 DEF StreamInv, Conversed
<1>3. b \in Nat /\ b < s /\ b <= s
  BY <1>2
<1>4. CASE delivered # <<>> /\ Last(delivered).type = "done"
  <2> DEFINE m == Last(delivered).message
  <2>1. AnswerOf(s, m) /\ history' = h \o Exchange(m)
    BY <1>1, <1>4, DoneAnswers DEF Conclude
  <2> HIDE DEF m, b, s, h
  <2>2. Talks(h \o Exchange(m), s)
    BY <1>2, <1>3, <2>1, TalksMore
  <2> QED BY <1>1, <2>1, <2>2 DEF Conversed
<1>5. CASE ~(delivered # <<>> /\ Last(delivered).type = "done")
  <2>1. history' = h
    BY <1>5 DEF Conclude
  <2> HIDE DEF b, s, h
  <2>2. Talks(h, s)
    BY <1>2, <1>3, TalksLonger
  <2> QED BY <1>1, <2>1, <2>2 DEF Conversed
<1> QED BY <1>4, <1>5

LEMMA ConversedNext == StreamInv /\ Conversed /\ [Next]_vars => Conversed'
<1> SUFFICES ASSUME StreamInv, Conversed, [Next]_vars PROVE Conversed'
  OBVIOUS
<1>1. CASE StreamStep /\ UNCHANGED history
  <2>1. phase # "idle" /\ phase' # "idle" /\ round' = round /\ history' = history
    BY <1>1, StreamStays
  <2> QED BY <2>1 DEF Conversed
<1>2. CASE GenerateChat \/ GenerateResponses \/ GenerateAnthropic
  BY <1>2, GeneratedTalks
<1>3. ASSUME NEW f \in Formats, Fail(f) PROVE Conversed'
  <2>1. Request(f) /\ UNCHANGED history /\ phase' = "idle"
    BY <1>3 DEF Fail, Request
  <2> QED BY <2>1, RequestTalks
<1>4. ASSUME NEW f, Open(f) PROVE Conversed'
  <2>1. Request(f) /\ UNCHANGED history /\ phase' = "reading"
    BY <1>4 DEF Open
  <2> QED BY <2>1, RequestTalks
<1>5. CASE OpenChat \/ OpenResponses \/ OpenAnthropic
  BY <1>4, <1>5 DEF OpenChat, OpenResponses, OpenAnthropic
<1>6. CASE Conclude
  BY <1>6, ConcludeTalks
<1>7. CASE UNCHANGED vars
  <2>1. phase' = phase /\ round' = round /\ history' = history
    BY <1>7 DEF vars, streamVars
  <2> QED BY <2>1 DEF Conversed
<1> QED BY <1>1, <1>2, <1>3, <1>5, <1>6, <1>7 DEF Next

LEMMA ConversedPairs == StreamInv /\ Conversed => CallsPaired
<1> SUFFICES ASSUME StreamInv, Conversed PROVE CallsPaired
  OBVIOUS
<1> DEFINE b == IF phase = "idle" THEN round ELSE round - 1
<1>1. b \in Nat /\ Talks(history, b)
  BY DEF StreamInv, Conversed
<1> HIDE DEF b
<1> QED BY <1>1, TalksPaired

\* Whatever requests were answered by whichever clients, in one piece or as streams, the
\* next request holds every tool call of the history once and its result once, where the
\* provider looks for it (openai/chat.go, openai/responses.go, anthropic/anthropic.go).
THEOREM AlwaysPaired == Spec => []CallsPaired
<1>1. Init => StreamInv /\ Conversed
  BY StreamInit, ConversedInit
<1>2. StreamInv /\ Conversed /\ [Next]_vars => (StreamInv /\ Conversed)'
  BY StreamNext, ConversedNext
<1>3. StreamInv /\ Conversed => CallsPaired
  BY ConversedPairs
<1> QED BY <1>1, <1>2, <1>3, PTL DEF Spec
=============================================================================
