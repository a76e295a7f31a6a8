------------------------- MODULE AudioContextsProofs -------------------------
(***************************************************************************)
(* The queue of a text-to-speech service and its audio contexts agree, but *)
(* for what is made again while an interruption tells the provider, and no *)
(* audio from before an interruption leaves the service, for any number of *)
(* turns, interruptions and pieces of audio.                               *)
(***************************************************************************)
EXTENDS AudioContexts, FiniteSetTheorems, TLAPS

-----------------------------------------------------------------------------
(***************************************************************************)
(* Sequences: what they contain, and whether once                          *)
(***************************************************************************)
Once(q, e) == \A i, j \in 1 .. Len(q) : q[i] = e /\ q[j] = e => i = j

LEMMA AppendHas ==
  ASSUME NEW S, NEW q \in Seq(S), NEW e \in S
  PROVE  /\ Append(q, e) \in Seq(S)
         /\ \A x : Contains(Append(q, e), x) <=> Contains(q, x) \/ x = e
         /\ \A x : Once(q, x) /\ (x # e \/ ~Contains(q, x)) => Once(Append(q, e), x)
<1> DEFINE r == Append(q, e)
<1>1. /\ r \in Seq(S) /\ Len(r) = Len(q) + 1 /\ Len(q) \in Nat
      /\ \A i \in 1 .. Len(q) : r[i] = q[i]
      /\ r[Len(q) + 1] = e
  OBVIOUS
<1> HIDE DEF r
<1>2. \A x : Contains(r, x) <=> Contains(q, x) \/ x = e
  BY <1>1 DEF Contains
<1>3. \A x : Once(q, x) /\ (x # e \/ ~Contains(q, x)) => Once(r, x)
  BY <1>1 DEF Contains, Once
<1> QED
  BY <1>1, <1>2, <1>3 DEF r

LEMMA TailHas ==
  ASSUME NEW S, NEW q \in Seq(S), q # <<>>
  PROVE  /\ Tail(q) \in Seq(S) /\ Head(q) \in S
         /\ Contains(q, Head(q))
         /\ \A x : Contains(Tail(q), x) => Contains(q, x)
         /\ \A x : Contains(q, x) /\ x # Head(q) => Contains(Tail(q), x)
         /\ \A x : Once(q, x) => Once(Tail(q), x)
         /\ Once(q, Head(q)) => ~Contains(Tail(q), Head(q))
<1> DEFINE r == Tail(q)
<1>1. /\ r \in Seq(S) /\ Len(r) = Len(q) - 1 /\ Len(q) \in Nat \ {0}
      /\ \A j \in 1 .. Len(q) - 1 : r[j] = q[j + 1]
      /\ Head(q) = q[1] /\ Head(q) \in S
  OBVIOUS
<1> HIDE DEF r
<1>2. Contains(q, Head(q)) /\ \A x : Contains(r, x) => Contains(q, x)
  BY <1>1 DEF Contains
<1>3. ASSUME NEW x, Contains(q, x), x # Head(q) PROVE Contains(r, x)
  <2>1. PICK j \in 1 .. Len(q) : q[j] = x /\ j # 1
    BY <1>1, <1>3 DEF Contains
  <2>2. j - 1 \in 1 .. Len(q) - 1 /\ r[j - 1] = x
    BY <2>1, <1>1
  <2> QED
    BY <2>2, <1>1 DEF Contains
<1>4. ASSUME NEW x, Once(q, x) PROVE Once(r, x)
  BY <1>4, <1>1 DEF Once
<1>5. Once(q, Head(q)) => ~Contains(r, Head(q))
  BY <1>1 DEF Once, Contains
<1> QED
  BY <1>1, <1>2, <1>3, <1>4, <1>5 DEF r
-----------------------------------------------------------------------------
(***************************************************************************)
(* The invariant                                                           *)
(***************************************************************************)
\* Outside of the await in which the provider is told of an interruption, the queue has
\* each open context, but the one that plays, once. What was made again during that await
\* is in the queue or has ended the task, and is never open again.
Matched ==
  /\ \A id \in Ids \ remade : Contains(line, Context(id)) <=> id \in contexts /\ id # playing
  /\ playing # 0 => playing \in contexts \cup remade
  /\ remade \subseteq stale

\* In that await the queue is behind the contexts: it has only what is made again.
Telling ==
  /\ \A id \in Ids : Contains(line, Context(id)) => id \in remade
  /\ remade \subseteq contexts
  /\ player = "none"

\* No item but a "must" frame is in the queue twice, and the sentinel only after stop().
Single ==
  /\ \A item : item # Must => Once(line, item)
  /\ Contains(line, Sentinel) => process # "running"

\* What the audio context task has in hand.
Hands ==
  /\ player = "playing" => playing \in contexts
  /\ Died => playing \in remade
  /\ interrupting # "no" => player \in {"none", "over", "dead"}

Lists == Single /\ Hands /\ IF interrupting = "telling" THEN Telling ELSE Matched

\* Nothing is open, or can be opened, of what an interruption has put behind it.
Fresh ==
  /\ contexts \subseteq 1..ids /\ stale \subseteq 1..ids /\ turn <= ids
  /\ contexts \cap stale = {} /\ turn \notin stale

Inv == TypeOK /\ Lists /\ Fresh

LEMMA ItemsApart ==
  /\ Must \in Items /\ Sentinel \in Items /\ Must # Sentinel
  /\ \A id : Context(id) # Must /\ Context(id) # Sentinel
  /\ \A id \in Ids : Context(id) \in Items
  /\ \A id, other : Context(id) = Context(other) => id = other
<1>1. <<"must">> # <<"sentinel">>
  <2>1. <<"must">>[1] # <<"sentinel">>[1]
    OBVIOUS
  <2> QED
    BY <2>1
<1>2. ASSUME NEW id PROVE <<"context", id>> # <<"must">> /\ <<"context", id>> # <<"sentinel">>
  <2>1. <<"context", id>>[1] = "context" /\ <<"must">>[1] = "must" /\ <<"sentinel">>[1] = "sentinel"
    OBVIOUS
  <2> QED
    BY <2>1
<1> QED
  BY <1>1, <1>2 DEF Items, Context, Must, Sentinel

LEMMA Emptied == \A S : <<>> \in Seq(S)
OBVIOUS

LEMMA InvInit == Init => Inv
<1> SUFFICES ASSUME Init PROVE Inv
  OBVIOUS
<1>1. TypeOK
  <2>2. queue \in [Ids -> Seq({"audio", "stopped", "end"})] /\ chunks \in [Ids -> 0..MaxChunks]
    BY Emptied, BoundAssumption DEF Init
  <2>3. line \in Seq(Items) /\ sent \in Seq({"audio", "stopped"}) /\ told \in Seq({"started", "stopped"})
    BY Emptied DEF Init
  <2>4. 0 \in 0..MaxTurns /\ 0 \in 0..MaxMust /\ 0 \in 0..MaxInterrupts /\ 0 \in Nat
    BY BoundAssumption
  <2> QED
    BY <2>2, <2>3, <2>4 DEF Init, TypeOK
<1>2. Lists
  BY DEF Init, Lists, Single, Hands, Matched, Died, Contains, Once
<1>3. Fresh
  BY DEF Init, Fresh
<1> QED
  BY <1>1, <1>2, <1>3 DEF Inv
-----------------------------------------------------------------------------
(***************************************************************************)
(* The queue and the contexts                                              *)
(***************************************************************************)
\* A context is opened: it comes last in the queue.
LEMMA Opened ==
  ASSUME TypeOK, Lists, NEW id \in Ids, id \notin contexts, id \notin stale,
         line' = Append(line, Context(id)), contexts' = contexts \cup {id},
         remade' = IF interrupting = "telling" THEN remade \cup {id} ELSE remade,
         UNCHANGED <<playing, process, player, interrupting, stale>>
  PROVE  Lists' /\ line' \in Seq(Items)
<1>1. /\ line' \in Seq(Items)
      /\ \A x : Contains(line', x) <=> Contains(line, x) \/ x = Context(id)
      /\ \A x : Once(line, x) /\ (x # Context(id) \/ ~Contains(line, x)) => Once(line', x)
  BY ItemsApart, AppendHas DEF TypeOK
<1>2. ~Contains(line, Context(id))
  <2>1. CASE interrupting = "telling"
    BY <2>1 DEF Lists, Telling
  <2>2. CASE interrupting # "telling"
    BY <2>2 DEF Lists, Matched
  <2> QED
    BY <2>1, <2>2
<1>3. Single'
  <2>1. \A item : item # Must => Once(line', item)
    BY <1>1, <1>2 DEF Lists, Single
  <2>2. Contains(line', Sentinel) => process' # "running"
    BY <1>1, ItemsApart DEF Lists, Single
  <2> QED
    BY <2>1, <2>2 DEF Single
<1>4. Hands'
  BY DEF Lists, Hands, Died
<1>5. CASE interrupting = "telling"
  <2>1. \A other \in Ids : Contains(line', Context(other)) => other \in remade'
    BY <1>1, <1>5, ItemsApart DEF Lists, Telling
  <2>2. remade' \subseteq contexts' /\ player' = "none"
    BY <1>5 DEF Lists, Telling
  <2> QED
    BY <1>1, <1>3, <1>4, <1>5, <2>1, <2>2 DEF Lists, Telling
<1>6. CASE interrupting # "telling"
  <2>1. id # playing /\ id \notin remade
    BY <1>6 DEF Lists, Matched, Ids
  <2>2. \A other \in Ids \ remade' :
          Contains(line', Context(other)) <=> other \in contexts' /\ other # playing'
    BY <1>1, <1>6, <2>1, ItemsApart DEF Lists, Matched
  <2>3. (playing' # 0 => playing' \in contexts' \cup remade') /\ remade' \subseteq stale'
    BY <1>6 DEF Lists, Matched
  <2> QED
    BY <1>1, <1>3, <1>4, <1>6, <2>2, <2>3 DEF Lists, Matched
<1> QED
  BY <1>5, <1>6

\* A frame or the sentinel is put in the queue.
LEMMA Enqueued ==
  ASSUME TypeOK, Lists, NEW item \in {Must, Sentinel}, line' = Append(line, item),
         item = Sentinel => process = "running" /\ process' # "running",
         item = Must => process' = process,
         player' = player \/ (player = "dead" /\ player' = "over"),
         UNCHANGED <<contexts, playing, interrupting, stale, remade>>
  PROVE  Lists' /\ line' \in Seq(Items)
<1>1. /\ line' \in Seq(Items)
      /\ \A x : Contains(line', x) <=> Contains(line, x) \/ x = item
      /\ \A x : Once(line, x) /\ (x # item \/ ~Contains(line, x)) => Once(line', x)
  BY ItemsApart, AppendHas DEF TypeOK
<1>2. Single'
  BY <1>1, ItemsApart DEF Lists, Single
<1>3. Hands'
  BY DEF Lists, Hands, Died
<1>4. \A id : Contains(line', Context(id)) <=> Contains(line, Context(id))
  BY <1>1, ItemsApart
<1>5. CASE interrupting = "telling"
  BY <1>1, <1>2, <1>3, <1>4, <1>5 DEF Lists, Telling
<1>6. CASE interrupting # "telling"
  BY <1>1, <1>2, <1>3, <1>4, <1>6 DEF Lists, Matched
<1> QED
  BY <1>5, <1>6

\* Nothing that the queue and the contexts depend on changes.
LEMMA ListsKept ==
  ASSUME Lists, UNCHANGED <<line, contexts, player, playing, process, interrupting, stale, remade>>
  PROVE  Lists'
<1>1. Single' /\ Hands'
  BY DEF Lists, Single, Hands, Died
<1>2. (Telling => Telling') /\ (Matched => Matched')
  BY DEF Telling, Matched
<1> QED
  BY <1>1, <1>2 DEF Lists

\* The audio context task takes what comes first in it.
LEMMA Popped ==
  ASSUME TypeOK, Lists, NEW item, Pop(item)
  PROVE  /\ line' \in Seq(Items)
         /\ \A x : x # item => (Contains(line', x) <=> Contains(line, x))
         /\ \A x : x # Must => Once(line', x)
         /\ item # Must => ~Contains(line', item)
         /\ Contains(line, item) /\ item \in Items
         /\ playing = 0 /\ interrupting = "no"
<1>1. playing = 0 /\ interrupting = "no"
  BY DEF TypeOK, Pop, Lists, Hands
<1>2. line \in Seq(Items) /\ line # <<>> /\ Head(line) = item /\ line' = Tail(line)
  BY DEF TypeOK, Pop
<1>3. \A x : x # Must => Once(line, x)
  BY DEF Lists, Single
<1> QED
  BY <1>1, <1>2, <1>3, TailHas
-----------------------------------------------------------------------------
(***************************************************************************)
(* The process task                                                        *)
(***************************************************************************)
\* A context for a number that was not given out before, or for the turn.
LEMMA OpenedFresh ==
  ASSUME TypeOK, Fresh, NEW id \in Ids, id \notin stale, id <= ids', ids' \in 0..MaxTurns,
         ids <= ids', contexts' = contexts \cup {id}, UNCHANGED <<stale, turn>>
  PROVE  Fresh' /\ contexts' \subseteq Ids
BY DEF TypeOK, Fresh, Ids

LEMMA StartTurnInv == ASSUME Inv, StartTurn PROVE Inv'
<1>1. TypeOK'
  <2>1. ids' \in 0..MaxTurns /\ turn' \in 0..MaxTurns
    BY BoundAssumption DEF Inv, TypeOK, StartTurn
  <2> QED
    BY <2>1 DEF Inv, TypeOK, StartTurn, output, input, provider, transport, history
<1>2. Lists'
  BY ListsKept DEF Inv, StartTurn, output, input, history
<1>3. Fresh'
  BY DEF Inv, TypeOK, Fresh, StartTurn, output, history
<1> QED
  BY <1>1, <1>2, <1>3 DEF Inv

LEMMA TextInv == ASSUME Inv, Text PROVE Inv'
<1>1. /\ turn \in Ids /\ turn <= ids /\ turn \notin stale
      /\ UNCHANGED <<ids, turn, process, playing, stale, remade, player, interrupting>>
      /\ interrupting = "no" /\ emitted' = emitted
  BY DEF Inv, TypeOK, Fresh, Text, Free, Ids, input, history
<1>2. CASE turn \in contexts
  <2>1. UNCHANGED <<line, contexts, queue>>
    BY <1>2 DEF Text, Open
  <2>2. TypeOK'
    BY <2>1, <1>1 DEF Inv, TypeOK, Text, input, transport
  <2> QED
    BY <2>1, <2>2, <1>1, ListsKept DEF Inv, Fresh
<1>3. CASE turn \notin contexts
  <2>1. /\ line' = Append(line, Context(turn)) /\ contexts' = contexts \cup {turn}
        /\ queue' = [queue EXCEPT ![turn] = <<>>]
    BY <1>3 DEF Text, Open, Create
  <2>2. Lists' /\ line' \in Seq(Items)
    BY <2>1, <1>1, <1>3, Opened DEF Inv
  <2>3. Fresh' /\ contexts' \subseteq Ids
    <3>1. TypeOK /\ Fresh
      BY DEF Inv
    <3>2. ids \in 0..MaxTurns
      BY <3>1 DEF TypeOK
    <3>3. turn <= ids' /\ ids' \in 0..MaxTurns /\ ids <= ids' /\ UNCHANGED <<stale, turn>>
      BY <1>1, <3>2
    <3>4. turn \in Ids /\ turn \notin stale /\ contexts' = contexts \cup {turn}
      BY <1>1, <2>1
    <3> QED
      BY <3>1, <3>3, <3>4, OpenedFresh
  <2>4. queue' \in [Ids -> Seq({"audio", "stopped", "end"})]
    BY <2>1, Emptied DEF Inv, TypeOK
  <2>5. TypeOK'
    BY <2>2, <2>3, <2>4, <1>1 DEF Inv, TypeOK, Text, input, transport
  <2> QED
    BY <2>2, <2>3, <2>5, <1>1 DEF Inv
<1> QED
  BY <1>2, <1>3

LEMMA EndTurnInv == ASSUME Inv, EndTurn PROVE Inv'
<1>1. TypeOK'
  <2>1. paused' \in BOOLEAN
    BY DEF EndTurn, Pause
  <2>2. turn \in Ids /\ 0 \in 0..MaxTurns
    BY BoundAssumption DEF Inv, TypeOK, EndTurn, Ids
  <2>3. turn' \in 0..MaxTurns /\ text' \in BOOLEAN /\ flushed' \subseteq Ids
    BY <2>2 DEF Inv, TypeOK, EndTurn
  <2> QED
    BY <2>1, <2>3 DEF Inv, TypeOK, EndTurn, output, input, transport, history
<1>2. Lists'
  BY ListsKept DEF Inv, EndTurn, output, input, history
<1>3. Fresh'
  <2>1. 0 \notin stale
    BY DEF Inv, TypeOK, Fresh
  <2> QED
    BY <2>1 DEF Inv, TypeOK, Fresh, EndTurn, output, history
<1> QED
  BY <1>1, <1>2, <1>3 DEF Inv

LEMMA SpeakInv == ASSUME Inv, Speak PROVE Inv'
<1>1. PICK id : id = ids + 1
  OBVIOUS
<1>2. /\ id \in Ids /\ id \notin contexts /\ id \notin stale
      /\ ids' = id /\ ids' \in 0..MaxTurns /\ ids <= ids'
  BY <1>1, BoundAssumption DEF Inv, TypeOK, Fresh, Speak, Ids
<1>3. /\ line' = Append(line, Context(id)) /\ contexts' = contexts \cup {id}
      /\ queue' = [queue EXCEPT ![id] = <<>>]
      /\ asked' = asked \cup {id} /\ flushed' = flushed \cup {id} /\ paused' \in BOOLEAN
      /\ UNCHANGED <<turn, process, playing, stale, remade, player, interrupting>>
      /\ interrupting = "no" /\ emitted' = emitted
  BY <1>1 DEF Speak, Create, Pause, Free, input, history, Inv, TypeOK
<1>4. Lists' /\ line' \in Seq(Items)
  BY <1>2, <1>3, Opened DEF Inv
<1>5. Fresh' /\ contexts' \subseteq Ids
  <2>1. id <= ids'
    BY <1>2 DEF Ids
  <2> QED
    BY <2>1, <1>2, <1>3, OpenedFresh DEF Inv
<1>6. queue' \in [Ids -> Seq({"audio", "stopped", "end"})]
  BY <1>3, Emptied DEF Inv, TypeOK
<1>7. TypeOK'
  BY <1>2, <1>3, <1>4, <1>5, <1>6 DEF Inv, TypeOK, Speak, input, transport
<1> QED
  BY <1>3, <1>4, <1>5, <1>7 DEF Inv

LEMMA TakeInv == ASSUME Inv, NEW frame \in {"must", "end"}, Take(frame) PROVE Inv'
<1>1. TypeOK'
  BY BoundAssumption DEF Inv, TypeOK, Take, output, input, provider, transport, history
<1> QED
  BY <1>1, ListsKept DEF Inv, Fresh, Take, output, input, history

LEMMA HandleInv == ASSUME Inv, HandleMust \/ Stop PROVE Inv'
<1>1. PICK item \in {Must, Sentinel} :
        /\ line' = Append(line, item)
        /\ item = Sentinel => process = "running" /\ process' = "stopping"
        /\ item = Must => process' = process
        /\ UNCHANGED <<ids, turn, contexts, playing, player, interrupting, stale, remade, emitted>>
  BY ItemsApart DEF HandleMust, Stop, input, history
<1>2. Lists' /\ line' \in Seq(Items)
  BY <1>1, Enqueued DEF Inv
<1>3. TypeOK'
  BY <1>1, <1>2 DEF Inv, TypeOK, HandleMust, Stop, input, provider, transport
<1> QED
  BY <1>1, <1>2, <1>3 DEF Inv, Fresh

LEMMA StopAtOnceInv == ASSUME Inv, StopAtOnce PROVE Inv'
<1>1. /\ process = "running" /\ process' = "ended" /\ held' = "none"
      /\ UNCHANGED <<ids, turn, contexts, playing, interrupting, stale, remade, emitted>>
  BY DEF StopAtOnce, input, history
<1>2. CASE player = "dead" /\ player' = "over" /\ line' = Append(line, Sentinel)
  <2>1. Lists' /\ line' \in Seq(Items)
    BY <1>1, <1>2, Enqueued, ItemsApart DEF Inv
  <2>2. TypeOK'
    BY <1>1, <1>2, <2>1 DEF Inv, TypeOK, StopAtOnce, input, provider, transport
  <2> QED
    BY <1>1, <2>1, <2>2 DEF Inv, Fresh
<1>3. CASE UNCHANGED <<player, line>>
  <2>1. Lists'
    BY <1>1, <1>3 DEF Inv, Lists, Single, Hands, Died, Telling, Matched
  <2>2. TypeOK'
    BY <1>1, <1>3 DEF Inv, TypeOK, StopAtOnce, input, provider, transport
  <2> QED
    BY <1>1, <2>1, <2>2 DEF Inv, Fresh
<1> QED
  BY <1>2, <1>3 DEF StopAtOnce
-----------------------------------------------------------------------------
(***************************************************************************)
(* The audio context task                                                  *)
(***************************************************************************)
LEMMA PlayContextInv == ASSUME Inv, PlayContext PROVE Inv'
<1>1. PICK id \in contexts :
        /\ Pop(Context(id))
        /\ player' = "playing" /\ playing' = id /\ received' = FALSE
        /\ UNCHANGED <<task, paused, contexts, queue, input, provider, transport, history>>
  BY DEF PlayContext
<1>2. id \in Ids /\ id # 0
  BY <1>1 DEF Inv, TypeOK, Ids
<1>3. /\ line' \in Seq(Items)
      /\ \A x : x # Context(id) => (Contains(line', x) <=> Contains(line, x))
      /\ \A x : x # Must => Once(line', x)
      /\ ~Contains(line', Context(id))
      /\ playing = 0 /\ interrupting = "no"
  BY <1>1, <1>2, Popped, ItemsApart DEF Inv
<1>4. Lists'
  <2>1. \A other \in Ids \ remade' :
          Contains(line', Context(other)) <=> other \in contexts' /\ other # playing'
    BY <1>1, <1>2, <1>3, ItemsApart DEF Inv, Lists, Matched, Ids, history
  <2>2. Matched'
    BY <2>1, <1>1, <1>3 DEF Inv, Lists, Matched, history
  <2>3. Single'
    BY <1>1, <1>3, ItemsApart DEF Inv, Lists, Single, task
  <2>4. Hands'
    BY <1>1, <1>3 DEF Hands, Died, input
  <2> QED
    BY <2>2, <2>3, <2>4, <1>1, <1>3 DEF Lists, input
<1>5. TypeOK'
  <2>1. playing' \in 0..MaxTurns /\ playing' # 0
    BY <1>1, <1>2 DEF Ids
  <2> QED
    BY <2>1, <1>1, <1>3 DEF Inv, TypeOK, task, input, provider, transport, history
<1> QED
  BY <1>1, <1>4, <1>5 DEF Inv, Fresh, task, history

\* What has no entry was made again while the provider was being told.
LEMMA PlayMissingInv == ASSUME Inv, PlayMissing PROVE Inv'
<1>1. PICK id \in Ids \ contexts :
        /\ Pop(Context(id)) /\ playing' = id
        /\ IF process = "stopping"
           THEN player' = "over" /\ process' = "ended" /\ held' = "none"
           ELSE player' = "dead" /\ UNCHANGED <<process, held>>
        /\ UNCHANGED <<ids, turn, text, musts, paused, contexts, queue, received, input, provider,
                       transport, history>>
  BY DEF PlayMissing
<1>2. /\ line' \in Seq(Items)
      /\ \A x : x # Context(id) => (Contains(line', x) <=> Contains(line, x))
      /\ \A x : x # Must => Once(line', x)
      /\ Contains(line, Context(id))
      /\ playing = 0 /\ interrupting = "no"
  BY <1>1, Popped, ItemsApart DEF Inv
<1>3. id \in remade /\ id # 0
  BY <1>1, <1>2 DEF Inv, Lists, Matched, Ids
<1>4. Lists'
  <2>1. \A other \in Ids \ remade' :
          Contains(line', Context(other)) <=> other \in contexts' /\ other # playing'
    BY <1>1, <1>2, <1>3, ItemsApart DEF Inv, Lists, Matched, Ids, history
  <2>2. Matched'
    BY <2>1, <1>1, <1>2, <1>3 DEF Inv, Lists, Matched, history
  <2>3. Single'
    BY <1>1, <1>2, ItemsApart DEF Inv, Lists, Single
  <2>4. Hands'
    BY <1>1, <1>2, <1>3 DEF Hands, Died, input, history
  <2> QED
    BY <2>2, <2>3, <2>4, <1>1, <1>2 DEF Lists, input
<1>5. TypeOK'
  <2>1. playing' \in 0..MaxTurns /\ playing' # 0
    BY <1>1, <1>3 DEF Ids
  <2>2. /\ player' \in {"over", "dead"} /\ process' \in {"ended", process}
        /\ held' \in {"none", held}
    BY <1>1
  <2> QED
    BY <2>1, <2>2, <1>1, <1>2 DEF Inv, TypeOK, input, provider, transport, history
<1> QED
  BY <1>1, <1>4, <1>5 DEF Inv, Fresh, history

LEMMA PlayFrameInv == ASSUME Inv, PlayFrame \/ ShutDown PROVE Inv'
<1>1. PICK item \in {Must, Sentinel} :
        /\ Pop(item)
        /\ item = Must => process' = process /\ player' = player
        /\ item = Sentinel => process' = "ended" /\ player' = "over"
        /\ UNCHANGED <<ids, turn, contexts, playing, interrupting, stale, remade>>
  BY ItemsApart DEF PlayFrame, ShutDown, task, input, history
<1>2. /\ line' \in Seq(Items)
      /\ \A x : x # item => (Contains(line', x) <=> Contains(line, x))
      /\ \A x : x # Must => Once(line', x)
      /\ item # Must => ~Contains(line', item)
      /\ playing = 0 /\ interrupting = "no"
  BY <1>1, Popped DEF Inv
<1>3. Lists'
  <2>1. \A id : Contains(line', Context(id)) <=> Contains(line, Context(id))
    BY <1>1, <1>2, ItemsApart
  <2>2. Matched'
    BY <2>1, <1>1, <1>2 DEF Inv, Lists, Matched
  <2>3. Single'
    BY <1>1, <1>2, ItemsApart DEF Inv, Lists, Single
  <2>4. Hands'
    <3>1. player = "idle" /\ playing' = 0 /\ interrupting' = "no"
      BY <1>1, <1>2 DEF Pop
    <3> QED
      BY <3>1, <1>1 DEF Hands, Died
  <2> QED
    BY <2>2, <2>3, <2>4, <1>1, <1>2 DEF Lists
<1>4. TypeOK'
  BY <1>1, <1>2 DEF Inv, TypeOK, Pop, PlayFrame, ShutDown, task, input, provider, transport, history
<1> QED
  BY <1>1, <1>3, <1>4 DEF Inv, Fresh

LEMMA PlayItemInv == ASSUME Inv, NEW item \in {"audio", "stopped"}, PlayItem(item) PROVE Inv'
<1>1. /\ playing \in Ids /\ queue[playing] \in Seq({"audio", "stopped", "end"})
      /\ queue[playing] # <<>> /\ sent \in Seq({"audio", "stopped"})
  BY BoundAssumption DEF Inv, TypeOK, PlayItem, Ids
<1>2. queue' \in [Ids -> Seq({"audio", "stopped", "end"})]
  <2>1. Tail(queue[playing]) \in Seq({"audio", "stopped", "end"})
    BY <1>1
  <2> QED
    BY <2>1 DEF Inv, TypeOK, PlayItem
<1>3. sent' \in Seq({"audio", "stopped"})
  BY <1>1 DEF PlayItem
<1>4. TypeOK'
  BY <1>2, <1>3 DEF Inv, TypeOK, PlayItem, task, input, provider, history
<1> QED
  BY <1>4, ListsKept DEF Inv, Fresh, PlayItem, task, input, history

LEMMA FinishContextInv == ASSUME Inv, FinishContext PROVE Inv'
<1>1. /\ player = "playing" /\ playing # 0 /\ playing \in contexts /\ playing \notin remade
      /\ interrupting = "no"
  BY DEF Inv, TypeOK, Lists, Hands, Matched, Fresh, FinishContext
<1>2. /\ contexts' = contexts \ {playing} /\ player' = "idle" /\ playing' = 0
      /\ UNCHANGED <<ids, turn, process, line, interrupting, stale, remade>>
  BY DEF FinishContext, task, input, history
<1>3. TypeOK'
  <2>1. queue' \in [Ids -> Seq({"audio", "stopped", "end"})]
    BY Emptied DEF Inv, TypeOK, FinishContext
  <2>2. 0 \in 0..MaxTurns
    BY BoundAssumption
  <2>3. paused' \in BOOLEAN
    BY DEF Inv, TypeOK, FinishContext, LiftPause
  <2> QED
    BY <2>1, <2>2, <2>3 DEF Inv, TypeOK, FinishContext, task, input, provider, transport, history
<1>4. Lists'
  <2>1. Matched'
    BY <1>1, <1>2 DEF Inv, Lists, Matched, Ids
  <2>2. Single'
    BY <1>2 DEF Inv, Lists, Single
  <2>3. Hands'
    BY <1>1, <1>2 DEF Hands, Died
  <2> QED
    BY <2>1, <2>2, <2>3, <1>1, <1>2 DEF Lists
<1> QED
  BY <1>2, <1>3, <1>4 DEF Inv, Fresh
-----------------------------------------------------------------------------
(***************************************************************************)
(* The provider, the transport and the input task                          *)
(***************************************************************************)
LEMMA ProvideInv == ASSUME Inv, NEW id \in Ids, Provide(id) PROVE Inv'
<1>1. /\ chunks' \in [Ids -> 0..MaxChunks]
      /\ UNCHANGED <<ids, turn, process, playing, stale, player, interrupting>>
      /\ UNCHANGED <<task, paused, received, input, asked, flushed, transport, emitted>>
      /\ turn \notin stale
  <2>1. chunks[id] + 1 \in 0..MaxChunks
    <3>1. chunks[id] \in 0..MaxChunks /\ chunks[id] < MaxChunks
      BY DEF Inv, TypeOK, Provide
    <3> QED
      BY <3>1, BoundAssumption
  <2> QED
    BY <2>1 DEF Inv, TypeOK, Fresh, Provide, task, input
<1>2. CASE id \in contexts
  <2>1. UNCHANGED <<line, contexts, remade>> /\ queue' = [queue EXCEPT ![id] = Append(@, "audio")]
    BY <1>2 DEF Provide
  <2>2. Append(queue[id], "audio") \in Seq({"audio", "stopped", "end"})
    BY DEF Inv, TypeOK
  <2>3. queue' \in [Ids -> Seq({"audio", "stopped", "end"})]
    BY <2>1, <2>2 DEF Inv, TypeOK
  <2>4. TypeOK'
    BY <2>1, <2>3, <1>1 DEF Inv, TypeOK, Provide, task, input, transport
  <2> QED
    BY <2>1, <2>4, <1>1, ListsKept DEF Inv, Fresh
<1>3. CASE id \notin contexts /\ id = turn
  <2>1. /\ line' = Append(line, Context(id)) /\ contexts' = contexts \cup {id}
        /\ queue' = [queue EXCEPT ![id] = <<"audio">>]
        /\ remade' = IF interrupting = "telling" THEN remade \cup {id} ELSE remade
    BY <1>3 DEF Provide
  <2>2. Lists' /\ line' \in Seq(Items)
    BY <2>1, <1>1, <1>3, Opened DEF Inv
  <2>3. Fresh' /\ contexts' \subseteq Ids
    <3>1. id <= ids' /\ ids' \in 0..MaxTurns /\ ids <= ids' /\ id \notin stale
      BY <1>1, <1>3 DEF Inv, TypeOK, Fresh
    <3> QED
      BY <3>1, <2>1, <1>1, OpenedFresh DEF Inv
  <2>4. queue' \in [Ids -> Seq({"audio", "stopped", "end"})]
    <3>1. <<"audio">> \in Seq({"audio", "stopped", "end"})
      OBVIOUS
    <3> QED
      BY <3>1, <2>1 DEF Inv, TypeOK
  <2>5. TypeOK'
    <3>1. remade' \subseteq Ids
      BY <2>1 DEF Inv, TypeOK
    <3> QED
      BY <3>1, <2>2, <2>3, <2>4, <1>1 DEF Inv, TypeOK, task, input, transport
  <2> QED
    BY <2>2, <2>3, <2>5, <1>1 DEF Inv
<1>4. CASE id \notin contexts /\ id # turn
  <2>1. UNCHANGED <<line, contexts, queue, remade>>
    BY <1>4 DEF Provide
  <2>2. TypeOK'
    BY <2>1, <1>1 DEF Inv, TypeOK, Provide, task, input, transport
  <2> QED
    BY <2>1, <2>2, <1>1, ListsKept DEF Inv, Fresh
<1> QED
  BY <1>2, <1>3, <1>4

LEMMA ProviderDoneInv == ASSUME Inv, NEW id \in Ids, ProviderDone(id) PROVE Inv'
<1>1. queue' \in [Ids -> Seq({"audio", "stopped", "end"})]
  <2>1. queue[id] \o <<"stopped", "end">> \in Seq({"audio", "stopped", "end"})
    BY DEF Inv, TypeOK
  <2> QED
    BY <2>1 DEF Inv, TypeOK, ProviderDone
<1>2. TypeOK'
  BY <1>1 DEF Inv, TypeOK, ProviderDone, task, input, transport, history
<1> QED
  BY <1>2, ListsKept DEF Inv, Fresh, ProviderDone, task, input, history

LEMMA TransportInv == ASSUME Inv, TransportPlays \/ TransportIdle PROVE Inv'
<1>1. /\ sent' \in Seq({"audio", "stopped"}) /\ speaking' \in BOOLEAN
      /\ told' \in Seq({"started", "stopped"})
  <2>1. /\ Append(told, "started") \in Seq({"started", "stopped"})
        /\ Append(told, "stopped") \in Seq({"started", "stopped"})
        /\ sent # <<>> => Tail(sent) \in Seq({"audio", "stopped"})
    BY DEF Inv, TypeOK
  <2> QED
    BY <2>1 DEF Inv, TypeOK, TransportPlays, TransportIdle, Started, Stopped
<1>2. UNCHANGED <<task, paused, output, input, provider, history>>
  BY DEF TransportPlays, TransportIdle
<1>3. TypeOK'
  BY <1>1, <1>2 DEF Inv, TypeOK, task, output, input, provider, history
<1> QED
  BY <1>2, <1>3, ListsKept DEF Inv, Fresh, task, output, input, history

LEMMA HearInv == ASSUME Inv, Hear PROVE Inv'
<1>1. told' \in Seq({"started", "stopped"}) /\ botSpeaking' \in BOOLEAN /\ paused' \in BOOLEAN
  BY DEF Inv, TypeOK, Hear
<1>2. TypeOK'
  BY <1>1 DEF Inv, TypeOK, Hear, task, output, provider, history
<1> QED
  BY <1>2, ListsKept DEF Inv, Fresh, Hear, task, output, history

LEMMA InterruptInv == ASSUME Inv, Interrupt PROVE Inv'
<1>1. /\ interrupts' \in 0..MaxInterrupts /\ paused' \in BOOLEAN
      /\ interrupting = "no" /\ interrupting' = "stopping"
      /\ player' = IF player \in {"over", "dead"} THEN player ELSE "none"
      /\ UNCHANGED <<ids, turn, process, line, contexts, playing, stale, remade, emitted>>
  BY BoundAssumption DEF Inv, TypeOK, Interrupt, history
<1>2. TypeOK'
  BY <1>1 DEF Inv, TypeOK, Interrupt, provider, transport
<1>3. Lists'
  BY <1>1 DEF Inv, Lists, Single, Hands, Died, Matched
<1> QED
  BY <1>1, <1>2, <1>3 DEF Inv, Fresh

\* FrameQueue.reset leaves uninterruptible frames only.
LEMMA Kept ==
  ASSUME TypeOK, Keep
  PROVE  line' \in Seq(Items) /\ \A x : Contains(line', x) => x = Must
<1>1. PICK n : n = Cardinality({i \in DOMAIN line : line[i] = Must})
  OBVIOUS
<1>2. n \in Nat
  <2>1. Len(line) \in Nat /\ DOMAIN line = 1..Len(line)
    BY DEF TypeOK
  <2>2. IsFiniteSet({i \in DOMAIN line : line[i] = Must})
    <3>1. IsFiniteSet(1..Len(line))
      BY <2>1, FS_Interval
    <3>2. {i \in DOMAIN line : line[i] = Must} \in SUBSET (1..Len(line))
      BY <2>1
    <3> QED
      BY <3>1, <3>2, FS_Subset
  <2> QED
    BY <2>2, <1>1, FS_CardinalityType
<1>3. line' = [k \in 1..n |-> Must]
  BY <1>1 DEF Keep
<1>4. line' \in Seq(Items) /\ Len(line') = n
  BY <1>2, <1>3, ItemsApart
<1> QED
  BY <1>3, <1>4 DEF Contains

\* Renew empties everything but the queue, whose contexts are then of before.
LEMMA Renewed ==
  ASSUME Inv, Renew, ids' = ids, Single', remade' \subseteq 1..ids,
         \A id \in Ids : Contains(line', Context(id)) => id \in remade'
  PROVE  Lists' /\ Fresh'
<1>1. /\ contexts' = {} /\ playing' = 0 /\ turn' = 0 /\ stale' = 1..ids
      /\ player' = "idle" /\ interrupting' = "no"
  BY DEF Renew, ResetIds
<1>2. Matched'
  BY <1>1 DEF Matched
<1>3. Hands'
  BY <1>1 DEF Hands, Died
<1>4. Fresh'
  BY <1>1, BoundAssumption DEF Inv, TypeOK, Fresh
<1> QED
  BY <1>1, <1>2, <1>3, <1>4 DEF Lists

LEMMA RenewedTypes ==
  ASSUME Inv, Renew
  PROVE  /\ queue' \in [Ids -> Seq({"audio", "stopped", "end"})]
         /\ sent' \in Seq({"audio", "stopped"}) /\ speaking' \in BOOLEAN
         /\ told' \in Seq({"started", "stopped"})
         /\ stale' \subseteq Ids /\ playing' = 0 /\ turn' = 0 /\ 0 \in 0..MaxTurns
         /\ contexts' = {} /\ player' = "idle" /\ interrupting' = "no" /\ paused' = FALSE
<1>1. Append(told, "stopped") \in Seq({"started", "stopped"})
  BY DEF Inv, TypeOK
<1>2. sent' = <<>> /\ speaking' = FALSE /\ told' \in {told, Append(told, "stopped")}
  BY DEF Renew, Stopped
<1>3. queue' = [id \in Ids |-> <<>>]
  BY DEF Renew
<1>4. stale' \subseteq Ids /\ 0 \in 0..MaxTurns
  BY BoundAssumption DEF Inv, TypeOK, Renew, Ids
<1> QED
  BY <1>1, <1>2, <1>3, <1>4, Emptied DEF Inv, TypeOK, Renew, ResetIds

\* The reset leaves no context in the queue, whether or not there is somebody to tell.
LEMMA TellProviderInv == ASSUME Inv, TellProvider PROVE Inv'
<1>1. line' \in Seq(Items) /\ \A x : Contains(line', x) => x = Must
  BY Kept DEF Inv, TellProvider
<1>2. /\ remade' = {} /\ process' \in {process, "dead"} /\ ids' = ids /\ interrupting # "no"
      /\ UNCHANGED <<text, held, musts, received, interrupts, botSpeaking, asked, flushed, chunks>>
      /\ emitted' = emitted
  BY DEF TellProvider, provider
<1>3. Single'
  <2>1. \A item, i : item # Must /\ i \in 1..Len(line') => line'[i] # item
    BY <1>1 DEF Contains
  <2>2. \A item : item # Must => Once(line', item)
    BY <2>1 DEF Once
  <2> QED
    BY <2>2, <1>1, ItemsApart DEF Single
<1>4. \A id \in Ids : ~Contains(line', Context(id))
  BY <1>1, ItemsApart
<1>5. CASE contexts = {}
  <2>1. Renew
    BY <1>5 DEF TellProvider
  <2>2. Lists' /\ Fresh'
    BY <2>1, <1>2, <1>3, <1>4, Renewed
  <2>3. TypeOK'
    BY <2>1, <1>1, <1>2, RenewedTypes DEF Inv, TypeOK
  <2> QED
    BY <2>2, <2>3 DEF Inv
<1>6. CASE contexts # {}
  <2>1. /\ interrupting' = "telling" /\ player' = "none"
        /\ UNCHANGED <<turn, playing, contexts, queue, paused, stale, sent, speaking, told>>
    BY <1>6 DEF TellProvider
  <2>2. Lists'
    BY <2>1, <1>2, <1>3, <1>4 DEF Lists, Telling, Hands, Died
  <2>3. TypeOK'
    BY <2>1, <1>1, <1>2 DEF Inv, TypeOK
  <2> QED
    BY <2>1, <2>2, <2>3, <1>2 DEF Inv, Fresh
<1> QED
  BY <1>5, <1>6

\* The contexts are gone, and the ones made again meanwhile are left in the queue.
LEMMA InterruptedInv == ASSUME Inv, Interrupted PROVE Inv'
<1>1. /\ Renew /\ ids' = ids /\ interrupting = "telling"
      /\ UNCHANGED <<text, held, process, musts, line, received, interrupts, botSpeaking, asked,
                     flushed, chunks, remade, emitted>>
  BY DEF Interrupted, provider
<1>2. Single' /\ \A id \in Ids : Contains(line', Context(id)) => id \in remade'
  BY <1>1 DEF Inv, Lists, Single, Telling
<1>3. remade' \subseteq 1..ids
  BY <1>1 DEF Inv, Lists, Telling, Fresh
<1>4. Lists' /\ Fresh'
  BY <1>1, <1>2, <1>3, Renewed
<1>5. TypeOK'
  BY <1>1, RenewedTypes DEF Inv, TypeOK
<1> QED
  BY <1>4, <1>5 DEF Inv
-----------------------------------------------------------------------------
(***************************************************************************)
(* The theorems                                                            *)
(***************************************************************************)
LEMMA InvNext == Inv /\ [Next]_vars => Inv'
<1> SUFFICES ASSUME Inv, [Next]_vars PROVE Inv'
  OBVIOUS
<1>1. CASE EventLoop
  BY <1>1, HandleInv, StopAtOnceInv, PlayContextInv, PlayMissingInv, PlayFrameInv, PlayItemInv,
     FinishContextInv, TransportInv, HearInv, TellProviderInv, InterruptedInv DEF EventLoop
<1>2. CASE StartTurn \/ Text \/ EndTurn \/ Speak \/ Interrupt
           \/ \E frame \in {"must", "end"} : Take(frame)
  BY <1>2, StartTurnInv, TextInv, EndTurnInv, SpeakInv, InterruptInv, TakeInv
<1>3. CASE \E id \in Ids : Provide(id) \/ ProviderDone(id)
  BY <1>3, ProvideInv, ProviderDoneInv
<1>4. CASE UNCHANGED vars
  <2>1. TypeOK'
    BY <1>4 DEF Inv, TypeOK, vars, task, output, input, provider, transport, history
  <2> QED
    BY <2>1, <1>4, ListsKept DEF Inv, Fresh, vars, task, output, input, history
<1> QED
  BY <1>1, <1>2, <1>3, <1>4 DEF Next

\* Queue and contexts agree, and what an interruption has put behind it stays behind: the
\* inductive invariant of the audio contexts.
THEOREM Invariance == Spec => []Inv
<1>1. Init => Inv
  BY InvInit
<1>2. Inv /\ [Next]_vars => Inv'
  BY InvNext
<1> QED
  BY <1>1, <1>2, PTL DEF Spec

\* Every variable keeps its type, for any bounds.
THEOREM TypeCorrect == Spec => []TypeOK
BY Invariance, PTL DEF Inv

\* The task that plays finds every context it takes, and every open one is played, once;
\* only a context made again while the provider was being told of an interruption has no
\* entry, and nothing else ends the task before its time.
THEOREM ContextsStayReady == Spec => []ContextsReady
<1>1. Inv => ContextsReady
  <2> SUFFICES ASSUME Inv, interrupting = "no"
               PROVE  /\ Queued \ remade = contexts \ {playing}
                      /\ player = "playing" => playing \in contexts
                      /\ Died => playing \in remade
                      /\ \A i, j \in DOMAIN line : line[i] = line[j] /\ line[i] # Must => i = j
    BY DEF ContextsReady
  <2>1. Queued \ remade = contexts \ {playing}
    <3>1. /\ \A id \in Ids \ remade :
               Contains(line, Context(id)) <=> id \in contexts /\ id # playing
          /\ contexts \subseteq Ids /\ contexts \cap remade = {}
      BY DEF Inv, TypeOK, Lists, Matched, Fresh
    <3> QED
      BY <3>1 DEF Queued
  <2>2. \A i, j \in DOMAIN line : line[i] = line[j] /\ line[i] # Must => i = j
    <3> SUFFICES ASSUME NEW i \in DOMAIN line, NEW j \in DOMAIN line, line[i] = line[j],
                        line[i] # Must
                 PROVE  i = j
      OBVIOUS
    <3>1. DOMAIN line = 1..Len(line)
      BY DEF Inv, TypeOK
    <3>2. Once(line, line[i])
      BY DEF Inv, Lists, Single
    <3> QED
      BY <3>1, <3>2 DEF Once
  <2> QED
    BY <2>1, <2>2 DEF Inv, Lists, Hands
<1> QED
  BY <1>1, Invariance, PTL

\* No audio from before an interruption leaves the service after it.
THEOREM AudioIsFresh == Spec => NoStaleAudio
<1> DEFINE A == sent' # sent /\ Len(sent') > Len(sent) /\ sent'[Len(sent')] = "audio"
                  => playing \notin stale
<1>1. Inv /\ [Next]_vars => [A]_vars
  <2> SUFFICES ASSUME Inv, Next, Len(sent') > Len(sent), sent' # sent PROVE playing \notin stale
    OBVIOUS
  <2>1. CASE \E item \in {"audio", "stopped"} : PlayItem(item)
    BY <2>1 DEF Inv, TypeOK, Lists, Hands, Fresh, PlayItem
  <2>2. CASE TransportPlays
    <3>1. Len(Tail(sent)) < Len(sent)
      BY <2>2 DEF Inv, TypeOK, TransportPlays
    <3> QED
      BY <3>1, <2>2 DEF Inv, TypeOK, TransportPlays
  <2>3. CASE TellProvider \/ Interrupted
    <3>1. sent' \in {sent, <<>>}
      BY <2>3 DEF TellProvider, Interrupted, Renew
    <3> QED
      BY <3>1 DEF Inv, TypeOK
  <2> QED
    BY <2>1, <2>2, <2>3
    DEF Next, EventLoop, HandleMust, Stop, StopAtOnce, PlayContext, PlayMissing, PlayFrame,
      ShutDown, FinishContext,
      TransportIdle, Hear, StartTurn, Text, EndTurn, Speak, Take, Provide, ProviderDone,
      Interrupt, transport
<1>2. [][Inv /\ [Next]_vars => [A]_vars]_vars
  BY <1>1, PTL
<1> QED
  BY <1>1, Invariance, PTL DEF Spec, NoStaleAudio
==============================================================================
