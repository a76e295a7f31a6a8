---------------------- MODULE ParallelPipelineProofs ----------------------
(***************************************************************************)
(* No lifecycle frame leaves a ParallelPipeline before every branch has    *)
(* handled it, the StartFrame leaves first and the EndFrame last, and      *)
(* buffering keeps the order of all others, for any number of branches and *)
(* any frames.                                                             *)
(*                                                                         *)
(* The argument counts: a synchronized frame is in a queue, or in every    *)
(* branch it has not left, and its counter is the number of those. The     *)
(* order rests on one relation between what was let through and what has   *)
(* come out or is buffered, which each way to add a frame keeps.           *)
(***************************************************************************)
EXTENDS ParallelPipeline, FiniteSetTheorems, TLAPS

-----------------------------------------------------------------------------
(***************************************************************************)
(* Sequences: what they contain, and whether once                          *)
(***************************************************************************)
Once(q, e) == \A i, j \in 1 .. Len(q) : q[i] = e /\ q[j] = e => i = j

LEMMA AppendHas ==
  ASSUME NEW S, NEW q \in Seq(S), NEW e \in S
  PROVE  /\ Append(q, e) \in Seq(S)
         /\ \A x : Contains(Append(q, e), x) <=> Contains(q, x) \/ x = e
         /\ \A x : Once(q, x) /\ (x # e \/ ~Contains(q, x)) => Once(Append(q, e), x)
         /\ Len(Append(q, e)) = Len(q) + 1
         /\ \A i \in 1 .. Len(q) : Append(q, e)[i] = q[i]
         /\ Append(q, e)[Len(q) + 1] = e
<1> DEFINE r == Append(q, e)
<1>1. /\ r \in Seq(S) /\ Len(r) = Len(q) + 1 /\ Len(q) \in Nat
      /\ \A i \in 1 .. Len(q) : r[i] = q[i]
      /\ r[Len(q) + 1] = e
  OBVIOUS
<1> HIDE DEF r
<1>2. \A x : Contains(r, x) <=> Contains(q, x) \/ x = e
  BY <1>1 DEF Contains
<1>3. \A x : Once(q, x) /\ (x # e \/ ~Contains(q, x)) => Once(r, x)
  BY <1>1 DEF Contains, Once
<1> QED
  BY <1>1, <1>2, <1>3 DEF r

LEMMA RemoveHas ==
  ASSUME NEW S, NEW q \in Seq(S), NEW i \in DOMAIN q
  PROVE  /\ RemoveAt(q, i) \in Seq(S)
         /\ Contains(q, q[i])
         /\ \A x : Contains(RemoveAt(q, i), x) => Contains(q, x)
         /\ \A x : Contains(q, x) /\ x # q[i] => Contains(RemoveAt(q, i), x)
         /\ \A x : Once(q, x) => Once(RemoveAt(q, i), x)
         /\ Once(q, q[i]) => ~Contains(RemoveAt(q, i), q[i])
         /\ Len(RemoveAt(q, i)) = Len(q) - 1
         /\ \A j \in 1 .. Len(q) - 1 : RemoveAt(q, i)[j] = IF j < i THEN q[j] ELSE q[j + 1]
<1>1. i \in 1 .. Len(q) /\ Len(q) \in Nat
  OBVIOUS
<1> DEFINE a == SubSeq(q, 1, i - 1)
           b == SubSeq(q, i + 1, Len(q))
           r == RemoveAt(q, i)
<1>2. a \in Seq(S) /\ Len(a) = i - 1 /\ \A j \in 1 .. i - 1 : a[j] = q[j]
  BY <1>1
<1>3. b \in Seq(S) /\ Len(b) = Len(q) - i /\ \A j \in 1 .. Len(q) - i : b[j] = q[j + i]
  BY <1>1
<1>4. r = a \o b
  BY DEF RemoveAt
<1> HIDE DEF a, b, r
<1>5. /\ r \in Seq(S) /\ Len(r) = Len(q) - 1
      /\ \A j \in 1 .. Len(q) - 1 : r[j] = IF j < i THEN q[j] ELSE q[j + 1]
  BY <1>1, <1>2, <1>3, <1>4
<1>6. Contains(q, q[i]) /\ \A x : Contains(r, x) => Contains(q, x)
  BY <1>1, <1>5 DEF Contains
<1>7. ASSUME NEW x, Contains(q, x), x # q[i] PROVE Contains(r, x)
  <2>1. PICK j \in 1 .. Len(q) : q[j] = x /\ j # i
    BY <1>7 DEF Contains
  <2>2. CASE j < i
    BY <2>1, <2>2, <1>1, <1>5 DEF Contains
  <2>3. CASE j > i
    <3>1. j - 1 \in 1 .. Len(q) - 1 /\ r[j - 1] = x
      BY <2>1, <2>3, <1>1, <1>5
    <3> QED
      BY <3>1, <1>5 DEF Contains
  <2> QED
    BY <2>1, <2>2, <2>3, <1>1
<1>8. ASSUME NEW x, Once(q, x) PROVE Once(r, x)
  BY <1>8, <1>1, <1>5 DEF Once
<1>9. Once(q, q[i]) => ~Contains(r, q[i])
  BY <1>1, <1>5 DEF Once, Contains
<1> QED
  BY <1>5, <1>6, <1>7, <1>8, <1>9 DEF r

LEMMA TailHas ==
  ASSUME NEW S, NEW q \in Seq(S), q # <<>>
  PROVE  /\ Tail(q) \in Seq(S) /\ Head(q) \in S
         /\ Contains(q, Head(q))
         /\ \A x : Contains(Tail(q), x) => Contains(q, x)
         /\ \A x : Contains(q, x) /\ x # Head(q) => Contains(Tail(q), x)
         /\ \A x : Once(q, x) => Once(Tail(q), x)
         /\ Once(q, Head(q)) => ~Contains(Tail(q), Head(q))
         /\ Len(Tail(q)) = Len(q) - 1
         /\ \A j \in 1 .. Len(q) - 1 : Tail(q)[j] = q[j + 1]
<1> DEFINE r == Tail(q)
<1>1. /\ r \in Seq(S) /\ Len(r) = Len(q) - 1 /\ Len(q) \in Nat \ {0}
      /\ \A j \in 1 .. Len(q) - 1 : r[j] = q[j + 1]
      /\ Head(q) = q[1] /\ Head(q) \in S
  OBVIOUS
<1> HIDE DEF r
<1>2. Contains(q, Head(q)) /\ \A x : Contains(r, x) => Contains(q, x)
  BY <1>1 DEF Contains
<1>3. ASSUME NEW x, Contains(q, x), x # Head(q) PROVE Contains(r, x)
  <2>1. PICK j \in 1 .. Len(q) : q[j] = x /\ j # 1
    BY <1>1, <1>3 DEF Contains
  <2>2. j - 1 \in 1 .. Len(q) - 1 /\ r[j - 1] = x
    BY <2>1, <1>1
  <2> QED
    BY <2>2, <1>1 DEF Contains
<1>4. ASSUME NEW x, Once(q, x) PROVE Once(r, x)
  BY <1>4, <1>1 DEF Once
<1>5. Once(q, Head(q)) => ~Contains(r, Head(q))
  BY <1>1 DEF Once, Contains
<1> QED
  BY <1>1, <1>2, <1>3, <1>4, <1>5 DEF r

LEMMA InsertHas ==
  ASSUME NEW S, NEW q \in Seq(S), NEW e \in S, NEW i \in 0 .. Len(q)
  PROVE  /\ InsertAt(q, i + 1, e) \in Seq(S)
         /\ \A x : Contains(InsertAt(q, i + 1, e), x) <=> Contains(q, x) \/ x = e
         /\ \A x : Once(q, x) /\ x # e => Once(InsertAt(q, i + 1, e), x)
         /\ Len(InsertAt(q, i + 1, e)) = Len(q) + 1
         /\ \A j \in 1 .. Len(q) + 1 : InsertAt(q, i + 1, e)[j] =
              IF j <= i THEN q[j] ELSE IF j = i + 1 THEN e ELSE q[j - 1]
<1>1. i \in Nat /\ i <= Len(q) /\ Len(q) \in Nat
  OBVIOUS
<1> DEFINE a == SubSeq(q, 1, i)
           b == SubSeq(q, i + 1, Len(q))
           c == Append(a, e)
           r == InsertAt(q, i + 1, e)
<1>2. a \in Seq(S) /\ Len(a) = i /\ \A j \in 1 .. i : a[j] = q[j]
  BY <1>1
<1>3. b \in Seq(S) /\ Len(b) = Len(q) - i /\ \A j \in 1 .. Len(q) - i : b[j] = q[j + i]
  BY <1>1
<1>4. r = c \o b
  <2>1. r = SubSeq(q, 1, (i + 1) - 1) \o <<e>> \o SubSeq(q, i + 1, Len(q))
    BY DEF InsertAt
  <2>2. (i + 1) - 1 = i
    BY <1>1
  <2>3. c = a \o <<e>>
    BY <1>2
  <2> QED
    BY <2>1, <2>2, <2>3
<1> HIDE DEF a, b, r
<1>5. c \in Seq(S) /\ Len(c) = i + 1 /\ c[i + 1] = e /\ \A j \in 1 .. i : c[j] = q[j]
  BY <1>1, <1>2
<1> HIDE DEF c
<1>6. /\ r \in Seq(S) /\ Len(r) = Len(q) + 1
      /\ \A j \in 1 .. Len(q) + 1 : r[j] =
           IF j <= i THEN q[j] ELSE IF j = i + 1 THEN e ELSE q[j - 1]
  <2>1. r \in Seq(S) /\ Len(r) = Len(q) + 1
    BY <1>1, <1>3, <1>4, <1>5
  <2>2. \A j \in 1 .. i + 1 : r[j] = c[j]
    BY <1>1, <1>3, <1>4, <1>5
  <2>3. \A j \in i + 2 .. Len(q) + 1 : r[j] = b[j - (i + 1)]
    BY <1>1, <1>3, <1>4, <1>5
  <2>4. \A j \in i + 2 .. Len(q) + 1 : r[j] = q[j - 1]
    <3> SUFFICES ASSUME NEW j \in i + 2 .. Len(q) + 1 PROVE r[j] = q[j - 1]
      OBVIOUS
    <3>1. j - (i + 1) \in 1 .. Len(q) - i /\ (j - (i + 1)) + i = j - 1
      BY <1>1
    <3> QED
      BY <3>1, <2>3, <1>3
  <2> QED
    BY <1>1, <1>5, <2>1, <2>2, <2>4
<1>7. \A x : Contains(r, x) => Contains(q, x) \/ x = e
  BY <1>1, <1>6 DEF Contains
<1>8. Contains(r, e)
  <2>1. i + 1 \in 1 .. Len(r) /\ r[i + 1] = e
    BY <1>1, <1>6
  <2> QED
    BY <2>1 DEF Contains
<1>9. ASSUME NEW x, Contains(q, x) PROVE Contains(r, x)
  <2>1. PICK j \in 1 .. Len(q) : q[j] = x
    BY <1>9 DEF Contains
  <2>2. CASE j <= i
    BY <2>1, <2>2, <1>1, <1>6 DEF Contains
  <2>3. CASE j > i
    <3>1. j + 1 \in 1 .. Len(q) + 1 /\ r[j + 1] = x
      BY <2>1, <2>3, <1>1, <1>6
    <3> QED
      BY <3>1, <1>6 DEF Contains
  <2> QED
    BY <2>1, <2>2, <2>3, <1>1
<1>10. ASSUME NEW x, Once(q, x), x # e PROVE Once(r, x)
  <2> DEFINE was(j) == IF j <= i THEN j ELSE j - 1
  <2>1. \A j \in 1 .. Len(r) : r[j] = x => j # i + 1 /\ was(j) \in 1 .. Len(q) /\ q[was(j)] = x
    BY <1>10, <1>1, <1>6
  <2>2. \A j, k \in 1 .. Len(r) : j # i + 1 /\ k # i + 1 /\ was(j) = was(k) => j = k
    BY <1>1, <1>6
  <2> HIDE DEF was
  <2> QED
    BY <2>1, <2>2, <1>10 DEF Once
<1> QED
  BY <1>6, <1>7, <1>8, <1>9, <1>10 DEF r
-----------------------------------------------------------------------------
(***************************************************************************)
(* The frames, and what the operators of the module do to the state        *)
(***************************************************************************)
LEMMA Frames ==
  /\ Synchronized \subseteq Frame /\ System \subseteq Frame /\ Data \subseteq Frame \cup Own
  /\ Synchronized \cap Data = {} /\ Data \cap System = {} /\ Synchronized \cap Own = {}
  /\ Is("start") \subseteq Synchronized /\ Is("start") \subseteq System
  /\ Is("end") \subseteq Synchronized /\ Is("end") \cap System = {}
  /\ Is("cancel") \subseteq Synchronized /\ Is("flush") \cap Synchronized = {}
  /\ Is("flush") \cap (System \cup Data) = {} /\ Is("flush") \subseteq Frame
  /\ Is("end") \cap Is("start") = {}
BY BranchAssumption DEF Synchronized, System, Data, Is

LEMMA Branches == Cardinality(Branch) \in Nat \ {0}
BY BranchAssumption, FS_CardinalityType, FS_EmptySet

\* A frame that is not synchronized is let out, buffered, or dropped as seen.
LEMMA PushEffect ==
  ASSUME TypeOK, NEW f \in Frame \cup Own, f \notin Synchronized, NEW dir \in {"down", "up"},
         ParallelPush(f, dir)
  PROVE  /\ left' \in Seq(Frame \cup Own) /\ buffered' \in Seq(Pushed) /\ out' \in Seq(Pushed)
         /\ \A g \in Synchronized : Contains(left', g) => Contains(left, g)
         /\ \A g \in Synchronized : \A d \in {"down", "up"} :
              /\ Contains(buffered', <<g, d>>) => Contains(buffered, <<g, d>>)
              /\ Contains(out', <<g, d>>) => Contains(out, <<g, d>>)
         /\ synchronizing => out' = out
         /\ out # <<>> => out' # <<>> /\ out'[1] = out[1]
<1> DEFINE e == <<f, dir>>
<1>1. e \in Pushed /\ \A g \in Synchronized, d \in {"down", "up"} : <<g, d>> # e /\ g # f
  BY DEF Pushed
<1>2. /\ left \in Seq(Frame \cup Own) /\ buffered \in Seq(Pushed) /\ out \in Seq(Pushed)
  BY DEF TypeOK
<1>3. /\ left' \in {left, Append(left, f)}
      /\ buffered' \in {buffered, Append(buffered, e)}
      /\ out' \in {out, Append(out, e)}
      /\ synchronizing => out' = out
  BY DEF ParallelPush
<1> HIDE DEF e
<1>4. /\ left' \in Seq(Frame \cup Own)
      /\ \A g \in Synchronized : Contains(left', g) => Contains(left, g)
  <2>1. /\ Append(left, f) \in Seq(Frame \cup Own)
        /\ \A x : Contains(Append(left, f), x) <=> Contains(left, x) \/ x = f
    BY <1>2, AppendHas
  <2> QED
    BY <2>1, <1>1, <1>2, <1>3
<1>5. /\ buffered' \in Seq(Pushed)
      /\ \A g \in Synchronized : \A d \in {"down", "up"} :
           Contains(buffered', <<g, d>>) => Contains(buffered, <<g, d>>)
  <2>1. /\ Append(buffered, e) \in Seq(Pushed)
        /\ \A x : Contains(Append(buffered, e), x) <=> Contains(buffered, x) \/ x = e
    BY <1>1, <1>2, AppendHas
  <2> QED
    BY <2>1, <1>1, <1>2, <1>3
<1>6. /\ out' \in Seq(Pushed)
      /\ \A g \in Synchronized : \A d \in {"down", "up"} :
           Contains(out', <<g, d>>) => Contains(out, <<g, d>>)
  <2>1. /\ Append(out, e) \in Seq(Pushed)
        /\ \A x : Contains(Append(out, e), x) <=> Contains(out, x) \/ x = e
    BY <1>1, <1>2, AppendHas
  <2> QED
    BY <2>1, <1>1, <1>2, <1>3
<1>7. out # <<>> => out' # <<>> /\ out'[1] = out[1]
  <2>1. CASE out' = out
    BY <2>1
  <2>2. CASE out' = Append(out, e)
    <3>1. Len(out) \in Nat /\ (out # <<>> => Len(out) > 0)
      BY <1>2
    <3>2. out' \in Seq(Pushed) /\ Len(out') = Len(out) + 1
          /\ \A i \in 1 .. Len(out) : out'[i] = out[i]
      BY <1>1, <1>2, <2>2, AppendHas
    <3> QED
      BY <3>1, <3>2
  <2> QED
    BY <1>3, <2>1, <2>2
<1> QED
  BY <1>3, <1>4, <1>5, <1>6, <1>7

\* What is released when the last branch has handled a synchronized frame.
LEMMA ReleaseEffect ==
  ASSUME TypeOK, NEW f \in Synchronized,
         \A g \in Synchronized : \A d \in {"down", "up"} : ~Contains(buffered, <<g, d>>),
         out' = out \o Released(f)
  PROVE  /\ out' \in Seq(Pushed)
         /\ \A g \in Synchronized : \A d \in {"down", "up"} :
              Contains(out', <<g, d>>) => Contains(out, <<g, d>>) \/ g = f
         /\ out # <<>> => out' # <<>> /\ out'[1] = out[1]
         /\ out = <<>> /\ f \in Is("start") /\ ~Seen(f) => out' # <<>> /\ out'[1] = <<f, "down">>
<1> DEFINE e == <<f, "down">>
           it == IF Seen(f) THEN <<>> ELSE <<e>>
           all == Released(f)
<1>1. e \in Pushed
  BY Frames DEF Pushed
<1>2. buffered \in Seq(Pushed) /\ out \in Seq(Pushed)
  BY DEF TypeOK
<1>3. it \in Seq(Pushed) /\ Len(it) \in {0, 1} /\ (Len(it) = 1 => it[1] = e)
      /\ (~Seen(f) => Len(it) = 1)
  BY <1>1
<1>4. all = IF f \in Is("start") THEN it \o buffered ELSE buffered \o it
  BY DEF Released, Flushed
<1> HIDE DEF it, all, e
<1>5. /\ all \in Seq(Pushed) /\ Len(all) = Len(buffered) + Len(it)
      /\ \A i \in 1 .. Len(all) : all[i] = e \/ \E j \in 1 .. Len(buffered) : all[i] = buffered[j]
      /\ f \in Is("start") /\ ~Seen(f) => Len(all) > 0 /\ all[1] = e
  BY <1>1, <1>2, <1>3, <1>4
<1>6. out' = out \o all
  BY DEF all
<1>7. /\ out' \in Seq(Pushed) /\ Len(out') = Len(out) + Len(all) /\ Len(out) \in Nat
      /\ \A i \in 1 .. Len(out) : out'[i] = out[i]
      /\ \A i \in Len(out) + 1 .. Len(out) + Len(all) : out'[i] = all[i - Len(out)]
  <2>1. out \in Seq(Pushed) /\ all \in Seq(Pushed) /\ out' = out \o all
    BY <1>2, <1>5, <1>6
  <2> QED
    BY ONLY <2>1
<1>8. ASSUME NEW g \in Synchronized, NEW d \in {"down", "up"}, Contains(out', <<g, d>>)
      PROVE  Contains(out, <<g, d>>) \/ g = f
  <2>1. PICK i \in 1 .. Len(out') : out'[i] = <<g, d>>
    BY <1>8 DEF Contains
  <2>2. CASE i <= Len(out)
    BY <2>1, <2>2, <1>7 DEF Contains
  <2>3. CASE i > Len(out)
    <3>1. i - Len(out) \in 1 .. Len(all) /\ all[i - Len(out)] = <<g, d>>
      BY <2>1, <2>3, <1>5, <1>7, <1>2
    <3>2. <<g, d>> = e
      BY <3>1, <1>5 DEF Contains
    <3> QED
      BY <3>2 DEF e
  <2> QED
    BY <2>1, <2>2, <2>3, <1>7
<1>9. out # <<>> => out' # <<>> /\ out'[1] = out[1]
  BY <1>2, <1>7, <1>5
<1>10. out = <<>> /\ f \in Is("start") /\ ~Seen(f) => out' # <<>> /\ out'[1] = e
  <2> SUFFICES ASSUME out = <<>>, f \in Is("start"), ~Seen(f) PROVE out' # <<>> /\ out'[1] = e
    OBVIOUS
  <2>1. out' = all
    BY <1>6, <1>5
  <2> QED
    BY <2>1, <1>5
<1> QED
  BY <1>7, <1>8, <1>9, <1>10 DEF e
-----------------------------------------------------------------------------
(***************************************************************************)
(* The invariant                                                           *)
(***************************************************************************)
Waiting(f) == Contains(sysQueue, f) \/ Contains(queue, <<f, "down">>)
Taken(f)   == f \in queued /\ ~Waiting(f)
Missing(f) == {b \in Branch : f \notin gone[b]}

\* A synchronized frame waits in one place, and only comes from upstream.
Waits ==
  \A f \in Synchronized :
    /\ Waiting(f) => f \in queued
    /\ Once(sysQueue, f) /\ Once(queue, <<f, "down">>)
    /\ ~Contains(queue, <<f, "up">>)

\* Once taken, it is in each branch or has left it, and never comes back up.
Travels ==
  \A f \in Synchronized, b \in Branch :
    /\ ~Contains(up[b], f) /\ Once(down[b], f)
    /\ Contains(down[b], f) \/ f \in gone[b] <=> Taken(f)
    /\ ~(Contains(down[b], f) /\ f \in gone[b])

\* It is never buffered, and is let out when every branch has handled it.
Comes ==
  \A f \in Synchronized : \A d \in {"down", "up"} :
    /\ ~Contains(buffered, <<f, d>>)
    /\ Contains(left, f) \/ Contains(out, <<f, d>>) => \A b \in Branch : f \in gone[b]

\* Its counter is the number of branches that have yet to handle it.
Counts ==
  /\ \A f \in Synchronized : counter[f] = IF Taken(f) THEN Cardinality(Missing(f)) ELSE 0
  /\ \A f \in Frame \ Synchronized : counter[f] = 0

\* Only one frame is being synchronized at a time, so none ends another's pause early.
OneAtATime ==
  /\ \A f, g \in Frame : counter[f] > 0 /\ counter[g] > 0 => f = g
  /\ synchronizing <=> \E f \in Frame : counter[f] > 0
  /\ (noSystem <=> synchronizing) /\ (noFrames <=> synchronizing)

\* A StartFrame is the first to be taken, and nothing comes out before it does.
Opening ==
  \/ /\ tasks = "none" /\ out = <<>> /\ \A b \in Branch : down[b] = <<>> /\ up[b] = <<>>
     /\ sysQueue = <<>> => queued = {}
     /\ sysQueue # <<>> => Head(sysQueue) \in Is("start")
  \/ out = <<>> /\ \E f \in Is("start") : counter[f] > 0
  \/ out # <<>> /\ out[1][1] \in Is("start")

\* No data is queued behind an EndFrame, nor gets behind it in a branch.
Closing ==
  /\ \A i, j \in 1 .. Len(queue) : i < j /\ queue[i][1] \in Is("end") => queue[j][1] \notin Data
  /\ \A f \in Is("end") : Taken(f) => \A i \in 1 .. Len(queue) : queue[i][1] \notin Data
  /\ \A b \in Branch : \A i, j \in 1 .. Len(down[b]) :
       i < j /\ down[b][i] \in Is("end") => down[b][j] \notin Data
  /\ \A b \in Branch : \A f \in Is("end") :
       f \in gone[b] => \A i \in 1 .. Len(down[b]) : down[b][i] \notin Data

Inv == TypeOK /\ Waits /\ Travels /\ Comes /\ Counts /\ OneAtATime /\ Opening /\ Closing

LEMMA Counting ==
  ASSUME NEW f
  PROVE  /\ Cardinality(Missing(f)) \in 0 .. Cardinality(Branch)
         /\ Cardinality(Missing(f)) = 0 <=> Missing(f) = {}
         /\ (\A b \in Branch : f \notin gone[b]) => Cardinality(Missing(f)) = Cardinality(Branch)
         /\ \A b \in Missing(f) : Cardinality(Missing(f) \ {b}) = Cardinality(Missing(f)) - 1
<1>1. Missing(f) \in SUBSET Branch
  BY DEF Missing
<1>2. IsFiniteSet(Missing(f)) /\ Cardinality(Missing(f)) <= Cardinality(Branch)
  BY <1>1, BranchAssumption, FS_Subset
<1>3. Cardinality(Missing(f)) \in Nat
  BY <1>2, FS_CardinalityType
<1>4. Cardinality(Missing(f)) = 0 <=> Missing(f) = {}
  BY <1>2, FS_EmptySet
<1>5. (\A b \in Branch : f \notin gone[b]) => Missing(f) = Branch
  BY DEF Missing
<1>6. \A b \in Missing(f) : Cardinality(Missing(f) \ {b}) = Cardinality(Missing(f)) - 1
  BY <1>2, FS_RemoveElement
<1> QED
  BY <1>2, <1>3, <1>4, <1>5, <1>6, Branches

\* The queues keep the kinds of frame apart.
LEMMA Apart ==
  ASSUME TypeOK
  PROVE  /\ \A f : Contains(sysQueue, f) => f \in System
         /\ \A f, d : Contains(queue, <<f, d>>) => f \in Frame \ System /\ d \in {"down", "up"}
BY DEF TypeOK, Contains

LEMMA InvInit == Init => Inv
<1> SUFFICES ASSUME Init PROVE Inv
  OBVIOUS
<1>0. \A e : ~Contains(<<>>, e) /\ Once(<<>>, e)
  BY DEF Contains, Once
<1>1. TypeOK
  <2>1. \A S : <<>> \in Seq(S)
    OBVIOUS
  <2>2. 0 \in 0 .. Cardinality(Branch)
    BY Branches
  <2> QED
    BY <2>1, <2>2 DEF Init, TypeOK
<1>2. Waits /\ Travels /\ Comes
  BY <1>0 DEF Init, Waits, Travels, Comes, Waiting, Taken
<1>3. Counts /\ OneAtATime
  <2>1. \A f \in Frame : counter[f] = 0
    BY DEF Init
  <2>2. Counts
    BY <2>1, Frames DEF Init, Counts, Taken
  <2>3. \A f \in Frame : ~(counter[f] > 0)
    BY <2>1
  <2>4. OneAtATime
    BY <2>3 DEF Init, OneAtATime
  <2> QED
    BY <2>2, <2>4
<1>4. Opening /\ Closing
  BY DEF Init, Opening, Closing
<1> QED
  BY <1>1, <1>2, <1>3, <1>4 DEF Inv

\* A frame is taken: it enters every branch, and pauses everything if it is synchronized.
LEMMA Entering ==
  ASSUME TypeOK, Travels, Comes, Counts, OneAtATime, ~synchronizing,
         NEW f \in Frame, NEW dir \in {"down", "up"}, Begin(f), FanOut(f, dir),
         UNCHANGED <<gone, left, out, buffered>>,
         f \in Synchronized => dir = "down" /\ ~Taken(f) /\ Taken(f)',
         \A g \in Synchronized \ {f} : Taken(g)' <=> Taken(g)
  PROVE  Travels' /\ Comes' /\ Counts' /\ OneAtATime'
<1> USE Frames, Branches
<1>1. /\ \A b \in Branch : down[b] \in Seq(Frame \cup Own) /\ up[b] \in Seq(Frame \cup Own)
      /\ counter \in [Frame -> 0 .. Cardinality(Branch)]
  BY DEF TypeOK
<1>2. \A b \in Branch : \A x :
        /\ Contains(Append(down[b], f), x) <=> Contains(down[b], x) \/ x = f
        /\ Once(down[b], x) /\ (x # f \/ ~Contains(down[b], x)) => Once(Append(down[b], f), x)
        /\ Contains(Append(up[b], f), x) <=> Contains(up[b], x) \/ x = f
  BY <1>1, AppendHas
<1>3. \A b \in Branch : /\ down'[b] \in {down[b], Append(down[b], f)}
                        /\ dir = "down" => down'[b] = Append(down[b], f) /\ up'[b] = up[b]
                        /\ up'[b] \in {up[b], Append(up[b], f)}
  BY DEF FanOut
<1>4. Travels'
  <2> SUFFICES ASSUME NEW g \in Synchronized, NEW b \in Branch
               PROVE  /\ ~Contains(up'[b], g) /\ Once(down'[b], g)
                      /\ Contains(down'[b], g) \/ g \in gone[b] <=> Taken(g)'
                      /\ ~(Contains(down'[b], g) /\ g \in gone[b])
    BY DEF Travels
  <2>1. /\ ~Contains(up[b], g) /\ Once(down[b], g)
        /\ Contains(down[b], g) \/ g \in gone[b] <=> Taken(g)
        /\ ~(Contains(down[b], g) /\ g \in gone[b])
    BY DEF Travels
  <2>2. CASE g = f
    BY <2>1, <2>2, <1>2, <1>3
  <2>3. CASE g # f
    BY <2>1, <2>3, <1>2, <1>3
  <2> QED
    BY <2>2, <2>3
<1>5. Comes'
  BY DEF Comes
<1>6. \A g \in Frame : counter[g] = 0
  BY <1>1 DEF OneAtATime
<1>7. \A g \in Synchronized : Missing(g)' = Missing(g)
  BY DEF Missing
<1>8. CASE f \in Synchronized
  <2>1. counter' = [counter EXCEPT ![f] = Cardinality(Branch)]
        /\ synchronizing' = TRUE /\ noSystem' = TRUE /\ noFrames' = TRUE
    BY <1>8 DEF Begin
  <2>2. Cardinality(Missing(f)) = Cardinality(Branch)
    <3>1. \A b \in Branch : f \notin gone[b]
      BY <1>8 DEF Travels
    <3> QED
      BY <3>1, Counting
  <2>3. \A g \in Frame : counter'[g] = IF g = f THEN Cardinality(Branch) ELSE 0
    BY <2>1, <1>1, <1>6
  <2>4. Counts'
    <3>1. \A g \in Synchronized \ {f} : ~Taken(g) \/ Cardinality(Missing(g)) = 0
      BY <1>6 DEF Counts
    <3> QED
      BY <2>2, <2>3, <3>1, <1>7, <1>8 DEF Counts
  <2>5. OneAtATime'
    BY <2>1, <2>3 DEF OneAtATime
  <2> QED
    BY <1>4, <1>5, <2>4, <2>5
<1>9. CASE f \notin Synchronized
  <2>1. UNCHANGED <<counter, synchronizing, noSystem, noFrames>>
    BY <1>9 DEF Begin, gates
  <2>2. Counts'
    BY <2>1, <1>7, <1>9 DEF Counts
  <2>3. OneAtATime'
    BY <2>1 DEF OneAtATime
  <2> QED
    BY <1>4, <1>5, <2>2, <2>3
<1> QED
  BY <1>8, <1>9

\* Where every synchronized frame is, and what counts it.
Tracked == Waits /\ Travels /\ Comes /\ Counts /\ OneAtATime

\* What neither waits nor is taken changes nothing about what is.
LEMMA SameTaken ==
  ASSUME UNCHANGED <<queued, sysQueue, queue>>
  PROVE  (Waits => Waits') /\ \A f : Taken(f)' <=> Taken(f)
BY DEF Waits, Taken, Waiting

\* A synchronized frame leaves a branch.
LEMMA SyncLeaves ==
  ASSUME TypeOK, Tracked, NEW b \in Branch, NEW i \in DOMAIN down[b],
         down[b][i] \in Synchronized, Sink(down[b][i]),
         down' = [down EXCEPT ![b] = RemoveAt(@, i)],
         gone' = [gone EXCEPT ![b] = @ \cup {down[b][i]}],
         UNCHANGED <<queued, sysQueue, queue, up>>
  PROVE  Tracked' /\ left' \in Seq(Frame \cup Own) /\ out' \in Seq(Pushed)
         /\ buffered' \in Seq(Pushed) /\ counter' \in [Frame -> 0 .. Cardinality(Branch)]
         /\ counter[down[b][i]] > 0
<1>0. PICK f : f = down[b][i]
  OBVIOUS
<1> USE Frames, Branches
<1>1. /\ down[b] \in Seq(Frame \cup Own) /\ counter \in [Frame -> 0 .. Cardinality(Branch)]
      /\ left \in Seq(Frame \cup Own) /\ buffered \in Seq(Pushed) /\ out \in Seq(Pushed)
      /\ gone \in [Branch -> SUBSET Frame] /\ DOMAIN down = Branch
  BY DEF TypeOK
<1>2. /\ Contains(down[b], f)
      /\ \A x : Contains(RemoveAt(down[b], i), x) => Contains(down[b], x)
      /\ \A x : Contains(down[b], x) /\ x # f => Contains(RemoveAt(down[b], i), x)
      /\ \A x : Once(down[b], x) => Once(RemoveAt(down[b], i), x)
      /\ Once(down[b], f) => ~Contains(RemoveAt(down[b], i), f)
  BY <1>0, <1>1, RemoveHas
<1>3. f \in Synchronized /\ f \in Frame
  BY <1>0
<1>4. /\ f \notin gone[b] /\ Taken(f) /\ Once(down[b], f)
  BY <1>2, <1>3 DEF Tracked, Travels
<1>5. /\ \A c \in Branch : down'[c] = IF c = b THEN RemoveAt(down[b], i) ELSE down[c]
      /\ \A c \in Branch : gone'[c] = IF c = b THEN gone[b] \cup {f} ELSE gone[c]
  BY <1>0, <1>1
<1>6. Waits' /\ \A g : Taken(g)' <=> Taken(g)
  BY SameTaken DEF Tracked
<1>7. Travels'
  <2> SUFFICES ASSUME NEW g \in Synchronized, NEW c \in Branch
               PROVE  /\ ~Contains(up'[c], g) /\ Once(down'[c], g)
                      /\ Contains(down'[c], g) \/ g \in gone'[c] <=> Taken(g)'
                      /\ ~(Contains(down'[c], g) /\ g \in gone'[c])
    BY DEF Travels
  <2>1. /\ ~Contains(up[c], g) /\ Once(down[c], g)
        /\ Contains(down[c], g) \/ g \in gone[c] <=> Taken(g)
        /\ ~(Contains(down[c], g) /\ g \in gone[c])
    BY DEF Tracked, Travels
  <2>2. CASE c # b
    BY <2>1, <2>2, <1>5, <1>6
  <2>3. CASE c = b /\ g = f
    BY <2>1, <2>3, <1>2, <1>4, <1>5, <1>6
  <2>4. CASE c = b /\ g # f
    BY <2>1, <2>4, <1>2, <1>5, <1>6
  <2> QED
    BY <2>2, <2>3, <2>4
<1>8. /\ b \in Missing(f) /\ Missing(f)' = Missing(f) \ {b}
      /\ \A g \in Synchronized : g # f => Missing(g)' = Missing(g)
  BY <1>4, <1>5 DEF Missing
<1>9. /\ counter[f] = Cardinality(Missing(f)) /\ counter[f] > 0
      /\ Cardinality(Missing(f)') = counter[f] - 1
      /\ Decremented(f) = counter[f] - 1
  <2>1. counter[f] = Cardinality(Missing(f))
    BY <1>3, <1>4 DEF Tracked, Counts
  <2> QED
    BY <2>1, <1>8, Counting DEF Decremented
<1>10. counter' = [counter EXCEPT ![f] = Decremented(f)]
  BY <1>0, <1>3 DEF Sink
<1>11. /\ \A g \in Frame : counter'[g] = IF g = f THEN counter[f] - 1 ELSE counter[g]
       /\ counter' \in [Frame -> 0 .. Cardinality(Branch)]
  <2>1. counter[f] - 1 \in 0 .. Cardinality(Branch)
    BY <1>1, <1>3, <1>9
  <2> QED
    BY <2>1, <1>1, <1>3, <1>9, <1>10
<1>12. Counts'
  <2>1. counter'[f] = IF Taken(f)' THEN Cardinality(Missing(f)') ELSE 0
    BY <1>3, <1>4, <1>6, <1>9, <1>11
  <2>2. \A g \in Synchronized : g # f => counter'[g] = IF Taken(g)' THEN Cardinality(Missing(g)') ELSE 0
    BY <1>6, <1>8, <1>11 DEF Tracked, Counts
  <2>3. \A g \in Frame \ Synchronized : counter'[g] = 0
    BY <1>3, <1>11 DEF Tracked, Counts
  <2> QED
    BY <2>1, <2>2, <2>3 DEF Counts
<1>13. synchronizing /\ \A g \in Frame : g # f => counter[g] = 0
  BY <1>1, <1>3, <1>9 DEF Tracked, OneAtATime
<1>14. \A g \in Frame : counter'[g] > 0 => g = f /\ counter[f] - 1 > 0
  BY <1>11, <1>13
<1>15. CASE Decremented(f) = 0
  <2>1. /\ synchronizing' = FALSE /\ noSystem' = FALSE /\ noFrames' = FALSE
        /\ out' = out \o Released(f) /\ buffered' = <<>>
        /\ left' \in {left, Append(left, f)}
    BY <1>0, <1>3, <1>15 DEF Sink, Resume
  <2>2. OneAtATime'
    BY <2>1, <1>9, <1>14, <1>15 DEF OneAtATime
  <2>3. \A c \in Branch : f \in gone'[c]
    <3>1. Cardinality(Missing(f)') = 0
      BY <1>9, <1>15
    <3>2. IsFiniteSet(Missing(f) \ {b})
      BY BranchAssumption, FS_Subset DEF Missing
    <3>3. Missing(f)' = {}
      BY <3>1, <3>2, <1>8, FS_EmptySet
    <3> QED
      BY <3>3 DEF Missing
  <2>4. /\ out' \in Seq(Pushed)
        /\ \A g \in Synchronized : \A d \in {"down", "up"} :
             Contains(out', <<g, d>>) => Contains(out, <<g, d>>) \/ g = f
    BY <2>1, <1>3, ReleaseEffect DEF Tracked, Comes
  <2>5. /\ left' \in Seq(Frame \cup Own)
        /\ \A g \in Synchronized : Contains(left', g) => Contains(left, g) \/ g = f
    <3>1. /\ Append(left, f) \in Seq(Frame \cup Own)
          /\ \A x : Contains(Append(left, f), x) <=> Contains(left, x) \/ x = f
      BY <1>1, <1>3, AppendHas
    <3> QED
      BY <3>1, <2>1, <1>1
  <2>6. buffered' \in Seq(Pushed) /\ \A e : ~Contains(buffered', e)
    BY <2>1 DEF Contains
  <2>7. Comes'
    <3> SUFFICES ASSUME NEW g \in Synchronized, NEW d \in {"down", "up"}
                 PROVE  /\ ~Contains(buffered', <<g, d>>)
                        /\ Contains(left', g) \/ Contains(out', <<g, d>>)
                             => \A c \in Branch : g \in gone'[c]
      BY DEF Comes
    <3>1. Contains(left, g) \/ Contains(out, <<g, d>>) => \A c \in Branch : g \in gone[c]
      BY DEF Tracked, Comes
    <3>2. ~Contains(buffered', <<g, d>>)
      BY <2>6
    <3>3. CASE g = f
      BY <3>2, <3>3, <2>3
    <3>4. CASE g # f
      <4>1. Contains(left', g) \/ Contains(out', <<g, d>>) => \A c \in Branch : g \in gone[c]
        BY <3>1, <3>4, <2>4, <2>5
      <4> QED
        BY <4>1, <3>2, <1>5
    <3> QED
      BY <3>3, <3>4
  <2> QED
    BY <2>2, <2>4, <2>5, <2>6, <2>7, <1>0, <1>6, <1>7, <1>9, <1>11, <1>12 DEF Tracked
<1>16. CASE Decremented(f) # 0
  <2>1. UNCHANGED <<synchronizing, left, out, buffered, noSystem, noFrames>>
    BY <1>0, <1>3, <1>16 DEF Sink, gates
  <2>2. counter'[f] > 0
    BY <1>1, <1>3, <1>9, <1>11, <1>16
  <2>3. OneAtATime'
    BY <2>1, <2>2, <1>3, <1>13, <1>14 DEF Tracked, OneAtATime
  <2>4. Comes'
    <3> SUFFICES ASSUME NEW g \in Synchronized, NEW d \in {"down", "up"}
                 PROVE  /\ ~Contains(buffered, <<g, d>>)
                        /\ Contains(left, g) \/ Contains(out, <<g, d>>)
                             => \A c \in Branch : g \in gone'[c]
      BY <2>1 DEF Comes
    <3>1. /\ ~Contains(buffered, <<g, d>>)
          /\ Contains(left, g) \/ Contains(out, <<g, d>>) => \A c \in Branch : g \in gone[c]
      BY DEF Tracked, Comes
    <3> QED
      BY <3>1, <1>5
  <2> QED
    BY <2>1, <2>3, <2>4, <1>0, <1>1, <1>6, <1>7, <1>9, <1>11, <1>12 DEF Tracked
<1> QED
  BY <1>15, <1>16

\* A frame that is not synchronized leaves the branch, or stays in it.
LEMMA OtherLeaves ==
  ASSUME TypeOK, Tracked, NEW b \in Branch, NEW i \in DOMAIN down[b],
         down[b][i] \notin Synchronized,
         down' = [down EXCEPT ![b] = RemoveAt(@, i)],
         UNCHANGED <<queued, sysQueue, queue, up, gone, counter, synchronizing, gates>>,
         \/ \E dir \in {"down", "up"} : ParallelPush(down[b][i], dir)
         \/ UNCHANGED <<left, out, buffered>>
  PROVE  Tracked'
<1>0. PICK f : f = down[b][i]
  OBVIOUS
<1>1. down[b] \in Seq(Frame \cup Own) /\ DOMAIN down = Branch /\ f \in Frame \cup Own
  BY <1>0 DEF TypeOK
<1>2. /\ \A x : Contains(RemoveAt(down[b], i), x) => Contains(down[b], x)
      /\ \A x : Contains(down[b], x) /\ x # f => Contains(RemoveAt(down[b], i), x)
      /\ \A x : Once(down[b], x) => Once(RemoveAt(down[b], i), x)
  BY <1>0, <1>1, RemoveHas
<1>3. f \notin Synchronized
  BY <1>0
<1>4. \A c \in Branch : down'[c] = IF c = b THEN RemoveAt(down[b], i) ELSE down[c]
  BY <1>1
<1>5. Waits' /\ \A g : Taken(g)' <=> Taken(g)
  BY SameTaken DEF Tracked
<1>6. Travels'
  BY <1>2, <1>3, <1>4, <1>5 DEF Tracked, Travels
<1>7. Comes'
  <2>1. CASE UNCHANGED <<left, out, buffered>>
    BY <2>1 DEF Tracked, Comes
  <2>2. CASE \E dir \in {"down", "up"} : ParallelPush(f, dir)
    BY <2>2, <1>1, <1>3, PushEffect DEF Tracked, Comes
  <2> QED
    BY <2>1, <2>2, <1>0
<1>8. Counts' /\ OneAtATime'
  <2>1. \A g \in Synchronized : Missing(g)' = Missing(g)
    BY DEF Missing
  <2>2. Counts'
    BY <2>1, <1>5 DEF Tracked, Counts
  <2>3. OneAtATime'
    BY DEF Tracked, OneAtATime, gates
  <2> QED
    BY <2>2, <2>3
<1> QED
  BY <1>5, <1>6, <1>7, <1>8 DEF Tracked
-----------------------------------------------------------------------------
(***************************************************************************)
(* Types, places and counters, action by action                            *)
(***************************************************************************)
LEMMA QueueFrameTracked ==
  ASSUME TypeOK, Tracked, NEW f \in Frame, QueueFrame(f) PROVE TypeOK' /\ Tracked'
<1> USE Frames
<1>1. /\ sysQueue \in Seq(System) /\ queue \in Seq((Frame \ System) \X {"down", "up"})
      /\ f \notin queued /\ queued' = queued \cup {f}
      /\ UNCHANGED <<tasks, cancelling, gates, inside, sync>>
  BY DEF TypeOK, QueueFrame
<1>2. TypeOK'
  <2>1. /\ sysQueue' \in Seq(System) /\ queue' \in Seq((Frame \ System) \X {"down", "up"})
        /\ probe' \in {"none", "down", "up"}
    <3>1. CASE f \in System
      <4>1. Append(sysQueue, f) \in Seq(System)
        BY <3>1, <1>1, AppendHas
      <4> QED
        BY <4>1, <3>1, <1>1 DEF QueueFrame, TypeOK
    <3>2. CASE f \notin System
      <4>1. <<f, "down">> \in (Frame \ System) \X {"down", "up"}
        BY <3>2
      <4>2. Append(queue, <<f, "down">>) \in Seq((Frame \ System) \X {"down", "up"})
        BY <4>1, <1>1, AppendHas
      <4> QED
        BY <4>2, <3>2, <1>1 DEF QueueFrame, TypeOK
    <3> QED
      BY <3>1, <3>2
  <2> QED
    BY <2>1, <1>1 DEF TypeOK, gates, inside, sync
<1>3. /\ ~Contains(sysQueue, f) \/ f \notin Synchronized
      /\ ~Contains(queue, <<f, "down">>) \/ f \notin Synchronized
  BY <1>1 DEF Tracked, Waits, Waiting
<1>4. CASE f \in System
  <2>1. sysQueue' = Append(sysQueue, f) /\ queue' = queue
    BY <1>4 DEF QueueFrame
  <2>2. \A x : /\ Contains(sysQueue', x) <=> Contains(sysQueue, x) \/ x = f
               /\ Once(sysQueue, x) /\ (x # f \/ ~Contains(sysQueue, x)) => Once(sysQueue', x)
    BY <2>1, <1>1, <1>4, AppendHas
  <2>3. Waits' /\ \A g \in Synchronized : Taken(g)' <=> Taken(g)
    BY <2>1, <2>2, <1>1, <1>3 DEF Tracked, Waits, Waiting, Taken
  <2> QED
    BY <2>3, <1>1, <1>2
    DEF Tracked, Travels, Comes, Counts, OneAtATime, Missing, gates, inside, sync
<1>5. CASE f \notin System
  <2>1. queue' = Append(queue, <<f, "down">>) /\ sysQueue' = sysQueue
        /\ <<f, "down">> \in (Frame \ System) \X {"down", "up"}
    BY <1>5 DEF QueueFrame
  <2>2. \A x : /\ Contains(queue', x) <=> Contains(queue, x) \/ x = <<f, "down">>
               /\ Once(queue, x) /\ (x # <<f, "down">> \/ ~Contains(queue, x)) => Once(queue', x)
    BY <2>1, <1>1, AppendHas
  <2>3. \A g : /\ Contains(queue', <<g, "down">>) <=> Contains(queue, <<g, "down">>) \/ g = f
               /\ Contains(queue', <<g, "up">>) <=> Contains(queue, <<g, "up">>)
    BY <2>2
  <2>4. \A g \in Synchronized : Once(queue', <<g, "down">>)
    <3> SUFFICES ASSUME NEW g \in Synchronized PROVE Once(queue', <<g, "down">>)
      OBVIOUS
    <3>1. Once(queue, <<g, "down">>) /\ (g # f \/ ~Contains(queue, <<g, "down">>))
      BY <1>3 DEF Tracked, Waits
    <3> QED
      BY <3>1, <2>2
  <2>5. Waits' /\ \A g \in Synchronized : Taken(g)' <=> Taken(g)
    BY <2>1, <2>3, <2>4, <1>1, <1>3 DEF Tracked, Waits, Waiting, Taken
  <2> QED
    BY <2>5, <1>1, <1>2
    DEF Tracked, Travels, Comes, Counts, OneAtATime, Missing, gates, inside, sync
<1> QED
  BY <1>4, <1>5

LEMMA ProbeBouncesTracked ==
  ASSUME TypeOK, Tracked, ProbeBounces PROVE TypeOK' /\ Tracked'
<1> USE Frames
<1>1. PICK f \in Is("flush") :
        /\ probe' = "up" /\ queue' = Append(queue, <<f, "up">>)
        /\ UNCHANGED <<queued, sysQueue, tasks, cancelling, gates, inside, sync>>
  BY DEF ProbeBounces
<1>2. <<f, "up">> \in (Frame \ System) \X {"down", "up"}
      /\ queue \in Seq((Frame \ System) \X {"down", "up"})
  BY DEF TypeOK
<1>3. /\ queue' \in Seq((Frame \ System) \X {"down", "up"})
      /\ \A x : /\ Contains(queue', x) <=> Contains(queue, x) \/ x = <<f, "up">>
                /\ Once(queue, x) /\ x # <<f, "up">> => Once(queue', x)
  <2> DEFINE r == Append(queue, <<f, "up">>)
  <2>1. /\ r \in Seq((Frame \ System) \X {"down", "up"})
        /\ \A x : /\ Contains(r, x) <=> Contains(queue, x) \/ x = <<f, "up">>
                  /\ Once(queue, x) /\ x # <<f, "up">> => Once(r, x)
    BY <1>2, AppendHas
  <2>2. queue' = r
    BY <1>1
  <2> QED
    BY ONLY <2>1, <2>2
<1>4. \A g \in Synchronized : g # f
  OBVIOUS
<1>5. \A g \in Synchronized : /\ Contains(queue', <<g, "down">>) <=> Contains(queue, <<g, "down">>)
                              /\ Contains(queue', <<g, "up">>) <=> Contains(queue, <<g, "up">>)
                              /\ Once(queue, <<g, "down">>) => Once(queue', <<g, "down">>)
  BY <1>3, <1>4
<1>6. TypeOK'
  BY <1>1, <1>3 DEF TypeOK, gates, inside, sync
<1>7. Waits' /\ \A g \in Synchronized : Taken(g)' <=> Taken(g)
  BY <1>1, <1>5 DEF Tracked, Waits, Waiting, Taken
<1> QED
  BY <1>1, <1>6, <1>7
  DEF Tracked, Travels, Comes, Counts, OneAtATime, Missing, gates, inside, sync

\* What entering the branches does to the types.
LEMMA EnteringTypes ==
  ASSUME TypeOK, NEW f \in Frame, NEW dir \in {"down", "up"}, Begin(f), FanOut(f, dir)
  PROVE  /\ down' \in [Branch -> Seq(Frame \cup Own)] /\ up' \in [Branch -> Seq(Frame \cup Own)]
         /\ counter' \in [Frame -> 0 .. Cardinality(Branch)]
         /\ synchronizing' \in BOOLEAN /\ noSystem' \in BOOLEAN /\ noFrames' \in BOOLEAN
<1>1. \A b \in Branch : /\ Append(down[b], f) \in Seq(Frame \cup Own)
                        /\ Append(up[b], f) \in Seq(Frame \cup Own)
  BY AppendHas DEF TypeOK
<1>2. down' \in [Branch -> Seq(Frame \cup Own)] /\ up' \in [Branch -> Seq(Frame \cup Own)]
  BY <1>1 DEF TypeOK, FanOut
<1>3. Cardinality(Branch) \in 0 .. Cardinality(Branch)
  BY Branches
<1> QED
  BY <1>2, <1>3 DEF TypeOK, Begin, gates

LEMMA TakeSystemTracked ==
  ASSUME TypeOK, Tracked, TakeSystem PROVE TypeOK' /\ Tracked'
<1> USE Frames
<1>1. PICK f : f = Head(sysQueue)
  OBVIOUS
<1>2. /\ sysQueue \in Seq(System) /\ sysQueue # <<>> /\ sysQueue' = Tail(sysQueue)
      /\ Begin(f) /\ FanOut(f, "down") /\ HandleAsProcessor(f) /\ ~noSystem
      /\ UNCHANGED <<queued, queue, gone, own, buffered, left, out, probe>>
  BY <1>1 DEF TypeOK, TakeSystem
<1>3. /\ f \in System /\ Contains(sysQueue, f)
      /\ sysQueue' \in Seq(System)
      /\ \A x : Contains(sysQueue', x) => Contains(sysQueue, x)
      /\ \A x : Contains(sysQueue, x) /\ x # f => Contains(sysQueue', x)
      /\ \A x : Once(sysQueue, x) => Once(sysQueue', x)
      /\ Once(sysQueue, f) => ~Contains(sysQueue', f)
  BY <1>1, <1>2, TailHas
<1>4. TypeOK'
  BY <1>2, <1>3, EnteringTypes DEF TypeOK, HandleAsProcessor
<1>5. Waits'
  BY <1>2, <1>3 DEF Tracked, Waits, Waiting
<1>6. \A g \in Synchronized \ {f} : Taken(g)' <=> Taken(g)
  BY <1>2, <1>3 DEF Taken, Waiting
<1>7. f \in Synchronized => ~Taken(f) /\ Taken(f)'
  <2> SUFFICES ASSUME f \in Synchronized PROVE ~Taken(f) /\ Taken(f)'
    OBVIOUS
  <2>1. ~Contains(queue, <<f, "down">>)
    BY <1>3, Apart
  <2>2. f \in queued /\ Once(sysQueue, f)
    BY <1>3 DEF Tracked, Waits, Waiting
  <2> QED
    BY <2>1, <2>2, <1>2, <1>3 DEF Taken, Waiting
<1>8. ~synchronizing
  BY <1>2 DEF Tracked, OneAtATime
<1>9. Travels' /\ Comes' /\ Counts' /\ OneAtATime'
  BY <1>2, <1>3, <1>6, <1>7, <1>8, Entering DEF Tracked
<1> QED
  BY <1>4, <1>5, <1>9 DEF Tracked

LEMMA TakeFrameTracked ==
  ASSUME TypeOK, Tracked, TakeFrame PROVE TypeOK' /\ Tracked'
<1> USE Frames
<1>1. PICK f, dir : <<f, dir>> = Head(queue) /\ f \in Frame \ System /\ dir \in {"down", "up"}
  <2>1. queue \in Seq((Frame \ System) \X {"down", "up"}) /\ queue # <<>>
    BY DEF TypeOK, TakeFrame
  <2>2. Head(queue) \in (Frame \ System) \X {"down", "up"}
    BY <2>1
  <2> QED
    BY <2>2
<1>2. /\ queue \in Seq((Frame \ System) \X {"down", "up"}) /\ queue # <<>> /\ queue' = Tail(queue)
      /\ Begin(f) /\ FanOut(f, dir) /\ ~noFrames
      /\ UNCHANGED <<queued, sysQueue, tasks, cancelling, gone, own, buffered, left, out, probe>>
  <2>1. Head(queue)[1] = f /\ Head(queue)[2] = dir
    BY <1>1
  <2> QED
    BY <2>1 DEF TypeOK, TakeFrame
<1>3. /\ Contains(queue, <<f, dir>>)
      /\ queue' \in Seq((Frame \ System) \X {"down", "up"})
      /\ \A x : Contains(queue', x) => Contains(queue, x)
      /\ \A x : Contains(queue, x) /\ x # <<f, dir>> => Contains(queue', x)
      /\ \A x : Once(queue, x) => Once(queue', x)
      /\ Once(queue, <<f, dir>>) => ~Contains(queue', <<f, dir>>)
  <2> DEFINE r == Tail(queue)
             e == Head(queue)
  <2>1. /\ Contains(queue, e)
        /\ r \in Seq((Frame \ System) \X {"down", "up"})
        /\ \A x : Contains(r, x) => Contains(queue, x)
        /\ \A x : Contains(queue, x) /\ x # e => Contains(r, x)
        /\ \A x : Once(queue, x) => Once(r, x)
        /\ Once(queue, e) => ~Contains(r, e)
    BY <1>2, TailHas
  <2>2. queue' = r /\ <<f, dir>> = e
    BY <1>1, <1>2
  <2> HIDE DEF r, e
  <2> QED
    BY ONLY <2>1, <2>2
<1>4. TypeOK'
  BY <1>1, <1>2, <1>3, EnteringTypes DEF TypeOK
<1>5. Waits'
  BY <1>2, <1>3 DEF Tracked, Waits, Waiting
<1>6. \A g \in Synchronized \ {f} : Taken(g)' <=> Taken(g)
  <2>1. \A g : g # f => (Contains(queue', <<g, "down">>) <=> Contains(queue, <<g, "down">>))
    BY <1>3
  <2> QED
    BY <2>1, <1>2 DEF Taken, Waiting
<1>7. f \in Synchronized => dir = "down" /\ ~Taken(f) /\ Taken(f)'
  <2> SUFFICES ASSUME f \in Synchronized PROVE dir = "down" /\ ~Taken(f) /\ Taken(f)'
    OBVIOUS
  <2>1. ~Contains(sysQueue, f)
    BY <1>1, Apart
  <2>2. dir = "down"
    <3>1. ~Contains(queue, <<f, "up">>)
      BY DEF Tracked, Waits
    <3> QED
      BY <3>1, <1>1, <1>3
  <2>3. f \in queued /\ Once(queue, <<f, "down">>)
    BY <2>2, <1>3 DEF Tracked, Waits, Waiting
  <2> QED
    BY <2>1, <2>2, <2>3, <1>2, <1>3 DEF Taken, Waiting
<1>8. ~synchronizing
  BY <1>2 DEF Tracked, OneAtATime
<1>9. Travels' /\ Comes' /\ Counts' /\ OneAtATime'
  BY <1>1, <1>2, <1>6, <1>7, <1>8, Entering DEF Tracked
<1> QED
  BY <1>4, <1>5, <1>9 DEF Tracked

\* A branch: what becomes of the frames it holds when one of them reaches its end.
LEMMA BranchOutTracked ==
  ASSUME TypeOK, Tracked, NEW b \in Branch, BranchOut(b) PROVE TypeOK' /\ Tracked'
<1> USE Frames
<1>1. PICK i \in DOMAIN down[b] :
        /\ down' = [down EXCEPT ![b] = RemoveAt(@, i)]
        /\ gone' = [gone EXCEPT ![b] = @ \cup ({down[b][i]} \cap Synchronized)]
        /\ Sink(down[b][i])
        /\ UNCHANGED <<queued, sysQueue, queue, tasks, cancelling, up, own, probe>>
  BY DEF BranchOut
<1>2. /\ down[b] \in Seq(Frame \cup Own) /\ down[b][i] \in Frame \cup Own
      /\ gone \in [Branch -> SUBSET Frame] /\ down \in [Branch -> Seq(Frame \cup Own)]
  BY DEF TypeOK
<1>3. down' \in [Branch -> Seq(Frame \cup Own)]
  <2>1. RemoveAt(down[b], i) \in Seq(Frame \cup Own)
    BY <1>2, RemoveHas
  <2> QED
    BY <2>1, <1>1, <1>2
<1>4. gone' \in [Branch -> SUBSET Frame]
  BY <1>1, <1>2
<1>5. CASE down[b][i] \in Synchronized
  <2>1. gone' = [gone EXCEPT ![b] = @ \cup {down[b][i]}]
    <3>1. {down[b][i]} \cap Synchronized = {down[b][i]}
      BY <1>5
    <3> QED
      BY <3>1, <1>1
  <2>2. /\ Tracked' /\ left' \in Seq(Frame \cup Own) /\ out' \in Seq(Pushed)
        /\ buffered' \in Seq(Pushed) /\ counter' \in [Frame -> 0 .. Cardinality(Branch)]
    BY <2>1, <1>1, <1>5, SyncLeaves
  <2>3. synchronizing' \in BOOLEAN /\ noSystem' \in BOOLEAN /\ noFrames' \in BOOLEAN
    BY <1>1, <1>5 DEF Sink, TypeOK, Resume, gates
  <2> QED
    BY <2>2, <2>3, <1>1, <1>3, <1>4 DEF TypeOK
<1>6. CASE down[b][i] \notin Synchronized
  <2>1. ParallelPush(down[b][i], "down") /\ UNCHANGED <<counter, synchronizing, gates>>
    BY <1>1, <1>6 DEF Sink
  <2>2. gone' = gone
    <3>1. {down[b][i]} \cap Synchronized = {}
      BY <1>6
    <3> QED
      BY <3>1, <1>1, <1>2
  <2>3. Tracked'
    <3>1. \E dir \in {"down", "up"} : ParallelPush(down[b][i], dir)
      BY <2>1
    <3>2. UNCHANGED <<queued, sysQueue, queue, up, gone, counter, synchronizing, gates>>
      BY <1>1, <2>1, <2>2
    <3>3. down' = [down EXCEPT ![b] = RemoveAt(@, i)]
      BY <1>1
    <3> QED
      BY <3>1, <3>2, <3>3, <1>6, OtherLeaves
  <2>4. left' \in Seq(Frame \cup Own) /\ buffered' \in Seq(Pushed) /\ out' \in Seq(Pushed)
    BY <2>1, <1>2, <1>6, PushEffect
  <2> QED
    BY <2>1, <2>2, <2>3, <2>4, <1>1, <1>3 DEF TypeOK, gates
<1> QED
  BY <1>5, <1>6

LEMMA BranchUpTracked ==
  ASSUME TypeOK, Tracked, NEW b \in Branch, BranchUp(b) PROVE TypeOK' /\ Tracked'
<1> USE Frames
<1>1. PICK f : f = Head(up[b])
  OBVIOUS
<1>2. /\ up \in [Branch -> Seq(Frame \cup Own)] /\ up[b] \in Seq(Frame \cup Own) /\ up[b] # <<>>
      /\ up' = [up EXCEPT ![b] = Tail(@)] /\ ParallelPush(f, "up")
      /\ UNCHANGED <<queued, sysQueue, queue, tasks, cancelling, gates, down, gone, own, counter,
                     synchronizing, probe>>
  BY <1>1 DEF BranchUp, TypeOK
<1>3. /\ Tail(up[b]) \in Seq(Frame \cup Own) /\ f \in Frame \cup Own /\ Contains(up[b], f)
      /\ \A x : Contains(Tail(up[b]), x) => Contains(up[b], x)
  BY <1>1, <1>2, TailHas
<1>4. f \notin Synchronized
  BY <1>3 DEF Tracked, Travels
<1>5. \A c \in Branch : up'[c] = IF c = b THEN Tail(up[b]) ELSE up[c]
  BY <1>2
<1>6. up' \in [Branch -> Seq(Frame \cup Own)]
  BY <1>2, <1>3
<1>7. /\ left' \in Seq(Frame \cup Own) /\ buffered' \in Seq(Pushed) /\ out' \in Seq(Pushed)
      /\ \A g \in Synchronized : Contains(left', g) => Contains(left, g)
      /\ \A g \in Synchronized : \A d \in {"down", "up"} :
              /\ Contains(buffered', <<g, d>>) => Contains(buffered, <<g, d>>)
              /\ Contains(out', <<g, d>>) => Contains(out, <<g, d>>)
  BY <1>2, <1>3, <1>4, PushEffect
<1>8. TypeOK'
  BY <1>2, <1>6, <1>7 DEF TypeOK, gates
<1>9. Waits' /\ \A g : Taken(g)' <=> Taken(g)
  BY <1>2, SameTaken DEF Tracked
<1>10. Travels'
  BY <1>2, <1>3, <1>5, <1>9 DEF Tracked, Travels
<1>11. Comes'
  BY <1>2, <1>7 DEF Tracked, Comes
<1>12. Counts' /\ OneAtATime'
  <2>1. \A g \in Synchronized : Missing(g)' = Missing(g)
    BY <1>2 DEF Missing
  <2>2. Counts'
    BY <2>1, <1>2, <1>9 DEF Tracked, Counts
  <2>3. OneAtATime'
    BY <1>2 DEF Tracked, OneAtATime, gates
  <2> QED
    BY <2>2, <2>3
<1> QED
  BY <1>8, <1>9, <1>10, <1>11, <1>12 DEF Tracked

LEMMA BranchKeepsTracked ==
  ASSUME TypeOK, Tracked, NEW b \in Branch, BranchKeeps(b) PROVE TypeOK' /\ Tracked'
<1> USE Frames
<1>1. PICK i \in DOMAIN down[b] :
        /\ down[b][i] \in Data
        /\ down' = [down EXCEPT ![b] = RemoveAt(@, i)]
        /\ UNCHANGED <<queued, sysQueue, queue, tasks, cancelling, gates, up, gone, own, sync,
                       probe>>
  BY DEF BranchKeeps
<1>2. down' \in [Branch -> Seq(Frame \cup Own)]
  <2>1. RemoveAt(down[b], i) \in Seq(Frame \cup Own)
    BY RemoveHas DEF TypeOK
  <2> QED
    BY <2>1, <1>1 DEF TypeOK
<1>3. TypeOK'
  BY <1>1, <1>2 DEF TypeOK, gates, sync
<1>4. Tracked'
  <2>1. down[b][i] \notin Synchronized
    BY <1>1
  <2>2. UNCHANGED <<queued, sysQueue, queue, up, gone, counter, synchronizing, gates>>
        /\ UNCHANGED <<left, out, buffered>>
    BY <1>1 DEF sync
  <2>3. down' = [down EXCEPT ![b] = RemoveAt(@, i)]
    BY <1>1
  <2> QED
    BY <2>1, <2>2, <2>3, OtherLeaves
<1> QED
  BY <1>3, <1>4

LEMMA BranchPushesTracked ==
  ASSUME TypeOK, Tracked, NEW b \in Branch, NEW f \in Own, BranchPushes(b, f)
  PROVE  TypeOK' /\ Tracked'
<1> USE Frames
<1>1. /\ own' = own \cup {f} /\ f \notin Synchronized
      /\ UNCHANGED <<queued, sysQueue, queue, tasks, cancelling, gates, gone, sync, probe>>
      /\ down \in [Branch -> Seq(Frame \cup Own)] /\ up \in [Branch -> Seq(Frame \cup Own)]
  BY DEF BranchPushes, TypeOK
<1>2. CASE UNCHANGED up /\ \E i \in 0 .. Len(down[b]) :
                 down' = [down EXCEPT ![b] = InsertAt(@, i + 1, f)]
  <2>1. PICK i \in 0 .. Len(down[b]) : down' = [down EXCEPT ![b] = InsertAt(@, i + 1, f)]
    BY <1>2
  <2>2. /\ InsertAt(down[b], i + 1, f) \in Seq(Frame \cup Own)
        /\ \A x : Contains(InsertAt(down[b], i + 1, f), x) <=> Contains(down[b], x) \/ x = f
        /\ \A x : Once(down[b], x) /\ x # f => Once(InsertAt(down[b], i + 1, f), x)
    <3>1. down[b] \in Seq(Frame \cup Own) /\ f \in Frame \cup Own
      BY <1>1
    <3>2. i \in 0 .. Len(down[b])
      OBVIOUS
    <3>3. PICK q, e, S : q = down[b] /\ e = f /\ S = Frame \cup Own
      OBVIOUS
    <3>4. q \in Seq(S) /\ e \in S /\ i \in 0 .. Len(q)
      BY ONLY <3>1, <3>2, <3>3
    <3>5. InsertAt(q, i + 1, e) \in Seq(S)
      BY ONLY <3>4, InsertHas
    <3>6. \A x : Contains(InsertAt(q, i + 1, e), x) <=> Contains(q, x) \/ x = e
      BY ONLY <3>4, InsertHas
    <3>7. \A x : Once(q, x) /\ x # e => Once(InsertAt(q, i + 1, e), x)
      BY ONLY <3>4, InsertHas
    <3> QED
      BY ONLY <3>3, <3>5, <3>6, <3>7
  <2>3. \A c \in Branch : down'[c] = IF c = b THEN InsertAt(down[b], i + 1, f) ELSE down[c]
    BY <1>1, <2>1
  <2>4. down' \in [Branch -> Seq(Frame \cup Own)]
    BY <1>1, <2>1, <2>2
  <2>5. Travels'
    <3>1. \A g : Taken(g)' <=> Taken(g)
      BY <1>1, SameTaken
    <3> QED
      BY <3>1, <2>2, <2>3, <1>1, <1>2 DEF Tracked, Travels
  <2>6. TypeOK'
    BY <2>4, <1>1, <1>2 DEF TypeOK, gates, sync
  <2> QED
    BY <2>5, <2>6, <1>1
    DEF Tracked, Waits, Waiting, Taken, Comes, Counts, OneAtATime, Missing, gates, sync
<1>3. CASE UNCHANGED down /\ up' = [up EXCEPT ![b] = Append(@, f)]
  <2>1. /\ Append(up[b], f) \in Seq(Frame \cup Own)
        /\ \A x : Contains(Append(up[b], f), x) <=> Contains(up[b], x) \/ x = f
    <3>1. up[b] \in Seq(Frame \cup Own) /\ f \in Frame \cup Own
      BY <1>1
    <3> QED
      BY <3>1, AppendHas
  <2>2. \A c \in Branch : up'[c] = IF c = b THEN Append(up[b], f) ELSE up[c]
    BY <1>1, <1>3
  <2>3. up' \in [Branch -> Seq(Frame \cup Own)]
    BY <1>1, <1>3, <2>1
  <2>4. Travels'
    <3>1. \A g : Taken(g)' <=> Taken(g)
      BY <1>1, SameTaken
    <3> QED
      BY <3>1, <2>1, <2>2, <1>1, <1>3 DEF Tracked, Travels
  <2>5. TypeOK'
    BY <2>3, <1>1, <1>3 DEF TypeOK, gates, sync
  <2> QED
    BY <2>4, <2>5, <1>1
    DEF Tracked, Waits, Waiting, Taken, Comes, Counts, OneAtATime, Missing, gates, sync
<1>4. \/ UNCHANGED up /\ \E i \in 0 .. Len(down[b]) :
           down' = [down EXCEPT ![b] = InsertAt(@, i + 1, f)]
      \/ UNCHANGED down /\ up' = [up EXCEPT ![b] = Append(@, f)]
  BY DEF BranchPushes
<1> QED
  BY <1>2, <1>3, <1>4

LEMMA StepTracked == TypeOK /\ Tracked /\ [Next]_vars => TypeOK' /\ Tracked'
<1> SUFFICES ASSUME TypeOK, Tracked, [Next]_vars PROVE TypeOK' /\ Tracked'
  OBVIOUS
<1>1. CASE \E f \in Frame : QueueFrame(f)
  BY <1>1, QueueFrameTracked
<1>2. CASE TakeSystem
  BY <1>2, TakeSystemTracked
<1>3. CASE TakeFrame
  BY <1>3, TakeFrameTracked
<1>4. CASE \E b \in Branch : BranchStep(b) \/ BranchKeeps(b) \/ (\E f \in Own : BranchPushes(b, f))
  BY <1>4, BranchOutTracked, BranchUpTracked, BranchKeepsTracked, BranchPushesTracked
  DEF BranchStep
<1>5. CASE ProbeBounces
  BY <1>5, ProbeBouncesTracked
<1>6. CASE UNCHANGED vars
  BY <1>6 DEF vars, gates, inside, sync, TypeOK, Tracked, Waits, Waiting, Taken, Travels, Comes,
    Counts, OneAtATime, Missing
<1> QED
  BY <1>1, <1>2, <1>3, <1>4, <1>5, <1>6 DEF Next
-----------------------------------------------------------------------------
(***************************************************************************)
(* The StartFrame comes out first                                          *)
(***************************************************************************)
LEMMA OutOpening ==
  ASSUME TypeOK, Tracked, Opening, NEW b \in Branch, BranchOut(b) PROVE Opening'
<1> USE Frames
<1>1. PICK i \in DOMAIN down[b] :
        /\ down' = [down EXCEPT ![b] = RemoveAt(@, i)]
        /\ gone' = [gone EXCEPT ![b] = @ \cup ({down[b][i]} \cap Synchronized)]
        /\ Sink(down[b][i])
        /\ UNCHANGED <<queued, sysQueue, queue, tasks, cancelling, up, own, probe>>
  BY DEF BranchOut
<1>2. PICK x : x = down[b][i]
  OBVIOUS
<1>3. down[b] \in Seq(Frame \cup Own) /\ x \in Frame \cup Own /\ Contains(down[b], x)
  <2>1. down[b] \in Seq(Frame \cup Own)
    BY DEF TypeOK
  <2> QED
    BY <2>1, <1>2, RemoveHas
<1>4. out = <<>> => \E f \in Is("start") : counter[f] > 0
  <2>1. DOMAIN down[b] # {}
    BY <1>1
  <2>2. down[b] # <<>>
    BY <2>1
  <2> QED
    BY <2>2 DEF Opening
<1>5. CASE x \notin Synchronized
  <2>1. ParallelPush(x, "down") /\ UNCHANGED <<counter, synchronizing, gates>>
    BY <1>1, <1>2, <1>5 DEF Sink
  <2>2. /\ synchronizing => out' = out
        /\ out # <<>> => out' # <<>> /\ out'[1] = out[1]
    BY <2>1, <1>3, <1>5, PushEffect
  <2>3. CASE out = <<>>
    <3>1. PICK f \in Is("start") : counter[f] > 0
      BY <2>3, <1>4
    <3>2. synchronizing
      BY <3>1 DEF Tracked, OneAtATime
    <3> QED
      BY <2>1, <2>2, <2>3, <3>1, <3>2 DEF Opening
  <2>4. CASE out # <<>>
    BY <2>2, <2>4 DEF Opening
  <2> QED
    BY <2>3, <2>4
<1>6. CASE x \in Synchronized
  <2>1. x \notin gone[b] /\ ~Seen(x)
    BY <1>3, <1>6 DEF Tracked, Travels, Comes, Seen
  <2>2. counter[x] > 0
    <3>1. {down[b][i]} \cap Synchronized = {down[b][i]}
      BY <1>2, <1>6
    <3> QED
      BY <3>1, <1>1, <1>2, <1>6, SyncLeaves
  <2>3. counter' = [counter EXCEPT ![x] = Decremented(x)]
    BY <1>1, <1>2, <1>6 DEF Sink
  <2>4. /\ counter \in [Frame -> 0 .. Cardinality(Branch)]
        /\ counter[x] \in 0 .. Cardinality(Branch) /\ Decremented(x) = counter[x] - 1
    BY <2>2, <1>6 DEF TypeOK, Decremented
  <2>5. out = <<>> => x \in Is("start")
    BY <2>2, <1>4, <1>6 DEF Tracked, OneAtATime
  <2>6. CASE Decremented(x) = 0
    <3>1. out' = out \o Released(x)
      BY <2>6, <1>1, <1>2, <1>6 DEF Sink
    <3>2. /\ out # <<>> => out' # <<>> /\ out'[1] = out[1]
          /\ out = <<>> /\ x \in Is("start") /\ ~Seen(x) => out' # <<>> /\ out'[1] = <<x, "down">>
      BY <3>1, <1>6, ReleaseEffect DEF Tracked, Comes
    <3>3. <<x, "down">>[1] = x
      OBVIOUS
    <3> QED
      BY <3>2, <3>3, <2>1, <2>5 DEF Opening
  <2>7. CASE Decremented(x) # 0
    <3>1. out' = out
      BY <2>7, <1>1, <1>2, <1>6 DEF Sink
    <3>2. counter'[x] > 0
      <4>1. counter'[x] = counter[x] - 1
        BY <2>3, <2>4, <1>6
      <4> QED
        BY <4>1, <2>2, <2>4, <2>7
    <3> QED
      BY <3>1, <3>2, <2>5 DEF Opening
  <2> QED
    BY <2>6, <2>7
<1> QED
  BY <1>5, <1>6

LEMMA StepOpening == TypeOK /\ Tracked /\ Opening /\ [Next]_vars => Opening'
<1> SUFFICES ASSUME TypeOK, Tracked, Opening, [Next]_vars PROVE Opening'
  OBVIOUS
<1> USE Frames, Branches
<1>1. ASSUME NEW f \in Frame, QueueFrame(f) PROVE Opening'
  <2>1. /\ UNCHANGED <<tasks, inside, sync>> /\ sysQueue \in Seq(System)
        /\ queued' = queued \cup {f}
        /\ queued = {} => f \in Is("start")
        /\ IF f \in System THEN sysQueue' = Append(sysQueue, f) ELSE sysQueue' = sysQueue
    BY <1>1 DEF QueueFrame, TypeOK
  <2>2. CASE tasks = "none" /\ out = <<>> /\ (\A b \in Branch : down[b] = <<>> /\ up[b] = <<>>)
             /\ (sysQueue = <<>> => queued = {}) /\ (sysQueue # <<>> => Head(sysQueue) \in Is("start"))
    <3>1. sysQueue' # <<>> /\ Head(sysQueue') \in Is("start")
      <4>1. CASE sysQueue = <<>>
        BY <4>1, <2>1, <2>2
      <4>2. CASE sysQueue # <<>>
        BY <4>2, <2>1, <2>2
      <4> QED
        BY <4>1, <4>2
    <3> QED
      BY <3>1, <2>1, <2>2 DEF Opening, inside, sync
  <2>3. CASE out # <<>> \/ \E g \in Is("start") : counter[g] > 0
    BY <2>1, <2>3 DEF Opening, Tracked, inside, sync
  <2> QED
    BY <2>2, <2>3 DEF Opening
<1>2. CASE TakeSystem
  <2>1. /\ ~noSystem /\ sysQueue # <<>> /\ out' = out /\ Begin(Head(sysQueue))
    BY <1>2 DEF TakeSystem
  <2>2. CASE out = <<>>
    <3>1. Head(sysQueue) \in Is("start")
      BY <2>1, <2>2 DEF Opening, Tracked, OneAtATime
    <3>2. counter'[Head(sysQueue)] > 0
      BY <2>1, <3>1 DEF Begin, TypeOK
    <3> QED
      BY <2>1, <2>2, <3>1, <3>2 DEF Opening
  <2>3. CASE out # <<>>
    BY <2>1, <2>3 DEF Opening
  <2> QED
    BY <2>2, <2>3
<1>3. CASE TakeFrame
  <2>1. ~noFrames /\ tasks = "both" /\ out' = out
    BY <1>3 DEF TakeFrame
  <2> QED
    BY <2>1 DEF Opening, Tracked, OneAtATime
<1>4. ASSUME NEW b \in Branch, BranchUp(b) PROVE Opening'
  <2>1. PICK f : f = Head(up[b])
    OBVIOUS
  <2>2. /\ up[b] \in Seq(Frame \cup Own) /\ up[b] # <<>> /\ ParallelPush(f, "up")
        /\ UNCHANGED counter
    BY <2>1, <1>4 DEF BranchUp, TypeOK
  <2>3. f \in Frame \cup Own /\ Contains(up[b], f)
    BY <2>1, <2>2, TailHas
  <2>4. f \notin Synchronized
    BY <2>3 DEF Tracked, Travels
  <2>5. /\ synchronizing => out' = out
        /\ out # <<>> => out' # <<>> /\ out'[1] = out[1]
    BY <2>2, <2>3, <2>4, PushEffect
  <2> QED
    BY <2>2, <2>5 DEF Opening, Tracked, OneAtATime
<1>5. ASSUME NEW b \in Branch, BranchKeeps(b) PROVE Opening'
  <2>1. UNCHANGED <<out, counter>> /\ DOMAIN down[b] # {}
    BY <1>5 DEF BranchKeeps, sync
  <2>2. down[b] # <<>>
    BY <2>1
  <2> QED
    BY <2>1, <2>2 DEF Opening
<1>6. ASSUME NEW b \in Branch, NEW f \in Own, BranchPushes(b, f) PROVE Opening'
  <2>1. tasks # "none" /\ UNCHANGED <<out, counter>>
    BY <1>6 DEF BranchPushes, sync
  <2> QED
    BY <2>1 DEF Opening
<1>7. CASE ProbeBounces
  BY <1>7 DEF ProbeBounces, Opening, inside, sync
<1>8. CASE UNCHANGED vars
  BY <1>8 DEF Opening, vars, inside, sync
<1> QED
  BY <1>1, <1>2, <1>3, <1>4, <1>5, <1>6, <1>7, <1>8, OutOpening DEF Next, BranchStep
-----------------------------------------------------------------------------
(***************************************************************************)
(* The EndFrame comes out last                                             *)
(***************************************************************************)
\* A frame that leaves a branch, other than a first EndFrame, changes no order in it.
LEMMA OutClosing ==
  ASSUME TypeOK, Tracked, Closing, NEW b \in Branch, BranchOut(b) \/ BranchKeeps(b)
  PROVE  Closing'
<1> USE Frames
<1>1. PICK i \in DOMAIN down[b] :
        /\ down' = [down EXCEPT ![b] = RemoveAt(@, i)]
        /\ \/ gone' = gone
           \/ /\ gone' = [gone EXCEPT ![b] = @ \cup ({down[b][i]} \cap Synchronized)]
              /\ i = 1 \/ down[b][i] \in System
        /\ UNCHANGED <<queued, sysQueue, queue>>
  BY DEF BranchOut, BranchKeeps
<1>2. /\ down \in [Branch -> Seq(Frame \cup Own)] /\ down[b] \in Seq(Frame \cup Own)
      /\ gone \in [Branch -> SUBSET Frame]
      /\ i \in 1 .. Len(down[b]) /\ Len(down[b]) \in Nat
  BY DEF TypeOK
<1>3. PICK r : r = RemoveAt(down[b], i)
  OBVIOUS
<1>4. /\ Len(r) = Len(down[b]) - 1
      /\ \A j \in 1 .. Len(down[b]) - 1 : r[j] = IF j < i THEN down[b][j] ELSE down[b][j + 1]
  BY <1>2, <1>3, RemoveHas
<1>5. \A c \in Branch : down'[c] = IF c = b THEN r ELSE down[c]
  BY <1>1, <1>2, <1>3
<1>6. \A g : Taken(g)' <=> Taken(g)
  BY <1>1, SameTaken
<1>7. \A j, k \in 1 .. Len(r) : j < k /\ r[j] \in Is("end") => r[k] \notin Data
  <2> SUFFICES ASSUME NEW j \in 1 .. Len(r), NEW k \in 1 .. Len(r), j < k, r[j] \in Is("end")
               PROVE  r[k] \notin Data
    OBVIOUS
  <2>1. PICK m, n \in 1 .. Len(down[b]) : m < n /\ r[j] = down[b][m] /\ r[k] = down[b][n]
    <3>1. CASE k < i
      BY <3>1, <1>2, <1>4
    <3>2. CASE j < i /\ k >= i
      <4>1. j < k + 1 /\ k + 1 \in 1 .. Len(down[b]) /\ j \in 1 .. Len(down[b])
        BY <3>2, <1>2, <1>4
      <4> QED
        BY <4>1, <3>2, <1>2, <1>4
    <3>3. CASE j >= i
      <4>1. j + 1 < k + 1 /\ k + 1 \in 1 .. Len(down[b]) /\ j + 1 \in 1 .. Len(down[b])
        BY <3>3, <1>2, <1>4
      <4> QED
        BY <4>1, <3>3, <1>2, <1>4
    <3> QED
      BY <3>1, <3>2, <3>3, <1>2, <1>4
  <2> QED
    BY <2>1 DEF Closing
<1>8. ASSUME NEW f \in Is("end"), f \in gone'[b], NEW k \in 1 .. Len(r) PROVE r[k] \notin Data
  <2>1. PICK n \in 1 .. Len(down[b]) : r[k] = down[b][n] /\ (i = 1 => n > 1)
    <3>1. CASE k < i
      BY <3>1, <1>2, <1>4
    <3>2. CASE k >= i
      <4>1. k + 1 \in 1 .. Len(down[b]) /\ k + 1 > 1
        BY <1>2, <1>4
      <4> QED
        BY <4>1, <3>2, <1>4
    <3> QED
      BY <3>1, <3>2, <1>2, <1>4
  <2>2. CASE f \in gone[b]
    BY <2>1, <2>2 DEF Closing
  <2>3. CASE f \notin gone[b]
    <3>1. down[b][i] = f /\ i = 1
      BY <2>3, <1>1, <1>2, <1>8
    <3> QED
      BY <3>1, <2>1, <1>2 DEF Closing
  <2> QED
    BY <2>2, <2>3
<1>9. \A c \in Branch : c # b => gone'[c] = gone[c]
  BY <1>1, <1>2
<1>10. \A c \in Branch : \A f \in Is("end") :
         f \in gone'[c] => \A j \in 1 .. Len(down'[c]) : down'[c][j] \notin Data
  <2> SUFFICES ASSUME NEW c \in Branch, NEW f \in Is("end"), f \in gone'[c],
                      NEW j \in 1 .. Len(down'[c])
               PROVE  down'[c][j] \notin Data
    OBVIOUS
  <2>1. CASE c = b
    BY <2>1, <1>5, <1>8
  <2>2. CASE c # b
    BY <2>2, <1>5, <1>9 DEF Closing
  <2> QED
    BY <2>1, <2>2
<1>11. \A c \in Branch : \A j, k \in 1 .. Len(down'[c]) :
         j < k /\ down'[c][j] \in Is("end") => down'[c][k] \notin Data
  <2> SUFFICES ASSUME NEW c \in Branch
               PROVE  \A j, k \in 1 .. Len(down'[c]) :
                        j < k /\ down'[c][j] \in Is("end") => down'[c][k] \notin Data
    OBVIOUS
  <2>1. CASE c = b
    BY <2>1, <1>5, <1>7
  <2>2. CASE c # b
    BY <2>2, <1>5 DEF Closing
  <2> QED
    BY <2>1, <2>2
<1> QED
  BY <1>1, <1>6, <1>10, <1>11 DEF Closing

LEMMA QueueClosing ==
  ASSUME TypeOK, Tracked, Closing, NEW f \in Frame, QueueFrame(f) PROVE Closing'
<1> USE Frames
<1>1. /\ f \notin queued /\ queued' = queued \cup {f}
      /\ queued \cap Is("end") # {} => f \in System
      /\ UNCHANGED <<down, gone>>
      /\ queue \in Seq((Frame \ System) \X {"down", "up"}) /\ Len(queue) \in Nat
      /\ sysQueue \in Seq(System)
  BY DEF QueueFrame, TypeOK, inside
<1>2. \A i \in 1 .. Len(queue) : queue[i][1] \in Is("end") => queue[i][1] \in queued
  <2> SUFFICES ASSUME NEW i \in 1 .. Len(queue), queue[i][1] \in Is("end")
               PROVE  queue[i][1] \in queued
    OBVIOUS
  <2>1. PICK g, d : queue[i] = <<g, d>> /\ d \in {"down", "up"} /\ g \in Is("end")
    <3>1. queue[i] \in (Frame \ System) \X {"down", "up"}
      BY <1>1
    <3> QED
      BY <3>1
  <2>2. Contains(queue, <<g, d>>)
    BY <2>1 DEF Contains
  <2>3. d = "down"
    BY <2>1, <2>2 DEF Tracked, Waits
  <2>4. g \in queued
    BY <2>1, <2>2, <2>3 DEF Tracked, Waits, Waiting
  <2> QED
    BY <2>1, <2>4
<1>3. /\ Len(queue') = Len(queue) + (IF f \in System THEN 0 ELSE 1)
      /\ \A i \in 1 .. Len(queue) : queue'[i] = queue[i]
      /\ f \notin System => queue'[Len(queue) + 1] = <<f, "down">>
      /\ Len(queue') \in Nat
  <2>1. CASE f \in System
    BY <2>1, <1>1 DEF QueueFrame
  <2>2. CASE f \notin System
    BY <2>2, <1>1 DEF QueueFrame
  <2> QED
    BY <2>1, <2>2
<1>4. \A i \in 1 .. Len(queue') : i \notin 1 .. Len(queue)
        => i = Len(queue) + 1 /\ f \notin System /\ queue'[i][1] = f
  BY <1>1, <1>3
<1>5. \A i, j \in 1 .. Len(queue') :
        i < j /\ queue'[i][1] \in Is("end") => queue'[j][1] \notin Data
  <2> SUFFICES ASSUME NEW i \in 1 .. Len(queue'), NEW j \in 1 .. Len(queue'), i < j,
                      queue'[i][1] \in Is("end")
               PROVE  queue'[j][1] \notin Data
    OBVIOUS
  <2>1. i \in 1 .. Len(queue)
    BY <1>1, <1>3, <1>4
  <2>2. CASE j \in 1 .. Len(queue)
    BY <2>1, <2>2, <1>3 DEF Closing
  <2>3. CASE j \notin 1 .. Len(queue)
    <3>1. f \notin System /\ queue[i][1] \in Is("end")
      BY <2>1, <2>3, <1>3, <1>4
    <3> QED
      BY <3>1, <2>1, <1>1, <1>2
  <2> QED
    BY <2>2, <2>3
<1>6. \A g \in Is("end") : Taken(g)' => Taken(g) /\ g \in queued
  <2> SUFFICES ASSUME NEW g \in Is("end"), Taken(g)' PROVE Taken(g) /\ g \in queued
    OBVIOUS
  <2>1. ~Contains(sysQueue', g) /\ ~Contains(queue', <<g, "down">>) /\ g \in queued'
    BY DEF Taken, Waiting
  <2>2. ~Contains(sysQueue, g)
    BY Apart
  <2>3. ~Contains(queue, <<g, "down">>)
    <3>1. \A i \in 1 .. Len(queue) : queue[i] # <<g, "down">>
      BY <2>1, <1>1, <1>3 DEF Contains
    <3> QED
      BY <3>1 DEF Contains
  <2>4. g # f
    <3>1. f \in Is("end") => Contains(queue', <<f, "down">>)
      BY <1>1, <1>3 DEF Contains
    <3> QED
      BY <3>1, <2>1
  <2> QED
    BY <2>1, <2>2, <2>3, <2>4, <1>1 DEF Taken, Waiting
<1>7. \A g \in Is("end") : Taken(g)' => \A i \in 1 .. Len(queue') : queue'[i][1] \notin Data
  <2> SUFFICES ASSUME NEW g \in Is("end"), Taken(g)', NEW i \in 1 .. Len(queue')
               PROVE  queue'[i][1] \notin Data
    OBVIOUS
  <2>1. CASE i \in 1 .. Len(queue)
    BY <2>1, <1>3, <1>6 DEF Closing
  <2>2. CASE i \notin 1 .. Len(queue)
    BY <2>2, <1>1, <1>4, <1>6
  <2> QED
    BY <2>1, <2>2
<1> QED
  BY <1>1, <1>5, <1>7 DEF Closing

\* A frame that enters the branches comes last in each of them.
LEMMA EnteringClosing ==
  ASSUME TypeOK, Tracked, Closing, NEW f \in Frame, NEW dir \in {"down", "up"}, FanOut(f, dir),
         gone' = gone, f \in Data => \A g \in Is("end") : ~Taken(g)
  PROVE  /\ \A b \in Branch : \A i, j \in 1 .. Len(down'[b]) :
              i < j /\ down'[b][i] \in Is("end") => down'[b][j] \notin Data
         /\ \A b \in Branch : \A g \in Is("end") :
              g \in gone'[b] => \A i \in 1 .. Len(down'[b]) : down'[b][i] \notin Data
<1> USE Frames
<1>1. SUFFICES ASSUME NEW b \in Branch
               PROVE  /\ \A i, j \in 1 .. Len(down'[b]) :
                           i < j /\ down'[b][i] \in Is("end") => down'[b][j] \notin Data
                      /\ \A g \in Is("end") :
                           g \in gone[b] => \A i \in 1 .. Len(down'[b]) : down'[b][i] \notin Data
  OBVIOUS
<1>2. /\ \A i, j \in 1 .. Len(down[b]) : i < j /\ down[b][i] \in Is("end") => down[b][j] \notin Data
      /\ \A g \in Is("end") : g \in gone[b] => \A i \in 1 .. Len(down[b]) : down[b][i] \notin Data
  BY DEF Closing
<1>3. CASE down'[b] = down[b]
  BY <1>2, <1>3
<1>4. CASE down'[b] = Append(down[b], f)
  <2>1. down[b] \in Seq(Frame \cup Own) /\ Len(down[b]) \in Nat
    BY DEF TypeOK
  <2>2. /\ Len(down'[b]) = Len(down[b]) + 1 /\ down'[b][Len(down[b]) + 1] = f
        /\ \A i \in 1 .. Len(down[b]) : down'[b][i] = down[b][i]
    BY <2>1, <1>4
  <2>3. \A g \in Is("end") : Contains(down[b], g) \/ g \in gone[b] => f \notin Data
    BY DEF Tracked, Travels
  <2>4. ASSUME NEW i \in 1 .. Len(down'[b]), NEW j \in 1 .. Len(down'[b]), i < j,
               down'[b][i] \in Is("end")
        PROVE  down'[b][j] \notin Data
    <3>1. i \in 1 .. Len(down[b]) /\ down[b][i] \in Is("end")
      BY <2>1, <2>2, <2>4
    <3>2. CASE j \in 1 .. Len(down[b])
      BY <3>1, <3>2, <2>2, <2>4, <1>2
    <3>3. CASE j = Len(down[b]) + 1
      <4>1. Contains(down[b], down[b][i])
        BY <3>1 DEF Contains
      <4> QED
        BY <4>1, <3>1, <3>3, <2>2, <2>3
    <3> QED
      BY <3>2, <3>3, <2>1, <2>2
  <2>5. ASSUME NEW g \in Is("end"), g \in gone[b], NEW i \in 1 .. Len(down'[b])
        PROVE  down'[b][i] \notin Data
    <3>1. CASE i \in 1 .. Len(down[b])
      BY <3>1, <2>2, <2>5, <1>2
    <3>2. CASE i = Len(down[b]) + 1
      BY <3>2, <2>2, <2>3, <2>5
    <3> QED
      BY <3>1, <3>2, <2>1, <2>2
  <2> QED
    BY <2>4, <2>5
<1> QED
  BY <1>3, <1>4 DEF FanOut

LEMMA TakeClosing ==
  ASSUME TypeOK, Tracked, Closing, TakeSystem \/ TakeFrame PROVE Closing'
<1> USE Frames
<1>1. CASE TakeSystem
  <2>1. PICK f : f = Head(sysQueue)
    OBVIOUS
  <2>2. /\ sysQueue \in Seq(System) /\ sysQueue # <<>> /\ FanOut(f, "down")
        /\ UNCHANGED <<queued, queue, gone>> /\ sysQueue' = Tail(sysQueue)
    BY <2>1, <1>1 DEF TypeOK, TakeSystem
  <2>3. f \in System
    BY <2>1, <2>2
  <2>4. \A g \in Is("end") : Taken(g)' <=> Taken(g)
    <3>1. \A g \in Is("end") : ~Contains(sysQueue, g)
      BY Apart
    <3>2. \A x : Contains(sysQueue', x) => Contains(sysQueue, x)
      <4>1. \A x : Contains(Tail(sysQueue), x) => Contains(sysQueue, x)
        BY <2>2, TailHas
      <4> QED
        BY <4>1, <2>2
    <3> QED
      BY <3>1, <3>2, <2>2 DEF Taken, Waiting
  <2> QED
    BY <2>2, <2>3, <2>4, EnteringClosing DEF Closing
<1>2. CASE TakeFrame
  <2>1. /\ queue \in Seq((Frame \ System) \X {"down", "up"}) /\ queue # <<>>
        /\ queue' = Tail(queue) /\ FanOut(Head(queue)[1], Head(queue)[2])
        /\ UNCHANGED <<queued, sysQueue, gone>>
    BY <1>2 DEF TypeOK, TakeFrame
  <2>2. /\ Len(queue) \in Nat \ {0} /\ Head(queue) = queue[1] /\ Len(queue') = Len(queue) - 1
        /\ \A i \in 1 .. Len(queue) - 1 : queue'[i] = queue[i + 1]
        /\ Head(queue) \in (Frame \ System) \X {"down", "up"}
    BY <2>1
  <2>3. PICK f, dir : Head(queue) = <<f, dir>> /\ f \in Frame /\ dir \in {"down", "up"}
    BY <2>2
  <2>4. Head(queue)[1] = f /\ Head(queue)[2] = dir /\ queue[1][1] = f
    BY <2>2, <2>3
  <2>5. f \in Data => \A g \in Is("end") : ~Taken(g)
    <3>1. 1 \in 1 .. Len(queue)
      BY <2>2
    <3> QED
      BY <3>1, <2>4 DEF Closing
  <2>6. \A i \in 1 .. Len(queue') : i + 1 \in 1 .. Len(queue) /\ queue'[i] = queue[i + 1]
    BY <2>2
  <2>7. \A i, j \in 1 .. Len(queue') :
          i < j /\ queue'[i][1] \in Is("end") => queue'[j][1] \notin Data
    <3> SUFFICES ASSUME NEW i \in 1 .. Len(queue'), NEW j \in 1 .. Len(queue'), i < j,
                        queue'[i][1] \in Is("end")
                 PROVE  queue'[j][1] \notin Data
      OBVIOUS
    <3>1. PICK m, n \in 1 .. Len(queue) : m = i + 1 /\ n = j + 1
      BY <2>6
    <3>2. m < n /\ queue[m][1] \in Is("end") /\ queue'[j][1] = queue[n][1]
      BY <3>1, <2>6
    <3> QED
      BY <3>2 DEF Closing
  <2>8. \A g \in Is("end") : Taken(g)' => \A i \in 1 .. Len(queue') : queue'[i][1] \notin Data
    <3> SUFFICES ASSUME NEW g \in Is("end"), Taken(g)', NEW i \in 1 .. Len(queue')
                 PROVE  queue'[i][1] \notin Data
      OBVIOUS
    <3>1. CASE Taken(g)
      BY <3>1, <2>6 DEF Closing
    <3>2. CASE ~Taken(g)
      <4>1. Contains(queue, <<g, "down">>) /\ ~Contains(queue', <<g, "down">>)
        BY <3>2, <2>1 DEF Taken, Waiting
      <4>2. \A x : Contains(queue, x) /\ x # Head(queue) => Contains(Tail(queue), x)
        BY <2>1, TailHas
      <4>3. Head(queue) = <<g, "down">>
        BY <4>1, <4>2, <2>1
      <4>4. queue[1][1] \in Is("end") /\ 1 \in 1 .. Len(queue)
        BY <4>3, <2>2
      <4>5. PICK m \in 1 .. Len(queue) : m = i + 1
        BY <2>6
      <4>6. 1 < m /\ queue'[i][1] = queue[m][1]
        BY <4>5, <2>6
      <4> QED
        BY <4>4, <4>6 DEF Closing
    <3> QED
      BY <3>1, <3>2
  <2>9. FanOut(f, dir)
    BY <2>1, <2>4
  <2> QED
    BY <2>1, <2>3, <2>5, <2>7, <2>8, <2>9, EnteringClosing DEF Closing
<1> QED
  BY <1>1, <1>2

LEMMA PushesClosing ==
  ASSUME TypeOK, Tracked, Closing, NEW b \in Branch, NEW f \in Own, BranchPushes(b, f)
  PROVE  Closing'
<1> USE Frames
<1>1. /\ UNCHANGED <<queued, sysQueue, queue, gone>> /\ gone[b] \cap Is("end") = {}
      /\ down \in [Branch -> Seq(Frame \cup Own)]
      /\ down[b] \in Seq(Frame \cup Own) /\ Len(down[b]) \in Nat
  BY DEF BranchPushes, TypeOK
<1>2. CASE UNCHANGED down
  BY <1>1, <1>2, SameTaken DEF Closing
<1>3. CASE \E i \in 0 .. Len(down[b]) :
             /\ \A j \in 1 .. i : down[b][j] \notin Is("end")
             /\ down' = [down EXCEPT ![b] = InsertAt(@, i + 1, f)]
  <2>1. PICK i \in 0 .. Len(down[b]) :
          /\ \A j \in 1 .. i : down[b][j] \notin Is("end")
          /\ down' = [down EXCEPT ![b] = InsertAt(@, i + 1, f)]
    BY <1>3
  <2>2. PICK r : r = InsertAt(down[b], i + 1, f)
    OBVIOUS
  <2>3. /\ Len(r) = Len(down[b]) + 1
        /\ \A j \in 1 .. Len(down[b]) + 1 : r[j] =
             IF j <= i THEN down[b][j] ELSE IF j = i + 1 THEN f ELSE down[b][j - 1]
    <3>1. f \in Frame \cup Own
      OBVIOUS
    <3>2. PICK q, S : q = down[b] /\ S = Frame \cup Own
      OBVIOUS
    <3>3. q \in Seq(S) /\ f \in S /\ i \in 0 .. Len(q)
      BY <3>1, <3>2, <1>1
    <3>4. Len(InsertAt(q, i + 1, f)) = Len(q) + 1
      BY ONLY <3>3, InsertHas
    <3>5. \A j \in 1 .. Len(q) + 1 : InsertAt(q, i + 1, f)[j] =
             IF j <= i THEN q[j] ELSE IF j = i + 1 THEN f ELSE q[j - 1]
      BY ONLY <3>3, InsertHas
    <3> QED
      BY ONLY <2>2, <3>2, <3>4, <3>5
  <2>4. \A c \in Branch : down'[c] = IF c = b THEN r ELSE down[c]
    BY <2>1, <2>2, <1>1
  <2>5. \A j, k \in 1 .. Len(r) : j < k /\ r[j] \in Is("end") => r[k] \notin Data
    <3> SUFFICES ASSUME NEW j \in 1 .. Len(r), NEW k \in 1 .. Len(r), j < k, r[j] \in Is("end")
                 PROVE  r[k] \notin Data
      OBVIOUS
    <3>1. f \notin Is("end") /\ i \in Nat /\ i <= Len(down[b])
      BY BranchAssumption, <1>1 DEF Is
    <3>2. j > i + 1
      BY <3>1, <2>1, <2>3, <1>1
    <3>3. /\ j - 1 \in 1 .. Len(down[b]) /\ k - 1 \in 1 .. Len(down[b]) /\ j - 1 < k - 1
          /\ r[j] = down[b][j - 1] /\ r[k] = down[b][k - 1]
      BY <3>1, <3>2, <2>3, <1>1
    <3> QED
      BY <3>3 DEF Closing
  <2>6. \A c \in Branch : \A j, k \in 1 .. Len(down'[c]) :
          j < k /\ down'[c][j] \in Is("end") => down'[c][k] \notin Data
    <3> SUFFICES ASSUME NEW c \in Branch
                 PROVE  \A j, k \in 1 .. Len(down'[c]) :
                          j < k /\ down'[c][j] \in Is("end") => down'[c][k] \notin Data
      OBVIOUS
    <3>1. CASE c = b
      BY <3>1, <2>4, <2>5
    <3>2. CASE c # b
      BY <3>2, <2>4 DEF Closing
    <3> QED
      BY <3>1, <3>2
  <2>7. \A c \in Branch : \A g \in Is("end") :
          g \in gone'[c] => \A j \in 1 .. Len(down'[c]) : down'[c][j] \notin Data
    BY <2>4, <1>1 DEF Closing
  <2> QED
    BY <2>6, <2>7, <1>1, SameTaken DEF Closing
<1> QED
  BY <1>2, <1>3 DEF BranchPushes

LEMMA ProbeClosing ==
  ASSUME TypeOK, Tracked, Closing, ProbeBounces PROVE Closing'
<1> USE Frames
<1>1. PICK f \in Is("flush") :
        /\ queue' = Append(queue, <<f, "up">>)
        /\ UNCHANGED <<queued, sysQueue, down, gone>>
  BY DEF ProbeBounces, inside
<1>2. queue \in Seq((Frame \ System) \X {"down", "up"}) /\ Len(queue) \in Nat
  BY DEF TypeOK
<1>3. /\ Len(queue') = Len(queue) + 1 /\ queue'[Len(queue) + 1] = <<f, "up">>
      /\ \A i \in 1 .. Len(queue) : queue'[i] = queue[i]
  BY <1>1, <1>2
<1>4. queue'[Len(queue) + 1][1] \notin Data \cup Is("end")
  BY <1>3
<1>5. \A i, j \in 1 .. Len(queue') : i < j /\ queue'[i][1] \in Is("end") => queue'[j][1] \notin Data
  <2> SUFFICES ASSUME NEW i \in 1 .. Len(queue'), NEW j \in 1 .. Len(queue'), i < j,
                      queue'[i][1] \in Is("end")
               PROVE  queue'[j][1] \notin Data
    OBVIOUS
  <2>1. CASE j \in 1 .. Len(queue)
    BY <2>1, <1>2, <1>3 DEF Closing
  <2>2. CASE j = Len(queue) + 1
    BY <2>2, <1>4
  <2>3. j \in 1 .. Len(queue) \/ j = Len(queue) + 1
    <3>1. Len(queue) \in Nat /\ Len(queue') = Len(queue) + 1 /\ j \in 1 .. Len(queue')
      BY <1>2, <1>3
    <3> QED
      BY ONLY <3>1
  <2> QED
    BY <2>1, <2>2, <2>3
<1>6. \A g : Taken(g)' => Taken(g)
  <2>1. \A x : Contains(queue, x) => Contains(queue', x)
    BY <1>2, <1>3 DEF Contains
  <2> QED
    BY <2>1, <1>1 DEF Taken, Waiting
<1>7. \A g \in Is("end") : Taken(g)' => \A i \in 1 .. Len(queue') : queue'[i][1] \notin Data
  <2> SUFFICES ASSUME NEW g \in Is("end"), Taken(g)', NEW i \in 1 .. Len(queue')
               PROVE  queue'[i][1] \notin Data
    OBVIOUS
  <2>1. CASE i \in 1 .. Len(queue)
    BY <2>1, <1>3, <1>6 DEF Closing
  <2>2. CASE i = Len(queue) + 1
    BY <2>2, <1>4
  <2> QED
    BY <2>1, <2>2, <1>2, <1>3
<1> QED
  BY <1>1, <1>5, <1>7 DEF Closing

LEMMA StepClosing == TypeOK /\ Tracked /\ Closing /\ [Next]_vars => Closing'
<1> SUFFICES ASSUME TypeOK, Tracked, Closing, [Next]_vars PROVE Closing'
  OBVIOUS
<1>1. ASSUME NEW b \in Branch, BranchUp(b) PROVE Closing'
  BY <1>1, SameTaken DEF BranchUp, Closing
<1>2. CASE UNCHANGED vars
  BY <1>2, SameTaken DEF Closing, vars, inside
<1> QED
  BY <1>1, <1>2, QueueClosing, TakeClosing, OutClosing, PushesClosing, ProbeClosing
  DEF Next, BranchStep
-----------------------------------------------------------------------------
(***************************************************************************)
(* The order of what comes out                                             *)
(***************************************************************************)
\* What was pushed, q, follows what the branches let through, r.
Follows(q, r) ==
  /\ \A i, j \in 1 .. Len(q) : q[i][1] = q[j][1] => i = j
  /\ \A i, j \in 1 .. Len(r) : r[i] = r[j] => i = j
  /\ \A i \in 1 .. Len(q) : \E k \in 1 .. Len(r) : r[k] = q[i][1]
  /\ \A k \in 1 .. Len(r) : r[k] \notin Synchronized => \E i \in 1 .. Len(q) : q[i][1] = r[k]
  /\ \A i, j \in 1 .. Len(q), k, l \in 1 .. Len(r) :
       /\ i < j /\ q[i][1] \notin Synchronized /\ q[j][1] \notin Synchronized
       /\ r[k] = q[i][1] /\ r[l] = q[j][1]
       => k < l

\* Nothing stays buffered when nothing is waited for.
Order == Follows(out \o buffered, left) /\ (~synchronizing => buffered = <<>>)

\* A frame that was not let through yet is, and comes last or opens the pipeline.
LEMMA FollowsInsert ==
  ASSUME NEW q \in Seq(Pushed), NEW r \in Seq(Frame \cup Own), Follows(q, r),
         NEW e \in Pushed, ~Contains(r, e[1]),
         NEW m \in 0 .. Len(q), m = Len(q) \/ e[1] \in Synchronized,
         NEW s \in Seq(Pushed), Len(s) = Len(q) + 1,
         \A j \in 1 .. Len(q) + 1 :
           s[j] = IF j <= m THEN q[j] ELSE IF j = m + 1 THEN e ELSE q[j - 1]
  PROVE  Follows(s, Append(r, e[1]))
<1> DEFINE f == e[1]
           t == Append(r, f)
           was(j) == IF j <= m THEN j ELSE j - 1
<1>1. /\ Len(q) \in Nat /\ Len(r) \in Nat /\ m \in Nat /\ m <= Len(q) /\ f \in Frame \cup Own
  BY DEF Pushed
<1>2. Len(t) = Len(r) + 1 /\ t[Len(r) + 1] = f /\ \A k \in 1 .. Len(r) : t[k] = r[k]
  BY <1>1
<1>3. \A k \in 1 .. Len(r) : r[k] # f
  BY <1>1 DEF Contains
<1>4. \A i \in 1 .. Len(q) : q[i][1] # f
  BY <1>3 DEF Follows
<1>5. \A j \in 1 .. Len(s) : j # m + 1 => was(j) \in 1 .. Len(q) /\ s[j] = q[was(j)]
  BY <1>1
<1>6. s[m + 1] = e /\ m + 1 \in 1 .. Len(s)
  BY <1>1
<1>7. \A i, j \in 1 .. Len(s) : i # m + 1 /\ j # m + 1 =>
        (was(i) = was(j) => i = j) /\ (i < j => was(i) < was(j))
  BY <1>1
<1>8. \A i \in 1 .. Len(q) : \E j \in 1 .. Len(s) : j # m + 1 /\ was(j) = i
  <2> SUFFICES ASSUME NEW i \in 1 .. Len(q)
               PROVE  \E j \in 1 .. Len(s) : j # m + 1 /\ was(j) = i
    OBVIOUS
  <2>1. CASE i <= m
    BY <1>1, <2>1
  <2>2. CASE i > m
    <3>1. i + 1 \in 1 .. Len(s) /\ i + 1 # m + 1 /\ was(i + 1) = i
      BY <1>1, <2>2
    <3> QED
      BY ONLY <3>1
  <2> QED
    BY <1>1, <2>1, <2>2
<1>9. \A k \in 1 .. Len(t) : k \in 1 .. Len(r) \/ k = Len(r) + 1
  BY <1>1, <1>2
<1>10. \A k \in 1 .. Len(r) : k \in 1 .. Len(t) /\ k < Len(r) + 1
  BY <1>1, <1>2
<1>11. Len(r) + 1 \in 1 .. Len(t)
  BY <1>1, <1>2
<1> HIDE DEF f, t, was
<1>12. \A i, j \in 1 .. Len(s) : s[i][1] = s[j][1] => i = j
  <2> SUFFICES ASSUME NEW i \in 1 .. Len(s), NEW j \in 1 .. Len(s), s[i][1] = s[j][1]
               PROVE  i = j
    OBVIOUS
  <2>1. CASE i # m + 1 /\ j # m + 1
    <3>1. /\ was(i) \in 1 .. Len(q) /\ was(j) \in 1 .. Len(q)
          /\ q[was(i)][1] = q[was(j)][1]
      BY <2>1, <1>5
    <3>2. was(i) = was(j)
      BY <3>1 DEF Follows
    <3> QED
      BY <2>1, <3>2, <1>7
  <2>2. CASE i = m + 1 /\ j # m + 1
    BY <2>2, <1>4, <1>5, <1>6 DEF f
  <2>3. CASE i # m + 1 /\ j = m + 1
    BY <2>3, <1>4, <1>5, <1>6 DEF f
  <2> QED
    BY <2>1, <2>2, <2>3
<1>13. \A i, j \in 1 .. Len(t) : t[i] = t[j] => i = j
  BY <1>2, <1>3, <1>9 DEF Follows
<1>14. \A i \in 1 .. Len(s) : \E k \in 1 .. Len(t) : t[k] = s[i][1]
  <2> SUFFICES ASSUME NEW i \in 1 .. Len(s) PROVE \E k \in 1 .. Len(t) : t[k] = s[i][1]
    OBVIOUS
  <2>1. CASE i = m + 1
    BY <2>1, <1>2, <1>6, <1>11 DEF f
  <2>2. CASE i # m + 1
    <3>1. was(i) \in 1 .. Len(q) /\ s[i] = q[was(i)]
      BY <2>2, <1>5
    <3>2. PICK k \in 1 .. Len(r) : r[k] = q[was(i)][1]
      BY <3>1 DEF Follows
    <3> QED
      BY <3>1, <3>2, <1>2, <1>10
  <2> QED
    BY <2>1, <2>2
<1>15. \A k \in 1 .. Len(t) : t[k] \notin Synchronized => \E i \in 1 .. Len(s) : s[i][1] = t[k]
  <2> SUFFICES ASSUME NEW k \in 1 .. Len(t), t[k] \notin Synchronized
               PROVE  \E i \in 1 .. Len(s) : s[i][1] = t[k]
    OBVIOUS
  <2>1. CASE k = Len(r) + 1
    BY <2>1, <1>2, <1>6 DEF f
  <2>2. CASE k \in 1 .. Len(r)
    <3>1. PICK i \in 1 .. Len(q) : q[i][1] = r[k]
      BY <2>2, <1>2 DEF Follows
    <3>2. PICK j \in 1 .. Len(s) : j # m + 1 /\ was(j) = i
      BY <1>8
    <3>3. s[j][1] = t[k]
      BY <2>2, <3>1, <3>2, <1>2, <1>5
    <3> QED
      BY <3>3
  <2> QED
    BY <2>1, <2>2, <1>9
<1>16. ASSUME NEW i \in 1 .. Len(s), NEW j \in 1 .. Len(s),
              NEW k \in 1 .. Len(t), NEW l \in 1 .. Len(t),
              i < j, s[i][1] \notin Synchronized, s[j][1] \notin Synchronized,
              t[k] = s[i][1], t[l] = s[j][1]
       PROVE  k < l
  <2>1. CASE i # m + 1 /\ j # m + 1
    <3>1. k # Len(r) + 1 /\ l # Len(r) + 1
      BY <1>2, <1>4, <1>5, <1>16, <2>1
    <3>2. k \in 1 .. Len(r) /\ l \in 1 .. Len(r) /\ r[k] = t[k] /\ r[l] = t[l]
      BY <3>1, <1>2, <1>9
    <3>3. /\ was(i) \in 1 .. Len(q) /\ was(j) \in 1 .. Len(q) /\ was(i) < was(j)
          /\ s[i] = q[was(i)] /\ s[j] = q[was(j)]
      BY <1>5, <1>7, <1>16, <2>1
    <3> QED
      BY <3>2, <3>3, <1>16 DEF Follows
  <2>2. CASE j = m + 1
    <3>1. m = Len(q) /\ i # m + 1
      BY <1>1, <1>6, <1>16, <2>2 DEF f
    <3>2. k # Len(r) + 1
      BY <3>1, <1>2, <1>4, <1>5, <1>16
    <3>3. l = Len(r) + 1
      BY <1>2, <1>3, <1>6, <1>9, <1>16, <2>2 DEF f
    <3> QED
      BY <3>2, <3>3, <1>9, <1>10
  <2>3. CASE i = m + 1
    <3>1. m = Len(q)
      BY <1>1, <1>6, <1>16, <2>3 DEF f
    <3>2. j > Len(s)
      BY <3>1, <1>1, <1>16, <2>3
    <3> QED
      BY <3>2, <1>1, <1>16
  <2> QED
    BY <2>1, <2>2, <2>3
<1>17. Follows(s, t)
  BY <1>12, <1>13, <1>14, <1>15, <1>16 DEF Follows
<1> QED
  BY <1>17 DEF f, t

LEMMA PutBetween ==
  ASSUME NEW S, NEW a \in Seq(S), NEW b \in Seq(S), NEW e \in S
  PROVE  /\ a \o (<<e>> \o b) \in Seq(S)
         /\ Len(a \o (<<e>> \o b)) = Len(a \o b) + 1
         /\ \A j \in 1 .. Len(a \o b) + 1 : (a \o (<<e>> \o b))[j] =
              IF j <= Len(a) THEN (a \o b)[j]
              ELSE IF j = Len(a) + 1 THEN e ELSE (a \o b)[j - 1]
         /\ a \o (b \o <<e>>) = Append(a \o b, e)
<1> DEFINE c == <<e>> \o b
<1>1. /\ c \in Seq(S) /\ Len(c) = Len(b) + 1 /\ c[1] = e
      /\ \A j \in 1 .. Len(b) : c[j + 1] = b[j]
  OBVIOUS
<1>2. \A j \in 2 .. Len(b) + 1 : c[j] = b[j - 1]
  <2> SUFFICES ASSUME NEW j \in 2 .. Len(b) + 1 PROVE c[j] = b[j - 1]
    OBVIOUS
  <2>1. j - 1 \in 1 .. Len(b) /\ (j - 1) + 1 = j
    OBVIOUS
  <2> HIDE DEF c
  <2> QED
    BY <2>1, <1>1
<1> HIDE DEF c
<1>3. /\ a \o c \in Seq(S) /\ Len(a \o c) = Len(a \o b) + 1
      /\ Len(a) \in Nat /\ Len(b) \in Nat /\ Len(a \o b) = Len(a) + Len(b)
  <2>1. c \in Seq(S) /\ Len(c) = Len(b) + 1
    BY <1>1
  <2> QED
    BY <2>1
<1>4. ASSUME NEW j \in 1 .. Len(a \o b) + 1
      PROVE  (a \o c)[j] = IF j <= Len(a) THEN (a \o b)[j]
                           ELSE IF j = Len(a) + 1 THEN e ELSE (a \o b)[j - 1]
  <2>1. c \in Seq(S) /\ Len(c) = Len(b) + 1
    BY <1>1
  <2>2. (a \o c)[j] = IF j <= Len(a) THEN a[j] ELSE c[j - Len(a)]
    BY <1>3, <2>1
  <2>3. CASE j <= Len(a)
    BY <1>3, <2>2, <2>3
  <2>4. CASE j = Len(a) + 1
    BY <1>1, <1>3, <2>2, <2>4
  <2>5. CASE j > Len(a) + 1
    <3>1. j - Len(a) \in 2 .. Len(b) + 1 /\ (j - Len(a)) - 1 = (j - 1) - Len(a)
      BY <1>3, <2>5
    <3>2. (a \o c)[j] = b[(j - 1) - Len(a)]
      BY <1>2, <1>3, <2>2, <2>5, <3>1
    <3>3. (a \o b)[j - 1] = b[(j - 1) - Len(a)]
      BY <1>3, <2>5
    <3> QED
      BY <1>3, <2>5, <3>2, <3>3
  <2> QED
    BY <1>3, <2>3, <2>4, <2>5
<1>5. a \o (b \o <<e>>) = Append(a \o b, e)
  OBVIOUS
<1> QED
  BY <1>3, <1>4, <1>5 DEF c

LEMMA FollowsAppend ==
  ASSUME NEW q \in Seq(Pushed), NEW r \in Seq(Frame \cup Own), Follows(q, r),
         NEW e \in Pushed, ~Contains(r, e[1])
  PROVE  Follows(Append(q, e), Append(r, e[1]))
<1>1. Len(q) \in 0 .. Len(q) /\ Len(q) \in Nat
  OBVIOUS
<1>2. PICK m, s : m \in 0 .. Len(q) /\ m = Len(q) /\ s = Append(q, e)
  BY <1>1
<1>3. /\ s \in Seq(Pushed) /\ Len(s) = Len(q) + 1
      /\ \A j \in 1 .. Len(q) + 1 :
           s[j] = IF j <= m THEN q[j] ELSE IF j = m + 1 THEN e ELSE q[j - 1]
  BY <1>1, <1>2
<1>4. Follows(s, Append(r, e[1]))
  BY <1>2, <1>3, FollowsInsert
<1> QED
  BY <1>2, <1>4

\* _parallel_push_frame lets a frame out or buffers it.
LEMMA PushOrder ==
  ASSUME TypeOK, Order, NEW f \in Frame \cup Own, NEW dir \in {"down", "up"},
         ParallelPush(f, dir), UNCHANGED synchronizing
  PROVE  Order'
<1> DEFINE q == out \o buffered
           e == <<f, dir>>
<1>1. /\ out \in Seq(Pushed) /\ buffered \in Seq(Pushed) /\ left \in Seq(Frame \cup Own)
      /\ e \in Pushed /\ e[1] = f
  BY DEF TypeOK, Pushed
<1>2. q \in Seq(Pushed) /\ Len(q) \in Nat
  BY <1>1
<1>3. CASE Seen(f)
  BY <1>3 DEF ParallelPush, Order
<1>4. CASE ~Seen(f)
  <2>1. /\ left' = Append(left, f)
        /\ \/ synchronizing /\ buffered' = Append(buffered, e) /\ out' = out
           \/ ~synchronizing /\ out' = Append(out, e) /\ buffered' = buffered
    BY <1>4 DEF ParallelPush
  <2>2. out' \o buffered' = Append(q, e)
    <3>1. CASE synchronizing
      <4>1. out \o Append(buffered, e) = Append(out \o buffered, e)
        BY ONLY <1>1
      <4> QED
        BY <3>1, <4>1, <2>1
    <3>2. CASE ~synchronizing
      <4>1. buffered = <<>>
        BY <3>2 DEF Order
      <4>2. Append(out, e) \o <<>> = Append(out \o <<>>, e)
        BY ONLY <1>1
      <4> QED
        BY <3>2, <4>1, <4>2, <2>1
    <3> QED
      BY <3>1, <3>2
  <2>3. Follows(q, left) /\ ~Contains(left, e[1])
    BY <1>1, <1>4 DEF Order, Seen
  <2> HIDE DEF q, e
  <2>4. Follows(Append(q, e), Append(left, e[1]))
    BY <1>1, <1>2, <2>3, FollowsAppend
  <2> QED
    BY <1>1, <2>1, <2>2, <2>4 DEF Order
<1> QED
  BY <1>3, <1>4

\* A frame that was waited for comes out with what was buffered, before or after it.
LEMMA ReleaseOrder ==
  ASSUME TypeOK, Order, NEW f \in Synchronized, out' = out \o Released(f), buffered' = <<>>,
         left' = IF Seen(f) THEN left ELSE Append(left, f)
  PROVE  Order'
<1> DEFINE q == out \o buffered
           e == <<f, "down">>
<1>1. /\ out \in Seq(Pushed) /\ buffered \in Seq(Pushed) /\ left \in Seq(Frame \cup Own)
      /\ e \in Pushed /\ e[1] = f
  BY Frames DEF TypeOK, Pushed
<1>2. q \in Seq(Pushed) /\ Follows(q, left)
  BY <1>1 DEF Order
<1>3. CASE Seen(f)
  <2>1. Released(f) = buffered
    BY <1>1, <1>3 DEF Released, Flushed
  <2>2. (out \o buffered) \o <<>> = out \o buffered
    BY ONLY <1>1
  <2> QED
    BY <1>3, <2>1, <2>2 DEF Order
<1> SUFFICES ASSUME ~Contains(left, e[1]) PROVE Order'
  BY <1>1, <1>3 DEF Seen
<1>4. CASE f \in Is("start")
  <2> DEFINE s == out \o (<<e>> \o buffered)
  <2>1. out' = s
    BY <1>1, <1>4 DEF Released, Flushed, Seen
  <2>2. /\ s \in Seq(Pushed) /\ Len(s) = Len(q) + 1
        /\ \A j \in 1 .. Len(q) + 1 :
             s[j] = IF j <= Len(out) THEN q[j] ELSE IF j = Len(out) + 1 THEN e ELSE q[j - 1]
    <3> HIDE DEF e
    <3> QED
      BY ONLY <1>1, PutBetween
  <2>3. PICK m \in 0 .. Len(q) : m = Len(out)
    BY <1>1
  <2>4. s \o <<>> = s
    BY <2>2
  <2> HIDE DEF q, e, s
  <2>5. Follows(s, Append(left, e[1]))
    BY <1>1, <1>2, <2>2, <2>3, FollowsInsert
  <2> QED
    BY <1>1, <2>1, <2>4, <2>5 DEF Order, Seen
<1>5. CASE f \notin Is("start")
  <2>1. out' = out \o (buffered \o <<e>>)
    BY <1>1, <1>5 DEF Released, Flushed, Seen
  <2>2. out' = Append(q, e)
    BY <1>1, <2>1, PutBetween
  <2>3. Append(q, e) \o <<>> = Append(q, e)
    BY <1>1, <1>2
  <2> HIDE DEF q, e
  <2>4. Follows(Append(q, e), Append(left, e[1]))
    BY <1>1, <1>2, FollowsAppend
  <2> QED
    BY <1>1, <2>2, <2>3, <2>4 DEF Order, Seen
<1> QED
  BY <1>4, <1>5

LEMMA StepOrder == TypeOK /\ Order /\ [Next]_vars => Order'
<1> SUFFICES ASSUME TypeOK, Order, [Next]_vars PROVE Order'
  OBVIOUS
<1>1. CASE UNCHANGED <<out, buffered, left>> /\ (synchronizing => synchronizing')
  BY <1>1 DEF Order
<1>2. ASSUME NEW b \in Branch, BranchOut(b) PROVE Order'
  <2>1. PICK i \in DOMAIN down[b] : Sink(down[b][i])
    BY <1>2 DEF BranchOut
  <2>2. PICK f : f = down[b][i]
    OBVIOUS
  <2>3. f \in Frame \cup Own /\ Sink(f)
    BY <2>1, <2>2 DEF TypeOK
  <2>4. CASE f \notin Synchronized
    BY <2>3, <2>4, PushOrder DEF Sink
  <2>5. CASE f \in Synchronized /\ Decremented(f) = 0
    BY <2>3, <2>5, ReleaseOrder DEF Sink
  <2>6. CASE f \in Synchronized /\ Decremented(f) # 0
    BY <2>3, <2>6, <1>1 DEF Sink
  <2> QED
    BY <2>4, <2>5, <2>6
<1>3. ASSUME NEW b \in Branch, BranchUp(b) PROVE Order'
  <2>1. up[b] \in Seq(Frame \cup Own) /\ up[b] # <<>>
    BY <1>3 DEF BranchUp, TypeOK
  <2>2. Head(up[b]) \in Frame \cup Own
    BY <2>1
  <2> QED
    BY <1>3, <2>2, PushOrder DEF BranchUp
<1>4. CASE TakeSystem \/ TakeFrame
  BY <1>1, <1>4 DEF TakeSystem, TakeFrame, Begin
<1>5. ASSUME NEW f \in Frame, QueueFrame(f) PROVE Order'
  BY <1>1, <1>5 DEF QueueFrame, sync
<1>6. ASSUME NEW b \in Branch, BranchKeeps(b) PROVE Order'
  BY <1>1, <1>6 DEF BranchKeeps, sync
<1>7. ASSUME NEW b \in Branch, NEW f \in Own, BranchPushes(b, f) PROVE Order'
  BY <1>1, <1>7 DEF BranchPushes, sync
<1>8. CASE ProbeBounces \/ UNCHANGED vars
  BY <1>1, <1>8 DEF ProbeBounces, sync, vars
<1> QED
  BY <1>2, <1>3, <1>4, <1>5, <1>6, <1>7, <1>8 DEF Next, BranchStep

LEMMA FollowsKept ==
  ASSUME TypeOK, Order PROVE OrderKept
<1> DEFINE q == out \o buffered
<1>1. /\ q \in Seq(Pushed) /\ left \in Seq(Frame \cup Own) /\ Follows(q, left)
  BY DEF TypeOK, Order
<1>2. DOMAIN q = 1 .. Len(q) /\ DOMAIN left = 1 .. Len(left)
  BY <1>1
<1>3. DOMAIN Passed = 1 .. Len(q) /\ \A i \in 1 .. Len(q) : Passed[i] = q[i][1]
  BY <1>2 DEF Passed
<1>4. Len(q) \in Nat /\ Len(left) \in Nat /\ Len(Passed) = Len(q)
  BY <1>1, <1>3
<1> HIDE DEF q
<1>5. IsInjective(Passed) /\ IsInjective(left)
  BY <1>1, <1>2, <1>3 DEF IsInjective, Follows
<1>6. \A i \in DOMAIN Passed : Contains(left, Passed[i])
  BY <1>1, <1>3 DEF Contains, Follows
<1>7. \A f : f \notin Synchronized /\ Contains(left, f) => Contains(Passed, f)
  BY <1>1, <1>3, <1>4 DEF Contains, Follows
<1>8. ASSUME NEW i \in DOMAIN Passed, NEW j \in DOMAIN Passed, i < j,
             Passed[i] \notin Synchronized, Passed[j] \notin Synchronized
      PROVE  \E k, l \in DOMAIN left : k < l /\ left[k] = Passed[i] /\ left[l] = Passed[j]
  <2>1. /\ i \in 1 .. Len(q) /\ j \in 1 .. Len(q)
        /\ Passed[i] = q[i][1] /\ Passed[j] = q[j][1]
    BY <1>3
  <2>2. PICK k \in 1 .. Len(left), l \in 1 .. Len(left) : left[k] = q[i][1] /\ left[l] = q[j][1]
    BY <1>1, <2>1 DEF Follows
  <2>3. k < l
    BY <1>1, <1>8, <2>1, <2>2 DEF Follows
  <2> QED
    BY <1>2, <2>1, <2>2, <2>3
<1>9. Synchronized = Is("start") \cup Is("end") \cup Is("cancel")
  BY DEF Synchronized, Is
<1> QED
  BY <1>5, <1>6, <1>7, <1>8, <1>9 DEF OrderKept
-----------------------------------------------------------------------------
(***************************************************************************)
(* The theorems                                                            *)
(***************************************************************************)
LEMMA InvNext == Inv /\ [Next]_vars => Inv'
BY StepTracked, StepOpening, StepClosing DEF Inv, Tracked

\* A frame is counted where it is, the StartFrame opens and the EndFrame closes: the inductive
\* invariant of the ParallelPipeline, from which the other theorems follow.
THEOREM Invariance == Spec => []Inv
<1>1. Init => Inv
  BY InvInit
<1>2. Inv /\ [Next]_vars => Inv'
  BY InvNext
<1> QED
  BY <1>1, <1>2, PTL DEF Spec

\* Every variable keeps its type, whatever the branches and the frames.
THEOREM TypeCorrect == Spec => []TypeOK
BY Invariance, PTL DEF Inv

\* "StartFrame should always go before any other frame", for any number of branches.
THEOREM StartComesFirst == Spec => []StartGoesFirst
<1>1. Inv => StartGoesFirst
  BY DEF Inv, Opening, StartGoesFirst
<1> QED
  BY <1>1, Invariance, PTL

\* No branch has a data frame left when the EndFrame comes out, however many there are.
THEOREM EndComesLast == Spec => []EndGoesLast
<1>1. Inv => EndGoesLast
  <2> SUFFICES ASSUME Inv, NEW f \in Is("end"), Contains(out, <<f, "down">>), NEW b \in Branch,
                      NEW g \in Data
               PROVE  ~Contains(down[b], g)
    BY DEF EndGoesLast
  <2>1. f \in gone[b]
    BY Frames DEF Inv, Comes
  <2> QED
    BY <2>1 DEF Inv, Closing, Contains
<1> QED
  BY <1>1, Invariance, PTL

\* No StartFrame, EndFrame or CancelFrame is let out before every branch has handled it.
THEOREM EveryBranchFirst == Spec => []AllBranchesFirst
<1>1. Inv => AllBranchesFirst
  <2> SUFFICES ASSUME Inv, NEW i \in DOMAIN out, out[i][1] \in Synchronized, NEW b \in Branch
               PROVE  out[i][1] \in gone[b]
    BY DEF AllBranchesFirst
  <2>1. out \in Seq(Pushed) /\ i \in 1 .. Len(out)
    BY DEF Inv, TypeOK
  <2>2. PICK f, d : out[i] = <<f, d>> /\ d \in {"down", "up"}
    BY <2>1 DEF Pushed
  <2>3. Contains(out, <<f, d>>) /\ f \in Synchronized
    BY <2>1, <2>2 DEF Contains
  <2>4. f \in gone[b]
    BY <2>2, <2>3 DEF Inv, Comes
  <2> QED
    BY <2>2, <2>4
<1> QED
  BY <1>1, Invariance, PTL

\* Whatever the branches' speed, a frame comes out once, in the order in which the first copy
\* of each was let through, and buffering loses none.
THEOREM ComesOutInOrder == Spec => []OrderKept
<1>1. Init => Inv /\ Order
  <2>1. Init => Order
    BY DEF Init, Order, Follows
  <2> QED
    BY <2>1, InvInit
<1>2. Inv /\ Order /\ [Next]_vars => (Inv /\ Order)'
  BY InvNext, StepOrder DEF Inv
<1>3. Inv /\ Order => OrderKept
  BY FollowsKept DEF Inv
<1> QED
  BY <1>1, <1>2, <1>3, PTL DEF Spec

\* One lifecycle frame at a time is waited for, and system and other frames are paused
\* exactly while one is: no branch's copy ends the pause of another frame.
THEOREM PausedWhileWaiting == Spec => []OneAtATime
<1>1. Inv => OneAtATime
  BY DEF Inv
<1> QED
  BY <1>1, Invariance, PTL
=============================================================================
