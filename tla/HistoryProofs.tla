----------------------------- MODULE HistoryProofs -----------------------------
(***************************************************************************)
(* The Converse history of ChatTurn, for any number of requests, rounds    *)
(* and toolUses: what repair_history leaves of the histories that turns    *)
(* write, and from it the three properties of the history.                 *)
(***************************************************************************)
EXTENDS ChatTurnProofs, Induction

(***************************************************************************)
(* Well-formed histories: all that Converse asks, but for the last         *)
(* message, which may call tools nobody has answered yet.                  *)
(***************************************************************************)
Use == [turn : Requests, round : Nat, pos : Nat, tool : Tools]

Message == [role : {"user", "assistant"}, texts : SUBSET Requests,
            uses : SUBSET Use, results : SUBSET Use]

WellFormedAt(h, i) ==
    /\ ~IsEmptyMessage(h[i])
    /\ h[i].role = "user" => h[i].uses = {}
    /\ h[i].role = "assistant" => h[i].results = {}
    /\ i = 1 => h[i].role = "user" /\ h[i].results = {}
    /\ i # 1 => h[i].role # h[i - 1].role /\ h[i].results = h[i - 1].uses

WellFormed(h) == h \in Seq(Message) /\ \A i \in 1 .. Len(h) : WellFormedAt(h, i)

EndsWith(h, role) == h # <<>> /\ h[Len(h)].role = role

(***************************************************************************)
(* repair_history on a well-formed history                                 *)
(***************************************************************************)
LEMMA MessageRoles ==
  ASSUME NEW h, WellFormed(h), NEW i \in 1 .. Len(h)
  PROVE  h[i] \in Message /\ h[i].role \in {"user", "assistant"} /\ WellFormedAt(h, i)
<1>1. h[i] \in Message
  BY DEF WellFormed
<1> QED
  BY <1>1 DEF WellFormed, Message

LEMMA NotEmpty ==
  ASSUME NEW h, WellFormed(h)
  PROVE  /\ Len(h) \in Nat
         /\ h # <<>> <=> Len(h) # 0
         /\ h # <<>> <=> Len(h) \in 1 .. Len(h)
<1>1. h \in Seq(Message)
  BY DEF WellFormed
<1>2. h = <<>> <=> Len(h) = 0
  BY <1>1, EmptySeq
<1>3. Len(h) \in Nat
  BY <1>1
<1> QED
  BY <1>2, <1>3

LEMMA PrefixWell ==
  ASSUME NEW h, WellFormed(h), NEW m \in 0 .. Len(h)
  PROVE  /\ WellFormed(SubSeq(h, 1, m))
         /\ Len(SubSeq(h, 1, m)) = m
         /\ \A i \in 1 .. m : SubSeq(h, 1, m)[i] = h[i]
<1> DEFINE g == SubSeq(h, 1, m)
<1>0. h \in Seq(Message) /\ Len(h) \in Nat
  BY DEF WellFormed
<1>1. g \in Seq(Message) /\ Len(g) = m /\ \A i \in 1 .. m : g[i] = h[i]
  <2>1. m \in Int /\ 1 \in Int /\ \A i \in 1 .. m : h[i] \in Message
    BY <1>0
  <2> QED
    BY <1>0, <2>1, SubSeqProperties
<1> HIDE DEF g
<1>2. ASSUME NEW i \in 1 .. m
      PROVE  WellFormedAt(g, i)
  <2>1. WellFormedAt(h, i) /\ g[i] = h[i] /\ (i # 1 => g[i - 1] = h[i - 1])
    BY <1>0, <1>1 DEF WellFormed
  <2> QED
    BY <2>1 DEF WellFormedAt
<1>3. WellFormed(g)
  BY <1>1, <1>2 DEF WellFormed
<1> QED
  BY <1>1, <1>3 DEF g

LEMMA OnlyLastDangles ==
  ASSUME NEW h, WellFormed(h), NEW i \in 1 .. Len(h)
  PROVE  Dangling(h, i) <=> i = Len(h) /\ h[i].uses # {}
<1>0. h \in Seq(Message) /\ Len(h) \in Nat /\ h[i] \in Message
  BY DEF WellFormed
<1>1. WellFormedAt(h, i)
  BY DEF WellFormed
<1>2. h[i].role \in {"user", "assistant"}
  BY <1>0 DEF Message
<1>3. CASE i = Len(h)
  BY <1>0, <1>1, <1>2, <1>3 DEF Dangling, WellFormedAt
<1>4. CASE i # Len(h)
  <2>1. i + 1 \in 1 .. Len(h) /\ (i + 1) - 1 = i /\ i + 1 # 1
    BY <1>0, <1>4
  <2>2. WellFormedAt(h, i + 1) /\ h[i + 1].role \in {"user", "assistant"}
    BY <2>1, MessageRoles
  <2> QED
    BY <1>0, <1>4, <2>1, <2>2 DEF Dangling, WellFormedAt
<1> QED
  BY <1>3, <1>4

LEMMA NoOrphans ==
  ASSUME NEW h, WellFormed(h)
  PROVE  WithoutOrphanResults(h) = h
<1>0. h \in Seq(Message) /\ Len(h) \in Nat /\ DOMAIN h = 1 .. Len(h)
  BY DEF WellFormed
<1>1. ASSUME NEW i \in 1 .. Len(h), h[i].role = "user"
      PROVE  h[i].results \subseteq LiveUses(h)
  <2>1. WellFormedAt(h, i)
    BY DEF WellFormed
  <2>2. CASE i = 1
    BY <1>1, <2>1, <2>2 DEF WellFormedAt
  <2>3. CASE i # 1
    <3>1. i - 1 \in 1 .. Len(h)
      BY <1>0, <2>3
    <3>2. h[i - 1] \in ToSet(h) /\ h[i - 1].role = "assistant"
      <4>1. h[i - 1].role \in {"user", "assistant"} /\ h[i - 1].role # "user"
        BY <1>1, <2>1, <2>3, <3>1, MessageRoles DEF WellFormedAt
      <4> QED
        BY <1>0, <3>1, <4>1 DEF ToSet
    <3> QED
      BY <2>1, <2>3, <3>2 DEF LiveUses, WellFormedAt
  <2> QED
    BY <2>2, <2>3
<1>2. ASSUME NEW i \in 1 .. Len(h), h[i].role = "user"
      PROVE  [h[i] EXCEPT !.results = @ \cap LiveUses(h)] = h[i]
  <2>1. h[i].results \cap LiveUses(h) = h[i].results
    BY <1>1, <1>2
  <2>2. h[i] \in Message
    BY <1>0
  <2> QED
    BY <2>1, <2>2 DEF Message
<1> QED
  BY <1>0, <1>2 DEF WithoutOrphanResults

(* MergeAdjacent finds nothing to merge.                                   *)
MergeStep(f, h, i) ==
    IF f[i - 1] # <<>> /\ Last(f[i - 1]).role = h[i].role
    THEN Append(Front(f[i - 1]), JoinMessages(Last(f[i - 1]), h[i]))
    ELSE Append(f[i - 1], h[i])

Merges(f, h) == f = [i \in 0 .. Len(h) |-> IF i = 0 THEN <<>> ELSE MergeStep(f, h, i)]

LEMMA NothingToMerge ==
  ASSUME NEW h, WellFormed(h)
  PROVE  MergeAdjacent(h) = h
<1> DEFINE n == Len(h)
<1>0. h \in Seq(Message) /\ n \in Nat
  BY DEF WellFormed
<1>1. ASSUME NEW f, NEW i \in Nat, i + 1 <= n, f[i] = SubSeq(h, 1, i)
      PROVE  MergeStep(f, h, i + 1) = SubSeq(h, 1, i + 1)
  <2>1. SubSeq(h, 1, i + 1) = Append(SubSeq(h, 1, i), h[i + 1])
    BY <1>0, <1>1, PrefixGrows
  <2>2. /\ Len(SubSeq(h, 1, i)) = i
        /\ \A j \in 1 .. i : SubSeq(h, 1, i)[j] = h[j]
    BY <1>0, <1>1, PrefixWell
  <2>3. ASSUME f[i] # <<>>
        PROVE  Last(f[i]).role # h[i + 1].role
    <3>1. i # 0
      BY <1>1, <2>3, SubSeqEmpty
    <3>2. Last(f[i]) = h[i]
      BY <1>1, <2>2, <3>1 DEF Last
    <3>3. i + 1 \in 1 .. n /\ i + 1 # 1 /\ (i + 1) - 1 = i
      BY <1>0, <1>1, <3>1
    <3>4. WellFormedAt(h, i + 1)
      BY <3>3 DEF WellFormed
    <3> QED
      BY <3>2, <3>3, <3>4 DEF WellFormedAt
  <2>4. (i + 1) - 1 = i
    OBVIOUS
  <2> QED
    BY <1>1, <2>1, <2>3, <2>4 DEF MergeStep
<1>2. \E f : Merges(f, h)
  <2> DEFINE f == [i \in 0 .. n |-> SubSeq(h, 1, i)]
  <2>1. ASSUME NEW i \in 0 .. n
        PROVE  f[i] = IF i = 0 THEN <<>> ELSE MergeStep(f, h, i)
    <3>1. CASE i = 0
      BY <3>1, SubSeqEmpty
    <3>2. CASE i # 0
      <4>1. i - 1 \in Nat /\ (i - 1) + 1 = i /\ i - 1 \in 0 .. n /\ i <= n
        BY <1>0, <3>2
      <4>2. f[i - 1] = SubSeq(h, 1, i - 1) /\ f[i] = SubSeq(h, 1, i)
        BY <4>1
      <4> HIDE DEF f
      <4>3. MergeStep(f, h, (i - 1) + 1) = SubSeq(h, 1, (i - 1) + 1)
        BY <1>1, <4>1, <4>2
      <4> QED
        BY <3>2, <4>1, <4>2, <4>3
    <3> QED
      BY <3>1, <3>2
  <2>2. f = [i \in 0 .. n |-> f[i]]
    OBVIOUS
  <2> HIDE DEF f
  <2>3. f = [i \in 0 .. n |-> IF i = 0 THEN <<>> ELSE MergeStep(f, h, i)]
    BY <2>1, <2>2
  <2> QED
    BY <2>3 DEF Merges
<1> DEFINE g == CHOOSE f : Merges(f, h)
<1>3. Merges(g, h) /\ MergeAdjacent(h) = g[n]
  <2>1. MergeAdjacent(h) = g[n]
    BY DEF MergeAdjacent, Merges, MergeStep
  <2> QED
    BY <1>2, <2>1
<1> HIDE DEF g
<1>4. g[0] = <<>> /\ \A i \in 1 .. n : g[i] = MergeStep(g, h, i)
  BY <1>0, <1>3 DEF Merges
<1> DEFINE X == {i \in Nat : i <= n => g[i] = SubSeq(h, 1, i)}
<1>5. 0 \in X
  <2>1. SubSeq(h, 1, 0) = <<>>
    BY SubSeqEmpty
  <2> QED
    BY <1>4, <2>1
<1>6. ASSUME NEW i \in Nat, i \in X
      PROVE  i + 1 \in X
  <2> SUFFICES ASSUME i + 1 <= n
               PROVE  g[i + 1] = SubSeq(h, 1, i + 1)
    OBVIOUS
  <2>1. i + 1 \in 1 .. n /\ g[i] = SubSeq(h, 1, i)
    BY <1>0, <1>6
  <2> QED
    BY <1>1, <1>4, <2>1
<1> HIDE DEF X
<1>7. n \in X
  BY <1>0, <1>5, <1>6, NatInduct
<1>8. g[n] = SubSeq(h, 1, n)
  BY <1>7 DEF X
<1> QED
  BY <1>0, <1>3, <1>8, SubSeqFull

(* Repair drops the last message if its toolUses are unanswered, and is    *)
(* done.                                                                   *)
LEMMA RepairDropsLast ==
  ASSUME NEW h, WellFormed(h)
  PROVE  \/ Repair(h) = h /\ (h # <<>> => h[Len(h)].uses = {})
         \/ /\ Repair(h) = SubSeq(h, 1, Len(h) - 1)
            /\ Len(h) > 1
            /\ h[Len(h)].role = "assistant"
<1> DEFINE n == Len(h)
<1>0. h \in Seq(Message) /\ n \in Nat /\ DOMAIN h = 1 .. n
  BY DEF WellFormed
<1>1. CASE \A i \in DOMAIN h : ~Dangling(h, i)
  <2>1. Repair(h) = h
    BY <1>1 DEF Repair
  <2>2. ASSUME h # <<>>
        PROVE  h[n].uses = {}
    <3>1. n \in 1 .. n
      BY <1>0, <2>2, EmptySeq
    <3> QED
      BY <1>0, <1>1, <3>1, OnlyLastDangles
  <2> QED
    BY <2>1, <2>2
<1>2. CASE \E i \in DOMAIN h : Dangling(h, i)
  <2>1. n \in 1 .. n /\ h[n].uses # {}
    BY <1>0, <1>2, OnlyLastDangles
  <2>2. h[n].role = "assistant" /\ n > 1
    BY <1>0, <2>1, MessageRoles DEF WellFormedAt
  <2> DEFINE g == SubSeq(h, 1, n - 1)
             K == {i \in DOMAIN h : ~Dangling(h, i)}
  <2>3. n - 1 \in 0 .. Len(h) /\ \A i \in 1 .. Len(h) : i \in K <=> i <= n - 1
    BY <1>0, <2>1, OnlyLastDangles
  <2>4. WithoutDangling(h) = g
    <3>1. Keep(h, K) = SubSeq(h, 1, n - 1)
      <4> HIDE DEF K
      <4> QED
        BY <1>0, <2>3, KeepPrefix
    <3> QED
      BY <3>1 DEF WithoutDangling
  <2>5. WellFormed(g)
    BY <2>3, PrefixWell
  <2> HIDE DEF g, K
  <2>6. WithoutEmpty(g) = g
    <3>1. g \in Seq(Message) /\ \A i \in 1 .. Len(g) : ~IsEmptyMessage(g[i])
      BY <2>5 DEF WellFormed, WellFormedAt
    <3>2. 1 .. Len(g) \subseteq {i \in DOMAIN g : ~IsEmptyMessage(g[i])}
      BY <3>1
    <3> QED
      BY <3>1, <3>2, KeepAll DEF WithoutEmpty
  <2>7. Repair(h) = g
    BY <1>2, <2>4, <2>5, <2>6, NoOrphans, NothingToMerge DEF Repair
  <2> QED
    BY <2>2, <2>7 DEF g
<1> QED
  BY <1>1, <1>2

(***************************************************************************)
(* What a turn writes                                                      *)
(***************************************************************************)
ResultsIn(h) == UNION {m.results : m \in ToSet(h)}

LEMMA PrefixWords ==
  ASSUME NEW h, WellFormed(h), Len(h) > 1, h[Len(h)].role = "assistant",
         NEW g, g = SubSeq(h, 1, Len(h) - 1)
  PROVE  /\ WellFormed(g) /\ EndsWith(g, "user")
         /\ TurnsRemembered(g) = TurnsRemembered(h)
         /\ ResultsIn(g) \subseteq ResultsIn(h)
<1> DEFINE n == Len(h)
<1>n. n \in Nat /\ n > 1
  BY DEF WellFormed
<1>0. DOMAIN h = 1 .. n /\ n - 1 \in 0 .. n /\ n - 1 \in 1 .. n /\ n \in 1 .. n
  BY <1>n DEF WellFormed
<1>1. WellFormed(g) /\ Len(g) = n - 1 /\ \A i \in 1 .. n - 1 : g[i] = h[i]
  BY <1>0, PrefixWell
<1>2. DOMAIN g = 1 .. n - 1
  BY <1>1 DEF WellFormed
<1>3. g[n - 1] = h[n - 1] /\ h[n - 1].role = "user"
  BY <1>0, <1>1, MessageRoles DEF WellFormedAt
<1>4. EndsWith(g, "user")
  <2>1. g # <<>>
    <3>1. Len(g) # 0
      <4> HIDE DEF n
      <4> QED
        BY <1>n, <1>1
    <3> QED
      BY <1>1, <3>1, NotEmpty
  <2> QED
    BY <1>1, <1>3, <2>1 DEF EndsWith
<1>5. ToSet(h) = ToSet(g) \cup {h[n]}
  <2> HIDE DEF n
  <2>1. \A i \in 1 .. n : i \in 1 .. n - 1 \/ i = n
    BY <1>n
  <2>2. \A i \in 1 .. n - 1 : i \in 1 .. n
    BY <1>n
  <2> QED
    BY <1>0, <1>1, <1>2, <2>1, <2>2 DEF ToSet
<1>6. TurnsRemembered(g) = TurnsRemembered(h)
  BY <1>5 DEF TurnsRemembered
<1>7. ResultsIn(g) \subseteq ResultsIn(h)
  BY <1>5 DEF ResultsIn
<1> QED
  BY <1>1, <1>4, <1>6, <1>7

(* m may follow h.                                                         *)
Fits(h, m) ==
    /\ m \in Message
    /\ ~IsEmptyMessage(m)
    /\ m.role = "user" => m.uses = {}
    /\ m.role = "assistant" => m.results = {}
    /\ h = <<>> => m.role = "user" /\ m.results = {}
    /\ h # <<>> => m.role # h[Len(h)].role /\ m.results = h[Len(h)].uses

(* g is h and then m.                                                      *)
Extended(g, h, m) ==
    /\ WellFormed(g) /\ g # <<>> /\ g[Len(g)] = m
    /\ m.role = "user" => TurnsRemembered(g) = TurnsRemembered(h) \cup m.texts
    /\ m.role = "assistant" => TurnsRemembered(g) = TurnsRemembered(h)
    /\ ResultsIn(g) = ResultsIn(h) \cup m.results

LEMMA WellAppended ==
  ASSUME NEW h, WellFormed(h), NEW m, Fits(h, m), NEW g, g = Append(h, m)
  PROVE  Extended(g, h, m)
<1> DEFINE n == Len(h)
<1> USE DEF Fits
<1>0. h \in Seq(Message) /\ n \in Nat /\ DOMAIN h = 1 .. n /\ (n = 0 <=> h = <<>>)
  BY EmptySeq DEF WellFormed
<1>1. /\ g \in Seq(Message) /\ g # <<>> /\ Len(g) = n + 1 /\ DOMAIN g = 1 .. n + 1
      /\ g[n + 1] = m /\ \A i \in 1 .. n : g[i] = h[i]
  BY <1>0, AppendProperties
<1>2. ASSUME NEW i \in 1 .. n + 1
      PROVE  WellFormedAt(g, i)
  <2>1. CASE i \in 1 .. n
    <3>1. WellFormedAt(h, i) /\ g[i] = h[i] /\ (i # 1 => g[i - 1] = h[i - 1])
      BY <1>0, <1>1, <2>1, MessageRoles
    <3> QED
      BY <3>1 DEF WellFormedAt
  <2>2. CASE i = n + 1
    <3>1. CASE n = 0
      BY <1>0, <1>1, <2>2, <3>1 DEF WellFormedAt
    <3>2. CASE n # 0
      <4>1. g[n] = h[n] /\ g[i] = m /\ i # 1 /\ i - 1 = n
        <5> HIDE DEF n, Fits
        <5>1. n \in 1 .. n
          BY <1>0, <3>2
        <5> QED
          BY <1>0, <1>1, <2>2, <5>1
      <4>2. m.role # h[n].role /\ m.results = h[n].uses
        BY <1>0, <3>2
      <4> QED
        BY <4>1, <4>2 DEF WellFormedAt
    <3> QED
      BY <3>1, <3>2
  <2> QED
    BY <1>0, <2>1, <2>2
<1>3. ToSet(g) = ToSet(h) \cup {m}
  <2>1. \A i \in 1 .. n + 1 : i \in 1 .. n \/ i = n + 1
    BY <1>0
  <2> QED
    BY <1>0, <1>1, <2>1 DEF ToSet
<1>4. WellFormed(g) /\ g[Len(g)] = m
  BY <1>1, <1>2 DEF WellFormed
<1>5. /\ m.role = "user" => TurnsRemembered(g) = TurnsRemembered(h) \cup m.texts
      /\ m.role = "assistant" => TurnsRemembered(g) = TurnsRemembered(h)
      /\ ResultsIn(g) = ResultsIn(h) \cup m.results
  BY <1>3 DEF TurnsRemembered, ResultsIn
<1> QED
  BY <1>1, <1>4, <1>5 DEF Extended

(* The assistant's message, and the answers to its tools.                  *)
Spoke(g, h, T, U) ==
    /\ T \subseteq Requests
    /\ U \subseteq Use
    /\ T # {} \/ U # {}
    /\ g = Append(h, AssistantMessage(T, U))

LEMMA AssistantAppended ==
  ASSUME NEW h, WellFormed(h), EndsWith(h, "user"), NEW T, NEW U, NEW g, Spoke(g, h, T, U)
  PROVE  /\ WellFormed(g) /\ EndsWith(g, "assistant") /\ g[Len(g)].uses = U
         /\ TurnsRemembered(g) = TurnsRemembered(h)
         /\ ResultsIn(g) = ResultsIn(h)
<1> DEFINE m == AssistantMessage(T, U)
<1>1. /\ m \in Message /\ m.role = "assistant" /\ m.uses = U /\ m.results = {}
      /\ ~IsEmptyMessage(m)
  BY DEF Spoke, AssistantMessage, Message, IsEmptyMessage
<1> HIDE DEF m
<1>2. h[Len(h)].uses = {}
  <2>1. Len(h) \in 1 .. Len(h)
    BY NotEmpty DEF EndsWith
  <2> QED
    BY <2>1, MessageRoles DEF EndsWith, WellFormedAt
<1>3. g = Append(h, m)
  BY DEF Spoke, m
<1>5. Fits(h, m)
  BY <1>1, <1>2 DEF Fits, EndsWith
<1>4. Extended(g, h, m)
  BY <1>3, <1>5, WellAppended
<1> QED
  BY <1>1, <1>4 DEF EndsWith, Extended

LEMMA ResultsAppended ==
  ASSUME NEW h, WellFormed(h), EndsWith(h, "assistant"),
         NEW U \in SUBSET Use, U # {}, h[Len(h)].uses = U,
         NEW g, g = Append(h, ToolResults(U))
  PROVE  /\ WellFormed(g) /\ EndsWith(g, "user")
         /\ TurnsRemembered(g) = TurnsRemembered(h)
         /\ ResultsIn(g) = ResultsIn(h) \cup U
<1> DEFINE m == ToolResults(U)
<1>1. /\ m \in Message /\ m.role = "user" /\ m.texts = {} /\ m.uses = {} /\ m.results = U
      /\ ~IsEmptyMessage(m)
  BY DEF ToolResults, Message, IsEmptyMessage
<1> HIDE DEF m
<1>2. g = Append(h, m)
  BY DEF m
<1>3. Extended(g, h, m)
  <2>1. Fits(h, m)
    BY <1>1 DEF Fits, EndsWith
  <2> QED
    BY <1>2, <2>1, WellAppended
<1> QED
  BY <1>1, <1>3 DEF EndsWith, Extended

(* The customer's message, after the repair: a history that is complete.   *)
LEMMA UserTextAdded ==
  ASSUME NEW h, WellFormed(h), EndsWith(h, "user") \/ (h # <<>> => h[Len(h)].uses = {}),
         NEW r \in Requests, NEW g, g = AddUserText(h, r)
  PROVE  /\ WellFormed(g) /\ EndsWith(g, "user")
         /\ TurnsRemembered(g) = TurnsRemembered(h) \cup {r}
         /\ ResultsIn(g) = ResultsIn(h)
<1> DEFINE n == Len(h)
<1>0. h \in Seq(Message) /\ n \in Nat /\ DOMAIN h = 1 .. n /\ (h # <<>> => n \in 1 .. n)
  BY EmptySeq DEF WellFormed
<1>1. CASE EndsWith(h, "user")
  <2> DEFINE f == SubSeq(h, 1, n - 1)
             m == JoinMessages(h[n], UserText(r))
  <2>0. n \in 1 .. n /\ n - 1 \in 0 .. n /\ h[n].role = "user" /\ h[n] \in Message
        /\ WellFormedAt(h, n)
    BY <1>0, <1>1, MessageRoles DEF EndsWith
  <2>1. g = Append(f, m)
    BY <1>0, <1>1, <2>0 DEF AddUserText, EndsWith, Last, Front
  <2>2. /\ m \in Message /\ m.role = "user" /\ m.texts = h[n].texts \cup {r}
        /\ m.uses = {} /\ m.results = h[n].results /\ ~IsEmptyMessage(m)
    <3>1. h[n].uses = {}
      BY <2>0 DEF WellFormedAt
    <3> QED
      BY <2>0, <3>1 DEF JoinMessages, UserText, Message, IsEmptyMessage
  <2>3. WellFormed(f) /\ Len(f) = n - 1 /\ \A i \in 1 .. n - 1 : f[i] = h[i]
    BY <2>0, PrefixWell
  <2>4. /\ f = <<>> => m.results = {}
        /\ f # <<>> => m.role # f[Len(f)].role /\ m.results = f[Len(f)].uses
    <3>1. f = <<>> <=> n = 1
      <4>1. Len(f) = 0 <=> n = 1
        <5> HIDE DEF n, f
        <5> QED
          BY <1>0, <2>0, <2>3
      <4>2. f # <<>> <=> Len(f) # 0
        <5> HIDE DEF f
        <5> QED
          BY <2>3, NotEmpty
      <4> QED
        BY <4>1, <4>2
    <3>2. n # 1 => n - 1 \in 1 .. n - 1 /\ f[n - 1] = h[n - 1]
      BY <2>0, <2>3
    <3> HIDE DEF f, m
    <3> QED
      BY <2>0, <2>2, <2>3, <3>1, <3>2 DEF WellFormedAt
  <2> HIDE DEF f, m
  <2>5. Extended(g, f, m)
    <3>1. Fits(f, m)
      BY <2>2, <2>4 DEF Fits
    <3> QED
      BY <2>1, <2>3, <3>1, WellAppended
  <2>6. ToSet(h) = ToSet(f) \cup {h[n]}
    <3>1. DOMAIN f = 1 .. n - 1
      BY <2>3 DEF WellFormed
    <3> QED
      BY <1>0, <2>0, <2>3, <3>1 DEF ToSet
  <2>7. /\ TurnsRemembered(h) = TurnsRemembered(f) \cup h[n].texts
        /\ ResultsIn(h) = ResultsIn(f) \cup h[n].results
    BY <2>0, <2>6 DEF TurnsRemembered, ResultsIn
  <2>8. EndsWith(g, "user")
    BY <2>2, <2>5 DEF EndsWith, Extended
  <2> QED
    BY <2>2, <2>5, <2>7, <2>8 DEF Extended
<1>2. CASE ~EndsWith(h, "user")
  <2> DEFINE m == UserText(r)
  <2>1. g = Append(h, m)
    BY <1>2 DEF AddUserText, EndsWith, Last
  <2>2. /\ m \in Message /\ m.role = "user" /\ m.texts = {r} /\ m.uses = {}
        /\ m.results = {} /\ ~IsEmptyMessage(m)
    BY DEF UserText, Message, IsEmptyMessage
  <2> HIDE DEF m
  <2>3. Extended(g, h, m)
    <3>1. Fits(h, m)
      <4>1. h # <<>> => h[Len(h)].role = "assistant"
        BY <1>0, <1>2, MessageRoles DEF EndsWith
      <4> QED
        BY <1>2, <2>2, <4>1 DEF Fits, EndsWith
    <3> QED
      BY <2>1, <3>1, WellAppended
  <2> QED
    BY <2>2, <2>3 DEF EndsWith, Extended
<1> QED
  BY <1>1, <1>2

LEMMA TurnStarts ==
  ASSUME NEW h, WellFormed(h), NEW r \in Requests
  PROVE  /\ WellFormed(Repair(h))
         /\ TurnsRemembered(Repair(h)) = TurnsRemembered(h)
         /\ ResultsIn(Repair(h)) \subseteq ResultsIn(h)
         /\ WellFormed(AddUserText(Repair(h), r))
         /\ EndsWith(AddUserText(Repair(h), r), "user")
         /\ TurnsRemembered(AddUserText(Repair(h), r)) = TurnsRemembered(h) \cup {r}
         /\ ResultsIn(AddUserText(Repair(h), r)) = ResultsIn(Repair(h))
<1>1. /\ WellFormed(Repair(h))
      /\ TurnsRemembered(Repair(h)) = TurnsRemembered(h)
      /\ ResultsIn(Repair(h)) \subseteq ResultsIn(h)
      /\ \/ EndsWith(Repair(h), "user")
         \/ Repair(h) # <<>> => Repair(h)[Len(Repair(h))].uses = {}
  <2>1. CASE Repair(h) = h /\ (h # <<>> => h[Len(h)].uses = {})
    BY <2>1
  <2>2. CASE Repair(h) = SubSeq(h, 1, Len(h) - 1) /\ Len(h) > 1
             /\ h[Len(h)].role = "assistant"
    BY <2>2, PrefixWords
  <2> QED
    BY <2>1, <2>2, RepairDropsLast
<1> QED
  BY <1>1, UserTextAdded

(* A history that ends with the customer's side is what Converse accepts.  *)
LEMMA WellFormedIsAccepted ==
  ASSUME NEW h, WellFormed(h), EndsWith(h, "user")
  PROVE  ConverseAccepts(h)
<1> DEFINE n == Len(h)
<1>0. n \in Nat /\ n \in 1 .. n /\ DOMAIN h = 1 .. n /\ 1 \in 1 .. n
  BY EmptySeq DEF WellFormed, EndsWith
<1>1. h # <<>> /\ Last(h).role = "user" /\ h[1].role = "user"
  BY <1>0, MessageRoles DEF EndsWith, Last, WellFormedAt
<1>2. \A m \in ToSet(h) : ~IsEmptyMessage(m)
  BY <1>0, MessageRoles DEF ToSet, WellFormedAt
<1>3. Alternates(h)
  <2> SUFFICES ASSUME NEW i \in 1 .. n - 1
               PROVE  h[i].role # h[i + 1].role
    BY DEF Alternates
  <2>1. i + 1 \in 1 .. n /\ i + 1 # 1 /\ (i + 1) - 1 = i
    BY <1>0
  <2> QED
    BY <2>1, MessageRoles DEF WellFormedAt
<1>4. EveryUseAnswered(h)
  <2>1. h[n].uses = {}
    BY <1>0, MessageRoles DEF EndsWith, WellFormedAt
  <2> QED
    BY <1>0, <2>1, OnlyLastDangles DEF EveryUseAnswered
<1>5. EveryResultAsked(h)
  BY <1>0, MessageRoles DEF EveryResultAsked, WellFormedAt
<1> QED
  BY <1>1, <1>2, <1>3, <1>4, <1>5 DEF ConverseAccepts

(***************************************************************************)
(* The history between and during the turns                                *)
(***************************************************************************)
Replied == {r \in Requests : outcome[r] = "replied"}

(* The snapshot is what a failed turn leaves: complete, with the words of  *)
(* the turns answered so far.  The working history has this turn's too.    *)
HistoryAt(r) ==
    /\ outcome[r] = "replied" => pc[r] = "done"
    /\ Working(r) =>
          /\ WellFormed(snapshot[r])
          /\ TurnsRemembered(snapshot[r]) = Replied
          /\ TurnsRemembered(history) = Replied \cup {r}
    /\ pc[r] = "converse" => EndsWith(history, "user")
    /\ Dispatching(r) =>
          /\ EndsWith(history, "assistant")
          /\ history[Len(history)].uses = UseSet(r, turn[r].uses)

(* snapshot stays a function of the requests, whose values are known only  *)
(* while a turn works.                                                     *)
SnapshotsKept == snapshot = [r \in Requests |-> snapshot[r]]

HistoryInv ==
    /\ SnapshotsKept
    /\ WellFormed(history)
    /\ \A r \in Requests : HistoryAt(r)
    /\ (\A r \in Requests : ~Working(r)) => TurnsRemembered(history) = Replied

LEMMA UseSetType ==
  ASSUME CoreInv, NEW r \in Requests, NEW plan \in Seq(Tools)
  PROVE  /\ UseSet(r, plan) \subseteq Use
         /\ Len(plan) # 0 => UseSet(r, plan) # {}
<1>1. turn[r].round \in Nat
  BY DEF CoreInv, TypeOK, TurnLocals
<1>2. DOMAIN plan = 1 .. Len(plan) /\ Len(plan) \in Nat
  OBVIOUS
<1>3. \A i \in DOMAIN plan : i \in Nat /\ plan[i] \in Tools
  BY <1>2
<1>4. UseSet(r, plan) \subseteq Use
  BY <1>1, <1>3 DEF UseSet, ToolUseOf, Use
<1>5. ASSUME Len(plan) # 0
      PROVE  UseSet(r, plan) # {}
  <2>1. 1 \in DOMAIN plan
    BY <1>2, <1>5
  <2> QED
    BY <2>1 DEF UseSet
<1> QED
  BY <1>4, <1>5

LEMMA SnapshotStep ==
  ASSUME SnapshotsKept, NEW r \in Requests, TurnStep(r)
  PROVE  SnapshotsKept'
<1>1. snapshot' = snapshot \/ \E v : snapshot' = [snapshot EXCEPT ![r] = v]
  BY DEF TurnStep, BeginTurn, RejectTurn, SessionReady, StartBody, SessionFailed,
     ModelReplies, ModelCallsTools, ModelFails, CallNeedsCard, CallAnswered, CardRead,
     AnswerUse, NextUse, NextRound, ExhaustRounds, CallRetried, CallLost, CallBroken,
     CallTerminated, RetryTerminated, CallRefused, RefreshClosed, RefreshSwallows, Reopened,
     ReopenFailed, CardFails, BudgetExpires, FailAndEvict, EvictClosed, Cancel,
     EvictCancelled, Fail, RestoreHistory, historyVars
<1> QED
  BY <1>1 DEF SnapshotsKept

LEMMA ResultsType ==
  ASSUME NEW h, WellFormed(h), NEW u \in ResultsIn(h)
  PROVE  u \in Use
<1>1. h \in Seq(Message) /\ DOMAIN h = 1 .. Len(h)
  BY DEF WellFormed
<1>2. PICK i \in DOMAIN h : u \in h[i].results
  BY DEF ResultsIn, ToSet
<1>3. h[i] \in Message
  BY <1>1
<1> QED
  BY <1>2, <1>3 DEF Message

(* A step of r that is not a rejection: no other turn is running, so that  *)
(* the history is r's business alone.                                      *)
LEMMA HistoryOfOthers ==
  ASSUME CoreInv, HistoryInv, NEW r \in Requests, TurnStep(r), ~RejectTurn(r),
         WellFormed(history'), HistoryAt(r)',
         ~Working(r)' => TurnsRemembered(history') = Replied'
  PROVE  HistoryInv'
<1>1. ASSUME NEW q \in Requests \ {r}
      PROVE  HistoryAt(q)'
  <2>1. ~InTurn(q)
    BY LockHeld
  <2>2. pc'[q] = pc[q] /\ outcome'[q] = outcome[q]
    BY FrameStep DEF Frame, CoreInv
  <2>3. HistoryAt(q)
    BY DEF HistoryInv
  <2> QED
    BY <2>1, <2>2, <2>3 DEF HistoryAt, InTurn, Working, Dispatching
<1> QED
  BY <1>1, SnapshotStep DEF HistoryInv

LEMMA RepliedAfter ==
  ASSUME CoreInv, HistoryInv, NEW r \in Requests, TurnStep(r), pc[r] # "done"
  PROVE  /\ outcome'[r] = "replied" => Replied' = Replied \cup {r}
         /\ outcome'[r] # "replied" => Replied' = Replied
<1>1. outcome[r] # "replied"
  BY DEF HistoryInv, HistoryAt
<1>2. \A q \in Requests \ {r} : outcome'[q] = outcome[q]
  BY FrameStep DEF Frame, CoreInv
<1> QED
  BY <1>1, <1>2 DEF Replied

(* Before its body and after its end the turn does not touch the history.  *)
LEMMA HistoryAtRest ==
  ASSUME CoreInv, HistoryInv, NEW r \in Requests, TurnStep(r), ~RejectTurn(r),
         pc[r] \in {"new", "get", "evict"}, ~Working(r)', history' = history,
         outcome'[r] # "replied"
  PROVE  HistoryInv'
<1>1. \A q \in Requests : ~Working(q)
  <2> SUFFICES ASSUME NEW q \in Requests, q # r
               PROVE  ~Working(q)
    BY DEF Working, Dispatching
  <2>1. ~InTurn(q)
    BY LockHeld
  <2> QED
    BY <2>1 DEF InTurn, Working, Dispatching
<1>2. Replied' = Replied
  BY RepliedAfter
<1>3. HistoryAt(r)'
  BY DEF HistoryAt, Working
<1> QED
  BY <1>1, <1>2, <1>3, HistoryOfOthers DEF HistoryInv

(* A failing turn restores the snapshot.                                   *)
LEMMA HistoryRestored ==
  ASSUME CoreInv, HistoryInv, NEW r \in Requests, TurnStep(r), Working(r), ~Working(r)',
         history' = snapshot[r], outcome'[r] # "replied"
  PROVE  HistoryInv'
<1>1. ~RejectTurn(r) /\ pc[r] # "done"
  BY DEF RejectTurn, Working, Dispatching
<1>2. Replied' = Replied
  BY <1>1, RepliedAfter
<1>3. HistoryAt(r)'
  BY DEF HistoryAt, Working
<1>4. WellFormed(snapshot[r]) /\ TurnsRemembered(snapshot[r]) = Replied
  BY DEF HistoryInv, HistoryAt
<1> QED
  BY <1>1, <1>2, <1>3, <1>4, HistoryOfOthers

(* Between two messages of the turn its toolUses stay the same.            *)
LEMMA HistoryKept ==
  ASSUME CoreInv, HistoryInv, NEW r \in Requests, TurnStep(r), Dispatching(r),
         Dispatching(r)', UNCHANGED <<history, snapshot, outcome>>,
         turn'[r].round = turn[r].round, turn'[r].uses = turn[r].uses
  PROVE  HistoryInv'
<1>1. ~RejectTurn(r) /\ Working(r) /\ Working(r)' /\ pc[r] # "converse" /\ pc'[r] # "converse"
  BY DEF RejectTurn, Working, Dispatching
<1>2. Replied' = Replied
  BY DEF Replied
<1>3. UseSet(r, turn[r].uses)' = UseSet(r, turn[r].uses)
  BY DEF UseSet, ToolUseOf
<1>4. HistoryAt(r) /\ WellFormed(history)
  BY DEF HistoryInv
<1>5. outcome'[r] # "replied"
  BY <1>4 DEF HistoryAt, Dispatching
<1>6. HistoryAt(r)'
  BY <1>1, <1>2, <1>3, <1>4, <1>5 DEF HistoryAt
<1> QED
  BY <1>1, <1>4, <1>6, HistoryOfOthers

LEMMA HistoryAnswer ==
  ASSUME CoreInv, HistoryInv, NEW r \in Requests, TurnStep(r), Dispatching(r),
         NEW card \in Cards, AnswerUse(r, card)
  PROVE  HistoryInv'
<1>0. /\ pc = [q \in Requests |-> pc[q]] /\ turn = [q \in Requests |-> turn[q]]
      /\ outcome = [q \in Requests |-> outcome[q]]
  BY DEF CoreInv, TypeOK
<1>1. /\ turn[r] \in TurnLocals /\ turn[r].uses \in Seq(Tools) /\ turn[r].pos \in Nat
      /\ turn[r].pos \in 1 .. Len(turn[r].uses)
  BY DEF CoreInv, TypeOK, TurnLocals, Control, ControlAt
<1>2. HistoryAt(r) /\ WellFormed(history) /\ Working(r) /\ ~RejectTurn(r)
  BY DEF HistoryInv, Working, Dispatching, RejectTurn
<1>3. CASE NextUse(r, card)
  <2> DEFINE l == BeginUse(turn[r], turn[r].uses, turn[r].pos + 1, card)
  <2>0. turn[r].pos + 1 \in Nat
    BY <1>1
  <2>1. l.round = turn[r].round /\ l.uses = turn[r].uses
    BY <1>1, <2>0, BeginUseType
  <2>2. turn'[r] = l /\ pc'[r] = "call" /\ UNCHANGED <<history, snapshot, outcome>>
    BY <1>0, <1>3 DEF NextUse, Transition, historyVars
  <2> HIDE DEF l
  <2> QED
    BY <2>1, <2>2, HistoryKept DEF Dispatching
<1>4. CASE NextRound(r, card)
  <2> DEFINE U == UseSet(r, turn[r].uses)
  <2>1. /\ history' = Append(history, ToolResults(U)) /\ pc'[r] = "converse"
        /\ UNCHANGED <<outcome, snapshot>>
    BY <1>0, <1>4 DEF NextRound, Transition
  <2>2. U \in SUBSET Use /\ U # {}
    BY <1>1, UseSetType
  <2>3. EndsWith(history, "assistant") /\ history[Len(history)].uses = U
    BY <1>2 DEF HistoryAt
  <2> HIDE DEF U
  <2>4. /\ WellFormed(history') /\ EndsWith(history', "user")
        /\ TurnsRemembered(history') = TurnsRemembered(history)
    BY <1>2, <2>1, <2>2, <2>3, ResultsAppended
  <2>5. Replied' = Replied
    BY <2>1 DEF Replied
  <2>6. outcome'[r] # "replied"
    BY <1>2, <2>1 DEF HistoryAt, Working, Dispatching
  <2>7. HistoryAt(r)' /\ Working(r)'
    BY <1>2, <2>1, <2>4, <2>5, <2>6 DEF HistoryAt, Working, Dispatching
  <2> QED
    BY <1>2, <2>4, <2>7, HistoryOfOthers
<1>5. CASE ExhaustRounds(r)
  BY <1>0, <1>2, <1>5, HistoryRestored
  DEF ExhaustRounds, Fail, Finish, RestoreHistory, Transition, Working, Dispatching
<1> QED
  BY <1>3, <1>4, <1>5 DEF AnswerUse

LEMMA HistoryStep ==
  ASSUME CoreInv, HistoryInv, NEW r \in Requests, TurnStep(r)
  PROVE  HistoryInv'
<1>b. /\ pc = [q \in Requests |-> pc[q]] /\ turn = [q \in Requests |-> turn[q]]
      /\ outcome = [q \in Requests |-> outcome[q]]
  BY DEF CoreInv, TypeOK
<1>t. turn[r] \in TurnLocals /\ turn[r].card \in Cards /\ session[r] \in Nat
  BY DEF CoreInv, TypeOK, TurnLocals
<1>h. HistoryAt(r) /\ WellFormed(history)
  BY DEF HistoryInv
<1>e. ASSUME ~RejectTurn(r), pc[r] \in {"new", "get", "evict"},
             pc'[r] \in {"new", "get", "evict", "done"}, history' = history,
             outcome'[r] # "replied"
      PROVE  HistoryInv'
  BY <1>e, HistoryAtRest DEF Working, Dispatching
<1>f. ASSUME pc[r] \in {"converse", "call", "refresh", "reopen", "card"},
             pc'[r] \in {"evict", "done"}, history' = snapshot[r], outcome'[r] # "replied"
      PROVE  HistoryInv'
  BY <1>f, HistoryRestored DEF Working, Dispatching
<1>k. ASSUME pc[r] \in {"call", "refresh", "reopen", "card"},
             pc'[r] \in {"call", "refresh", "reopen", "card"},
             UNCHANGED <<history, snapshot, outcome>>, SameUseLocals(turn'[r], turn[r])
      PROVE  HistoryInv'
  BY <1>k, HistoryKept DEF Dispatching, SameUseLocals
<1>1. CASE BeginTurn(r)
  BY <1>b, <1>e, <1>h, <1>1 DEF BeginTurn, RejectTurn, Transition, HistoryAt, historyVars
<1>2. CASE RejectTurn(r)
  <2>1. /\ pc[r] = "new" /\ pc'[r] = "done" /\ outcome'[r] = "rejected"
        /\ UNCHANGED <<turn, history, snapshot>>
    BY <1>b, <1>2 DEF RejectTurn, Transition, historyVars
  <2>2. Replied' = Replied
    BY <2>1, RepliedAfter
  <2>3. \A q \in Requests : (Working(q)' <=> Working(q)) /\ (Dispatching(q)' <=> Dispatching(q))
    BY <2>1, FrameStep DEF CoreInv, Frame, Working, Dispatching
  <2>4. ASSUME NEW q \in Requests
        PROVE  HistoryAt(q)'
    <3>1. CASE q = r
      BY <2>1, <3>1 DEF HistoryAt, Working, Dispatching
    <3>2. CASE q # r
      <4>1. pc'[q] = pc[q] /\ outcome'[q] = outcome[q] /\ HistoryAt(q)
        BY <3>2, FrameStep DEF CoreInv, Frame, HistoryInv
      <4>2. UseSet(q, turn[q].uses)' = UseSet(q, turn[q].uses)
        BY <2>1 DEF UseSet, ToolUseOf
      <4> QED
        BY <2>1, <2>2, <2>3, <4>1, <4>2 DEF HistoryAt
    <3> QED
      BY <3>1, <3>2
  <2> QED
    BY <2>1, <2>2, <2>3, <2>4, SnapshotStep DEF HistoryInv
<1>3. CASE SessionReady(r)
  <2>1. /\ pc[r] = "get" /\ pc'[r] = "converse" /\ outcome' = outcome /\ ~RejectTurn(r)
        /\ snapshot' = [snapshot EXCEPT ![r] = Repair(history)]
        /\ history' = AddUserText(Repair(history), r)
    BY <1>b, <1>3 DEF SessionReady, StartBody, Transition, RejectTurn
  <2>2. outcome'[r] # "replied" /\ Replied' = Replied
    BY <1>h, <2>1 DEF HistoryAt, Replied
  <2>3. TurnsRemembered(history) = Replied
    <3>1. \A q \in Requests : ~Working(q)
      <4> SUFFICES ASSUME NEW q \in Requests, q # r
                   PROVE  ~Working(q)
        BY <2>1 DEF Working, Dispatching
      <4>1. ~InTurn(q)
        BY <2>1, LockHeld
      <4> QED
        BY <4>1 DEF InTurn, Working, Dispatching
    <3> QED
      BY <3>1 DEF HistoryInv
  <2>4. /\ WellFormed(Repair(history)) /\ TurnsRemembered(Repair(history)) = Replied
        /\ WellFormed(history') /\ EndsWith(history', "user")
        /\ TurnsRemembered(history') = Replied \cup {r}
    BY <1>h, <2>1, <2>3, TurnStarts
  <2>5. snapshot'[r] = Repair(history)
    BY <2>1 DEF HistoryInv, SnapshotsKept
  <2>6. HistoryAt(r)' /\ Working(r)'
    BY <2>1, <2>2, <2>4, <2>5 DEF HistoryAt, Working, Dispatching
  <2> QED
    BY <2>1, <2>4, <2>6, HistoryOfOthers
<1>4. CASE SessionFailed(r)
  BY <1>b, <1>e, <1>4 DEF SessionFailed, Finish, RejectTurn, Transition, historyVars
<1>5. CASE ModelReplies(r)
  <2>1. PICK cutOff \in SUBSET {ToolUseOf(r, 1, tool) : tool \in Tools} :
          history' = Append(history, AssistantMessage({r}, cutOff))
    BY <1>5 DEF ModelReplies
  <2>2. /\ pc[r] = "converse" /\ pc'[r] = "done" /\ outcome'[r] = "replied"
        /\ ~RejectTurn(r) /\ Working(r) /\ ~Working(r)'
    BY <1>b, <1>5 DEF ModelReplies, Finish, Transition, RejectTurn, Working, Dispatching
  <2>3. EndsWith(history, "user") /\ TurnsRemembered(history) = Replied \cup {r}
    BY <1>h, <2>2 DEF HistoryAt
  <2>4. cutOff \in SUBSET Use
    <3>1. turn[r].round \in Nat
      BY <1>t DEF TurnLocals
    <3> QED
      BY <2>1, <3>1 DEF ToolUseOf, Use
  <2>5. WellFormed(history') /\ TurnsRemembered(history') = TurnsRemembered(history)
    <3>1. Spoke(history', history, {r}, cutOff)
      BY <2>1, <2>4 DEF Spoke
    <3> QED
      BY <1>h, <2>3, <3>1, AssistantAppended
  <2>6. Replied' = Replied \cup {r}
    BY <2>2, RepliedAfter
  <2>7. HistoryAt(r)'
    BY <2>2 DEF HistoryAt, Working
  <2> QED
    BY <2>2, <2>3, <2>5, <2>6, <2>7, HistoryOfOthers
<1>6. CASE ModelCallsTools(r)
  <2>1. PICK plan \in ToolPlans :
          /\ turn' = [turn EXCEPT ![r] = BeginUse(@, plan, 1, @.card)]
          /\ history' = Append(history, AssistantMessage({}, UseSet(r, plan)))
    BY <1>6 DEF ModelCallsTools
  <2> DEFINE l == BeginUse(turn[r], plan, 1, turn[r].card)
             U == UseSet(r, plan)
  <2>2. plan \in Seq(Tools) /\ Len(plan) # 0 /\ 1 \in Nat
    <3>1. PICK n \in 1 .. MaxUses : plan \in [1 .. n -> Tools]
      BY DEF ToolPlans
    <3>2. n \in Nat /\ n # 0
      BY <3>1, BoundsAssumption
    <3> QED
      BY <3>1, <3>2
  <2>3. l.round = turn[r].round /\ l.uses = plan
    BY <1>t, <2>2, BeginUseType
  <2>4. /\ pc[r] = "converse" /\ pc'[r] = "call" /\ turn'[r] = l
        /\ UNCHANGED <<outcome, snapshot>> /\ ~RejectTurn(r)
    BY <1>b, <1>6, <2>1 DEF ModelCallsTools, Transition, RejectTurn
  <2>5. U \in SUBSET Use /\ U # {}
    BY <2>2, UseSetType
  <2>6. UseSet(r, turn[r].uses)' = U
    <3> HIDE DEF l
    <3> QED
      BY <2>3, <2>4 DEF UseSet, ToolUseOf
  <2> HIDE DEF l, U
  <2>7. EndsWith(history, "user") /\ Working(r)
    BY <1>h, <2>4 DEF HistoryAt, Working
  <2>8. /\ WellFormed(history') /\ EndsWith(history', "assistant")
        /\ history'[Len(history')].uses = U
        /\ TurnsRemembered(history') = TurnsRemembered(history)
    <3>1. history' = Append(history, AssistantMessage({}, U))
      BY <2>1 DEF U
    <3>2. Spoke(history', history, {}, U)
      BY <2>5, <3>1 DEF Spoke
    <3> QED
      BY <1>h, <2>7, <3>2, AssistantAppended
  <2>9. Replied' = Replied /\ outcome'[r] # "replied"
    BY <1>h, <2>4 DEF Replied, HistoryAt
  <2>10. HistoryAt(r)' /\ Working(r)'
    BY <1>h, <2>4, <2>6, <2>7, <2>8, <2>9 DEF HistoryAt, Working, Dispatching
  <2> QED
    BY <2>4, <2>8, <2>10, HistoryOfOthers
<1>7. CASE ModelFails(r)
  BY <1>b, <1>f, <1>7 DEF ModelFails, Fail, RestoreHistory, Finish, Transition
<1>8. CASE CallNeedsCard(r)
  BY <1>b, <1>k, <1>8 DEF CallNeedsCard, Transition, SameUseLocals, historyVars
<1>9. CASE CallAnswered(r)
  BY <1>t, <1>9, HistoryAnswer DEF CallAnswered, Dispatching
<1>10. CASE CardRead(r)
  BY <1>10, CardValues, HistoryAnswer DEF CardRead, Dispatching
<1>11. CASE CallRetried(r)
  <2>1. turn'[r] = BeginRetry(turn[r])
    BY <1>b, <1>11 DEF CallRetried
  <2>2. SameUseLocals(turn'[r], turn[r])
    BY <1>t, <2>1, UpdateType
  <2> QED
    BY <1>k, <1>11, <2>2 DEF CallRetried, historyVars
<1>12. CASE CallLost(r)
  BY <1>b, <1>f, <1>12 DEF CallLost, Fail, RestoreHistory, Finish, Transition
<1>13. CASE CallBroken(r)
  BY <1>b, <1>f, <1>13 DEF CallBroken, Fail, RestoreHistory, Finish, Transition
<1>14. CASE CallTerminated(r)
  <2>1. turn'[r] = Refused(turn[r], session[r])
    BY <1>b, <1>14 DEF CallTerminated
  <2>2. SameUseLocals(turn'[r], turn[r])
    BY <1>t, <2>1, UpdateType
  <2> QED
    BY <1>b, <1>k, <1>14, <2>2 DEF CallTerminated, CallRefused, Transition, historyVars
<1>15. CASE RetryTerminated(r)
  BY <1>b, <1>f, <1>15
  DEF RetryTerminated, CallRefused, Fail, RestoreHistory, Finish, Transition
<1>16. CASE RefreshClosed(r)
  BY <1>b, <1>k, <1>16
  DEF RefreshClosed, ReplaceOwner, Transition, SameUseLocals, historyVars
<1>17. CASE \E budget \in Budgets : RefreshSwallows(r, budget)
  <2>1. PICK budget \in Budgets : RefreshSwallows(r, budget)
    BY <1>17
  <2>2. turn'[r] = Spend(turn[r], budget)
    BY <1>b, <2>1 DEF RefreshSwallows
  <2>3. SameUseLocals(turn'[r], turn[r])
    <3>1. SameUseLocals(Spend(turn[r], budget), turn[r])
      BY <1>t, UpdateType
    <3> QED
      BY <2>2, <3>1
  <2> QED
    BY <1>b, <1>k, <2>1, <2>3 DEF RefreshSwallows, ReplaceOwner, Transition, historyVars
<1>18. CASE Reopened(r)
  <2>1. turn'[r] = BeginRetry(turn[r])
    BY <1>b, <1>18 DEF Reopened
  <2>2. SameUseLocals(turn'[r], turn[r])
    BY <1>t, <2>1, UpdateType
  <2> QED
    BY <1>b, <1>k, <1>18, <2>2 DEF Reopened, Transition, historyVars
<1>19. CASE ReopenFailed(r)
  BY <1>b, <1>f, <1>19 DEF ReopenFailed, Fail, RestoreHistory, Finish, Transition
<1>20. CASE CardFails(r)
  BY <1>b, <1>f, <1>20 DEF CardFails, Fail, RestoreHistory, Finish, Transition
<1>21. CASE BudgetExpires(r)
  BY <1>b, <1>f, <1>21 DEF BudgetExpires, FailAndEvict, RestoreHistory, Transition
<1>22. CASE EvictClosed(r)
  BY <1>b, <1>e, <1>h, <1>22
  DEF EvictClosed, RejectTurn, Transition, HistoryAt, historyVars
<1>23. CASE Cancel(r)
  <2>1. pc'[r] = "done" /\ outcome'[r] = "cancelled" /\ ~RejectTurn(r)
    BY <1>b, <1>23 DEF Cancel, Finish, Transition, RejectTurn
  <2>2. CASE pc[r] = "get"
    BY <1>e, <1>23, <2>1, <2>2 DEF Cancel, historyVars
  <2>3. CASE pc[r] # "get"
    BY <1>f, <1>23, <2>1, <2>3 DEF Cancel, RestoreHistory
  <2> QED
    BY <2>2, <2>3
<1>24. CASE EvictCancelled(r)
  BY <1>b, <1>e, <1>h, <1>24
  DEF EvictCancelled, RejectTurn, Transition, HistoryAt, historyVars
<1> QED
  BY <1>1, <1>2, <1>3, <1>4, <1>5, <1>6, <1>7, <1>8, <1>9, <1>10, <1>11, <1>12, <1>13,
     <1>14, <1>15, <1>16, <1>17, <1>18, <1>19, <1>20, <1>21, <1>22, <1>23, <1>24
  DEF TurnStep

LEMMA HistoryCorrect == Spec => []HistoryInv
<1>1. Init => HistoryInv
  <2> SUFFICES ASSUME Init PROVE HistoryInv
    OBVIOUS
  <2>1. history = <<>> /\ Replied = {} /\ \A r \in Requests : ~Working(r)
    BY DEF Init, Replied, Working, Dispatching
  <2>2. WellFormed(history)
    <3>1. <<>> \in Seq(Message) /\ Len(<<>>) = 0
      OBVIOUS
    <3> QED
      BY <2>1, <3>1 DEF WellFormed
  <2>3. TurnsRemembered(history) = {}
    <3>1. ToSet(history) = {}
      BY <2>1 DEF ToSet
    <3> QED
      BY <3>1 DEF TurnsRemembered
  <2>4. \A r \in Requests : HistoryAt(r)
    BY <2>1 DEF HistoryAt, Init, Working
  <2> QED
    BY <2>1, <2>2, <2>3, <2>4 DEF HistoryInv, SnapshotsKept, Init
<1>2. CoreInv /\ HistoryInv /\ [Next]_vars => HistoryInv'
  <2> SUFFICES ASSUME CoreInv, HistoryInv, [Next]_vars PROVE HistoryInv'
    OBVIOUS
  <2>1. ASSUME UNCHANGED <<pc, outcome, turn, history, snapshot>>
        PROVE  HistoryInv'
    BY <2>1
    DEF HistoryInv, SnapshotsKept, HistoryAt, Replied, Working, Dispatching, UseSet,
        ToolUseOf
  <2>2. CASE \E r \in Requests : TurnStep(r)
    BY <2>2, HistoryStep
  <2>3. CASE ~\E r \in Requests : TurnStep(r)
    BY <2>1, <2>3
    DEF Next, OwnerStep, OpenSucceeds, OwnerDies, RuntimeForgets, ServerExecutes,
        AllAnswered, vars, historyVars
  <2> QED
    BY <2>2, <2>3
<1> QED
  BY <1>1, <1>2, CoreCorrect, PTL DEF Spec

(* Every Converse call sends a history Bedrock accepts, whatever the turns *)
(* before it did to the history.                                           *)
THEOREM Accepted == Spec => []EveryRequestAccepted
<1>1. HistoryInv => EveryRequestAccepted
  BY WellFormedIsAccepted DEF HistoryInv, HistoryAt, EveryRequestAccepted
<1> QED
  BY <1>1, HistoryCorrect, PTL

(* Between turns the history holds the words of exactly the turns whose    *)
(* reply the model gave.                                                   *)
THEOREM Remembered == Spec => []OnlyRepliedTurnsRemembered
<1>1. HistoryInv => OnlyRepliedTurnsRemembered
  BY DEF HistoryInv, OnlyRepliedTurnsRemembered, Working, Dispatching, Replied
<1> QED
  BY <1>1, HistoryCorrect, PTL

(***************************************************************************)
(* What the history says was answered is settled                           *)
(***************************************************************************)
Settled(u) ==
    u.tool \notin IdempotentTools =>
        /\ \E a \in executed : SameUse(a, u)
        /\ \A a \in sent : ~SameUse(a, u)

(* The toolUses of the round that were answered so far.                    *)
AnsweredUpTo(r, n) ==
    \A i \in 1 .. Len(turn[r].uses) : i <= n => Settled(ToolUseOf(r, i, turn[r].uses[i]))

(* Results of this turn are of earlier rounds, so that nothing it sends is *)
(* an attempt of them; those of the snapshot are in the history too.       *)
SettledAt(r) ==
    /\ pc[r] \in {"new", "get"} => \A u \in ResultsIn(history) : u.turn # r
    /\ Working(r) =>
          /\ ResultsIn(snapshot[r]) \subseteq ResultsIn(history)
          /\ \A u \in ResultsIn(history) : u.turn = r => u.round < turn[r].round
    /\ Dispatching(r) => AnsweredUpTo(r, turn[r].pos - 1)
    /\ pc[r] = "card" => AnsweredUpTo(r, turn[r].pos)

SettledInv ==
    /\ \A u \in ResultsIn(history) : Settled(u)
    /\ \A r \in Requests : SettledAt(r)

TurnInv == CoreInv /\ WireInv /\ HistoryInv

(* A use stays settled unless an attempt of it is sent.                    *)
LEMMA SettledStays ==
  ASSUME NEW u, Settled(u), executed \subseteq executed',
         \A a \in sent' \ sent : ~SameUse(a, u)
  PROVE  Settled(u)'
BY DEF Settled

LEMMA SettledOfOthers ==
  ASSUME TurnInv, SettledInv, NEW r \in Requests, TurnStep(r), ~RejectTurn(r),
         SettledAt(r)', \A u \in ResultsIn(history') : Settled(u)',
         \A u \in ResultsIn(history') : u \in ResultsIn(history) \/ u.turn = r
  PROVE  SettledInv'
<1>1. ASSUME NEW q \in Requests \ {r}
      PROVE  SettledAt(q)'
  <2>1. ~InTurn(q)
    BY LockHeld DEF TurnInv
  <2>2. pc'[q] = pc[q]
    BY FrameStep DEF Frame, TurnInv, CoreInv
  <2>3. SettledAt(q)
    BY DEF SettledInv
  <2> QED
    BY <2>1, <2>2, <2>3 DEF SettledAt, InTurn, Working, Dispatching
<1> QED
  BY <1>1 DEF SettledInv

(* The turn is not at work after the step.                                 *)
LEMMA SettledAtRest ==
  ASSUME TurnInv, SettledInv, NEW r \in Requests, TurnStep(r), ~RejectTurn(r),
         pc'[r] \in {"get", "evict", "done"}, pc'[r] = "get" => pc[r] = "new",
         sent' \subseteq sent, executed' = executed,
         ResultsIn(history') \subseteq ResultsIn(history)
  PROVE  SettledInv'
<1>1. SettledAt(r)'
  BY DEF SettledInv, SettledAt, Working, Dispatching
<1>2. \A u \in ResultsIn(history') : Settled(u)'
  BY SettledStays DEF SettledInv
<1> QED
  BY <1>1, <1>2, SettledOfOthers

(* An attempt of r's current round settles nothing and unsettles nothing   *)
(* but its own position.                                                   *)
SendsAt(r, n) ==
    \A a \in sent' \ sent : a.turn = r /\ a.round = turn[r].round /\ a.pos = n

LEMMA SettledSending ==
  ASSUME TurnInv, SettledInv, NEW r \in Requests, Working(r), NEW n \in Nat, SendsAt(r, n),
         executed' = executed
  PROVE  \A u \in ResultsIn(history) : Settled(u)'
<1>r. turn[r].round \in Nat
  BY DEF TurnInv, CoreInv, TypeOK, TurnLocals
<1> SUFFICES ASSUME NEW u \in ResultsIn(history)
             PROVE  Settled(u)'
  OBVIOUS
<1>1. Settled(u) /\ (u.turn = r => u.round # turn[r].round)
  BY <1>r DEF SettledInv, SettledAt
<1>2. \A a \in sent' \ sent : ~SameUse(a, u)
  BY <1>1 DEF SameUse, SendsAt
<1> QED
  BY <1>1, <1>2, SettledStays

LEMMA AnsweredStays ==
  ASSUME TurnInv, SettledInv, NEW r \in Requests, Working(r), NEW n \in Nat, SendsAt(r, n),
         executed' = executed,
         turn'[r].round = turn[r].round, turn'[r].uses = turn[r].uses,
         NEW m \in Int, m < n, AnsweredUpTo(r, m)
  PROVE  AnsweredUpTo(r, m)'
<1>1. turn[r].uses \in Seq(Tools) /\ Len(turn[r].uses) \in Nat
  BY DEF TurnInv, CoreInv, TypeOK, TurnLocals
<1> SUFFICES ASSUME NEW i \in 1 .. Len(turn[r].uses), i <= m
             PROVE  Settled(ToolUseOf(r, i, turn[r].uses[i]))'
  BY DEF AnsweredUpTo
<1> DEFINE u == ToolUseOf(r, i, turn[r].uses[i])
<1>2. u' = u /\ u.turn = r /\ u.round = turn[r].round /\ u.pos = i /\ i # n
  BY <1>1 DEF ToolUseOf
<1>3. Settled(u)
  BY DEF AnsweredUpTo
<1>4. \A a \in sent' \ sent : ~SameUse(a, u)
  BY <1>2 DEF SameUse, SendsAt
<1> HIDE DEF u
<1>5. /\ u.tool \notin IdempotentTools => \E a \in executed' : SameUse(a, u)
      /\ u.tool \notin IdempotentTools => \A a \in sent' : ~SameUse(a, u)
  BY <1>3, <1>4 DEF Settled
<1> QED
  BY <1>2, <1>5 DEF Settled, u, SameUse

(* While the turn waits for its tool nothing is answered.                  *)
LEMMA SettledKept ==
  ASSUME TurnInv, SettledInv, NEW r \in Requests, TurnStep(r), Dispatching(r),
         Dispatching(r)', pc'[r] # "card", SendsAt(r, turn[r].pos), executed' = executed,
         UNCHANGED <<history, snapshot>>, SameUseLocals(turn'[r], turn[r])
  PROVE  SettledInv'
<1>1. /\ ~RejectTurn(r) /\ Working(r) /\ Working(r)' /\ pc'[r] \notin {"new", "get"}
      /\ turn[r].pos \in Nat /\ turn[r].pos - 1 \in Int /\ turn[r].pos - 1 < turn[r].pos
  BY DEF RejectTurn, Working, Dispatching, TurnInv, CoreInv, TypeOK, TurnLocals
<1>2. \A u \in ResultsIn(history) : Settled(u)'
  BY <1>1, SettledSending
<1>3. SettledAt(r)
  BY DEF SettledInv
<1>4. AnsweredUpTo(r, turn[r].pos - 1)'
  <2> DEFINE m == turn[r].pos - 1
  <2>1. AnsweredUpTo(r, m)
    BY <1>3 DEF SettledAt
  <2>2. m' = m
    BY DEF SameUseLocals
  <2>3. ASSUME NEW k \in Int, k = m, k < turn[r].pos, AnsweredUpTo(r, k)
        PROVE  AnsweredUpTo(r, k)'
    BY <1>1, <2>3, AnsweredStays DEF SameUseLocals
  <2>4. PICK k : k \in Int /\ k = m
    BY <1>1
  <2>5. AnsweredUpTo(r, k)'
    BY <1>1, <2>1, <2>3, <2>4
  <2> QED
    BY <2>2, <2>4, <2>5 DEF AnsweredUpTo
<1>5. SettledAt(r)'
  BY <1>1, <1>3, <1>4 DEF SettledAt, SameUseLocals
<1> QED
  BY <1>1, <1>2, <1>5, SettledOfOthers

(* The server's answer to the current attempt settles the current use.     *)
LEMMA AnswerSettles ==
  ASSUME TurnInv, SettledInv, NEW r \in Requests, Dispatching(r),
         CurrentAttempt(r) \in executed
  PROVE  AnsweredUpTo(r, turn[r].pos)
<1>1. turn[r].pos \in Nat /\ turn[r].uses \in Seq(Tools)
  BY DEF TurnInv, CoreInv, TypeOK, TurnLocals
<1> SUFFICES ASSUME NEW i \in 1 .. Len(turn[r].uses), i <= turn[r].pos
             PROVE  Settled(ToolUseOf(r, i, turn[r].uses[i]))
  BY DEF AnsweredUpTo
<1>2. CASE i # turn[r].pos
  <2>1. i <= turn[r].pos - 1
    BY <1>1, <1>2
  <2> QED
    BY <2>1 DEF SettledInv, SettledAt, AnsweredUpTo
<1>3. CASE i = turn[r].pos
  <2> DEFINE u == ToolUseOf(r, i, turn[r].uses[i])
             a == CurrentAttempt(r)
  <2>1. SameUse(a, u) /\ a.tool = u.tool
    BY <1>3 DEF CurrentAttempt, CurrentTool, AttemptOf, ToolUseOf, SameUse
  <2>2. ASSUME u.tool \notin IdempotentTools, NEW b \in sent, SameUse(b, u)
        PROVE  FALSE
    <3>1. a \in Attempts /\ b \in Attempts /\ SameUse(a, b)
      BY <2>1, <2>2 DEF Attempts, SameUse
    <3>2. a = b
      BY <2>1, <2>2, <3>1 DEF TurnInv, WireInv, UniqueUse
    <3> QED
      BY <2>1, <2>2, <3>2 DEF TurnInv, WireInv, SentIsNotExecuted
  <2> QED
    BY <2>1, <2>2 DEF Settled
<1> QED
  BY <1>2, <1>3

LEMMA SettledAnswer ==
  ASSUME TurnInv, SettledInv, NEW r \in Requests, TurnStep(r), Dispatching(r),
         NEW card \in Cards, AnswerUse(r, card), executed' = executed,
         AnsweredUpTo(r, turn[r].pos)
  PROVE  SettledInv'
<1>0. /\ pc = [q \in Requests |-> pc[q]] /\ turn = [q \in Requests |-> turn[q]]
  BY DEF TurnInv, CoreInv, TypeOK
<1>1. /\ turn[r] \in TurnLocals /\ turn[r].uses \in Seq(Tools) /\ turn[r].pos \in Nat
      /\ turn[r].pos \in 1 .. Len(turn[r].uses) /\ turn[r].round \in Nat
  BY DEF TurnInv, CoreInv, TypeOK, TurnLocals, Control, ControlAt
<1>2. SettledAt(r) /\ Working(r) /\ ~RejectTurn(r)
  BY DEF SettledInv, Working, Dispatching, RejectTurn
<1>3. CASE NextUse(r, card)
  <2> DEFINE next == turn[r].pos + 1
             l == BeginUse(turn[r], turn[r].uses, next, card)
  <2>0. next \in Nat /\ turn[r].pos \in Int /\ turn[r].pos < next
    BY <1>1
  <2>1. l.round = turn[r].round /\ l.uses = turn[r].uses /\ l.pos = next
    BY <1>1, <2>0, BeginUseType
  <2>2. turn'[r] = l /\ pc'[r] = "call" /\ UNCHANGED <<history, snapshot>>
    BY <1>0, <1>3 DEF NextUse, Transition, historyVars
  <2>3. SendsAt(r, next)
    BY <1>3 DEF NextUse, SendsAt, AttemptOf
  <2> HIDE DEF l, next
  <2>4. \A u \in ResultsIn(history) : Settled(u)'
    BY <1>2, <2>0, <2>3, SettledSending
  <2>5. PICK k \in Int : k = turn[r].pos /\ k < next
    BY <2>0
  <2>6. AnsweredUpTo(r, k)'
    BY <1>2, <2>0, <2>1, <2>2, <2>3, <2>5, AnsweredStays
  <2>7. turn'[r].pos - 1 = k
    BY <1>1, <2>1, <2>2, <2>5 DEF next
  <2>8. AnsweredUpTo(r, turn[r].pos - 1)'
    BY <2>6, <2>7 DEF AnsweredUpTo
  <2>9. SettledAt(r)'
    BY <1>2, <2>1, <2>2, <2>8 DEF SettledAt, Working, Dispatching
  <2> QED
    BY <1>2, <2>2, <2>4, <2>9, SettledOfOthers
<1>4. CASE NextRound(r, card)
  <2> DEFINE U == UseSet(r, turn[r].uses)
  <2>1. /\ history' = Append(history, ToolResults(U)) /\ pc'[r] = "converse"
        /\ snapshot' = snapshot /\ sent' = sent
        /\ turn'[r] = BeginRound(turn[r], card) /\ turn[r].pos = Len(turn[r].uses)
    BY <1>0, <1>4 DEF NextRound, Transition
  <2>2. U \in SUBSET Use /\ U # {}
    BY <1>1, UseSetType DEF TurnInv
  <2>3. /\ WellFormed(history) /\ EndsWith(history, "assistant")
        /\ history[Len(history)].uses = U
    BY DEF TurnInv, HistoryInv, HistoryAt
  <2>4. \A u \in U : u.turn = r /\ u.round = turn[r].round /\ Settled(u)
    BY <1>1, <2>1 DEF UseSet, AnsweredUpTo, ToolUseOf
  <2> HIDE DEF U
  <2>5. ResultsIn(history') = ResultsIn(history) \cup U
    BY <2>1, <2>2, <2>3, ResultsAppended
  <2>6. turn'[r].round = turn[r].round + 1
    BY <1>1, <1>4, <2>1, BeginRoundType DEF NextRound
  <2>7. \A u \in ResultsIn(history') : Settled(u)'
    BY <2>1, <2>4, <2>5, SettledStays DEF SettledInv
  <2>8. SettledAt(r)'
    <3>1. ASSUME NEW u \in ResultsIn(history'), u.turn = r
          PROVE  u.round < turn[r].round + 1
      <4>1. CASE u \in U
        BY <1>1, <2>4, <4>1
      <4>2. CASE u \in ResultsIn(history)
        <5>1. u \in Use
          BY <2>3, <4>2, ResultsType
        <5>2. u.round \in Nat /\ u.round < turn[r].round
          BY <1>2, <3>1, <4>2, <5>1 DEF SettledAt, Use
        <5> QED
          BY <1>1, <5>2
      <4> QED
        BY <2>5, <4>1, <4>2
    <3> QED
      BY <1>2, <2>1, <2>5, <2>6, <3>1 DEF SettledAt, Working, Dispatching
  <2>9. \A u \in ResultsIn(history') : u \in ResultsIn(history) \/ u.turn = r
    BY <2>4, <2>5
  <2> QED
    BY <1>2, <2>7, <2>8, <2>9, SettledOfOthers
<1>5. CASE ExhaustRounds(r)
  <2>1. pc'[r] = "done" /\ history' = snapshot[r] /\ sent' = sent
    BY <1>0, <1>5 DEF ExhaustRounds, Fail, Finish, RestoreHistory, Transition
  <2> QED
    BY <1>2, <2>1, SettledAtRest DEF SettledAt
<1> QED
  BY <1>3, <1>4, <1>5 DEF AnswerUse

LEMMA SettledStep ==
  ASSUME TurnInv, SettledInv, NEW r \in Requests, TurnStep(r)
  PROVE  SettledInv'
<1>b. /\ pc = [q \in Requests |-> pc[q]] /\ turn = [q \in Requests |-> turn[q]]
  BY DEF TurnInv, CoreInv, TypeOK
<1>t. turn[r] \in TurnLocals /\ turn[r].card \in Cards /\ session[r] \in Nat
  BY DEF TurnInv, CoreInv, TypeOK, TurnLocals
<1>s. SettledAt(r) /\ WellFormed(history) /\ SnapshotsKept
  BY DEF TurnInv, HistoryInv, SettledInv
<1>e. ASSUME ~RejectTurn(r), pc'[r] \in {"get", "evict", "done"}, pc'[r] = "get" => pc[r] = "new",
             sent' = sent, executed' = executed, history' = history
      PROVE  SettledInv'
  BY <1>e, SettledAtRest
<1>f. ASSUME pc[r] \in {"converse", "call", "refresh", "reopen", "card"},
             pc'[r] \in {"evict", "done"}, history' = snapshot[r],
             sent' \subseteq sent, executed' = executed
      PROVE  SettledInv'
  <2>1. ResultsIn(history') \subseteq ResultsIn(history)
    BY <1>f, <1>s DEF SettledAt, Working, Dispatching
  <2>2. ~RejectTurn(r)
    BY <1>f DEF RejectTurn
  <2> QED
    BY <1>f, <2>1, <2>2, SettledAtRest
<1>k. ASSUME pc[r] \in {"call", "refresh", "reopen", "card"},
             pc'[r] \in {"call", "refresh", "reopen"}, SendsAt(r, turn[r].pos),
             UNCHANGED <<executed, history, snapshot>>, SameUseLocals(turn'[r], turn[r])
      PROVE  SettledInv'
  BY <1>k, SettledKept DEF Dispatching
<1>1. CASE BeginTurn(r)
  BY <1>b, <1>e, <1>1 DEF BeginTurn, RejectTurn, Transition, historyVars, wireVars
<1>2. CASE RejectTurn(r)
  <2>1. /\ pc[r] = "new" /\ pc'[r] = "done"
        /\ UNCHANGED <<turn, history, snapshot, sent, executed>>
    BY <1>b, <1>2 DEF RejectTurn, Transition, historyVars, wireVars
  <2>2. \A u \in ResultsIn(history) : Settled(u)'
    BY <2>1 DEF SettledInv, Settled
  <2>3. ASSUME NEW q \in Requests
        PROVE  SettledAt(q)'
    <3>1. CASE q = r
      BY <2>1, <3>1 DEF SettledAt, Working, Dispatching
    <3>2. CASE q # r
      <4>1. pc'[q] = pc[q] /\ SettledAt(q)
        BY <3>2, FrameStep DEF TurnInv, CoreInv, Frame, SettledInv
      <4>2. \A n \in {turn[q].pos, turn[q].pos - 1} : AnsweredUpTo(q, n)' <=> AnsweredUpTo(q, n)
        BY <2>1 DEF AnsweredUpTo, Settled, ToolUseOf
      <4> QED
        BY <2>1, <4>1, <4>2 DEF SettledAt, Working, Dispatching
    <3> QED
      BY <3>1, <3>2
  <2> QED
    BY <2>1, <2>2, <2>3 DEF SettledInv
<1>3. CASE SessionReady(r)
  <2>1. /\ pc[r] = "get" /\ pc'[r] = "converse" /\ ~RejectTurn(r)
        /\ snapshot' = [snapshot EXCEPT ![r] = Repair(history)]
        /\ history' = AddUserText(Repair(history), r)
        /\ UNCHANGED <<sent, executed>>
    BY <1>b, <1>3 DEF SessionReady, StartBody, Transition, RejectTurn, wireVars
  <2>2. snapshot'[r] = Repair(history)
    BY <1>s, <2>1 DEF SnapshotsKept
  <2>3. /\ ResultsIn(Repair(history)) \subseteq ResultsIn(history)
        /\ ResultsIn(history') \subseteq ResultsIn(history)
        /\ ResultsIn(Repair(history)) \subseteq ResultsIn(history')
    <3>1. /\ ResultsIn(Repair(history)) \subseteq ResultsIn(history)
          /\ ResultsIn(history') = ResultsIn(Repair(history))
      BY <1>s, <2>1, TurnStarts
    <3> QED
      BY <3>1
  <2>4. \A u \in ResultsIn(history') : Settled(u)'
    BY <2>1, <2>3, SettledStays DEF SettledInv
  <2>5. SettledAt(r)'
    BY <1>s, <2>1, <2>2, <2>3 DEF SettledAt, Working, Dispatching
  <2> QED
    BY <2>1, <2>3, <2>4, <2>5, SettledOfOthers
<1>4. CASE SessionFailed(r)
  BY <1>b, <1>e, <1>4
  DEF SessionFailed, Finish, RejectTurn, Transition, historyVars, wireVars
<1>5. CASE ModelReplies(r)
  <2>1. PICK cutOff \in SUBSET {ToolUseOf(r, 1, tool) : tool \in Tools} :
          history' = Append(history, AssistantMessage({r}, cutOff))
    BY <1>5 DEF ModelReplies
  <2>2. /\ pc[r] = "converse" /\ pc'[r] = "done" /\ ~RejectTurn(r)
        /\ UNCHANGED <<sent, executed>>
    BY <1>b, <1>5 DEF ModelReplies, Finish, Transition, RejectTurn, wireVars
  <2>3. EndsWith(history, "user")
    BY <2>2 DEF TurnInv, HistoryInv, HistoryAt
  <2>4. cutOff \in SUBSET Use
    <3>1. turn[r].round \in Nat
      BY <1>t DEF TurnLocals
    <3> QED
      BY <2>1, <3>1 DEF ToolUseOf, Use
  <2>5. ResultsIn(history') = ResultsIn(history)
    <3>1. Spoke(history', history, {r}, cutOff)
      BY <2>1, <2>4 DEF Spoke
    <3> QED
      BY <1>s, <2>3, <3>1, AssistantAppended
  <2> QED
    BY <2>2, <2>5, SettledAtRest
<1>6. CASE ModelCallsTools(r)
  <2>1. PICK plan \in ToolPlans :
          /\ turn' = [turn EXCEPT ![r] = BeginUse(@, plan, 1, @.card)]
          /\ sent' = sent \cup {AttemptOf(r, 1, plan[1], 1, session[r])}
          /\ history' = Append(history, AssistantMessage({}, UseSet(r, plan)))
    BY <1>6 DEF ModelCallsTools
  <2> DEFINE l == BeginUse(turn[r], plan, 1, turn[r].card)
             U == UseSet(r, plan)
  <2>2. plan \in Seq(Tools) /\ Len(plan) # 0 /\ 1 \in Nat
    <3>1. PICK n \in 1 .. MaxUses : plan \in [1 .. n -> Tools]
      BY DEF ToolPlans
    <3>2. n \in Nat /\ n # 0
      BY <3>1, BoundsAssumption
    <3> QED
      BY <3>1, <3>2
  <2>3. l.round = turn[r].round /\ l.pos = 1
    BY <1>t, <2>2, BeginUseType
  <2>4. /\ pc[r] = "converse" /\ pc'[r] = "call" /\ turn'[r] = l
        /\ UNCHANGED <<snapshot, executed>> /\ ~RejectTurn(r)
    BY <1>b, <1>6, <2>1 DEF ModelCallsTools, Transition, RejectTurn
  <2>5. U \in SUBSET Use /\ U # {}
    BY <2>2, UseSetType DEF TurnInv
  <2>6. SendsAt(r, 1) /\ Working(r)
    BY <2>1, <2>4 DEF SendsAt, AttemptOf, Working
  <2> HIDE DEF l, U
  <2>7. ResultsIn(history') = ResultsIn(history)
    <3>1. history' = Append(history, AssistantMessage({}, U))
      BY <2>1 DEF U
    <3>2. Spoke(history', history, {}, U)
      BY <2>5, <3>1 DEF Spoke
    <3>3. EndsWith(history, "user")
      BY <2>4 DEF TurnInv, HistoryInv, HistoryAt
    <3> QED
      BY <1>s, <3>2, <3>3, AssistantAppended
  <2>8. \A u \in ResultsIn(history') : Settled(u)'
    BY <2>4, <2>6, <2>7, SettledSending
  <2>9. AnsweredUpTo(r, turn[r].pos - 1)'
    <3>1. turn'[r].pos - 1 = 0
      BY <2>3, <2>4
    <3> QED
      BY <3>1 DEF AnsweredUpTo
  <2>10. SettledAt(r)'
    BY <1>s, <2>3, <2>4, <2>6, <2>7, <2>9 DEF SettledAt, Working, Dispatching
  <2> QED
    BY <2>4, <2>7, <2>8, <2>10, SettledOfOthers
<1>7. CASE ModelFails(r)
  BY <1>b, <1>f, <1>7 DEF ModelFails, Fail, RestoreHistory, Finish, Transition, wireVars
<1>8. CASE CallNeedsCard(r)
  <2>1. /\ pc[r] = "call" /\ pc'[r] = "card" /\ CurrentAttempt(r) \in executed
        /\ UNCHANGED <<turn, history, snapshot, sent, executed>> /\ ~RejectTurn(r)
    BY <1>b, <1>8 DEF CallNeedsCard, Transition, RejectTurn, historyVars, wireVars
  <2>2. AnsweredUpTo(r, turn[r].pos)
    BY <2>1, AnswerSettles DEF Dispatching
  <2>3. \A n \in {turn[r].pos, turn[r].pos - 1} : AnsweredUpTo(r, n)' <=> AnsweredUpTo(r, n)
    BY <2>1 DEF AnsweredUpTo, Settled, ToolUseOf
  <2>4. \A u \in ResultsIn(history') : Settled(u)'
    BY <2>1 DEF SettledInv, Settled
  <2>5. SettledAt(r)'
    BY <1>s, <2>1, <2>2, <2>3 DEF SettledAt, Working, Dispatching
  <2> QED
    BY <2>1, <2>4, <2>5, SettledOfOthers
<1>9. CASE CallAnswered(r)
  <2>1. /\ Dispatching(r) /\ CurrentAttempt(r) \in executed /\ executed' = executed
        /\ AnswerUse(r, turn[r].card)
    BY <1>9 DEF CallAnswered, Dispatching
  <2>2. AnsweredUpTo(r, turn[r].pos)
    BY <2>1, AnswerSettles
  <2> QED
    BY <1>t, <2>1, <2>2, SettledAnswer
<1>10. CASE CardRead(r)
  <2>1. /\ Dispatching(r) /\ executed' = executed /\ AnswerUse(r, "read")
        /\ AnsweredUpTo(r, turn[r].pos)
    BY <1>s, <1>10 DEF CardRead, Dispatching, SettledAt
  <2> QED
    BY <2>1, CardValues, SettledAnswer
<1>11. CASE CallRetried(r)
  <2>1. turn'[r] = BeginRetry(turn[r])
    BY <1>b, <1>11 DEF CallRetried
  <2>2. SameUseLocals(turn'[r], turn[r])
    BY <1>t, <2>1, UpdateType
  <2>3. SendsAt(r, turn[r].pos)
    BY <1>11 DEF CallRetried, SendsAt, AttemptOf
  <2> QED
    BY <1>k, <1>11, <2>2, <2>3 DEF CallRetried, historyVars
<1>12. CASE CallLost(r)
  BY <1>b, <1>f, <1>12 DEF CallLost, Fail, RestoreHistory, Finish, Transition, wireVars
<1>13. CASE CallBroken(r)
  BY <1>b, <1>f, <1>13 DEF CallBroken, Fail, RestoreHistory, Finish, Transition, wireVars
<1>14. CASE CallTerminated(r)
  <2>1. turn'[r] = Refused(turn[r], session[r])
    BY <1>b, <1>14 DEF CallTerminated
  <2>2. SameUseLocals(turn'[r], turn[r])
    BY <1>t, <2>1, UpdateType
  <2>3. SendsAt(r, turn[r].pos)
    BY <1>14 DEF CallTerminated, CallRefused, SendsAt
  <2> QED
    BY <1>b, <1>k, <1>14, <2>2, <2>3 DEF CallTerminated, CallRefused, Transition, historyVars
<1>15. CASE RetryTerminated(r)
  BY <1>b, <1>f, <1>15
  DEF RetryTerminated, CallRefused, Fail, RestoreHistory, Finish, Transition
<1>16. CASE RefreshClosed(r)
  <2>1. SendsAt(r, turn[r].pos)
    BY <1>16 DEF RefreshClosed, SendsAt, wireVars
  <2> QED
    BY <1>b, <1>k, <1>16, <2>1
    DEF RefreshClosed, ReplaceOwner, Transition, SameUseLocals, historyVars, wireVars
<1>17. CASE \E budget \in Budgets : RefreshSwallows(r, budget)
  <2>1. PICK budget \in Budgets : RefreshSwallows(r, budget)
    BY <1>17
  <2>2. turn'[r] = Spend(turn[r], budget)
    BY <1>b, <2>1 DEF RefreshSwallows
  <2>3. SameUseLocals(turn'[r], turn[r])
    <3>1. SameUseLocals(Spend(turn[r], budget), turn[r])
      BY <1>t, UpdateType
    <3> QED
      BY <2>2, <3>1
  <2>4. SendsAt(r, turn[r].pos)
    BY <2>1 DEF RefreshSwallows, SendsAt, wireVars
  <2> QED
    BY <1>b, <1>k, <2>1, <2>3, <2>4
    DEF RefreshSwallows, ReplaceOwner, Transition, historyVars, wireVars
<1>18. CASE Reopened(r)
  <2>1. turn'[r] = BeginRetry(turn[r])
    BY <1>b, <1>18 DEF Reopened
  <2>2. SameUseLocals(turn'[r], turn[r])
    BY <1>t, <2>1, UpdateType
  <2>3. SendsAt(r, turn[r].pos)
    BY <1>18 DEF Reopened, SendsAt, AttemptOf
  <2> QED
    BY <1>b, <1>k, <1>18, <2>2, <2>3 DEF Reopened, Transition, historyVars
<1>19. CASE ReopenFailed(r)
  BY <1>b, <1>f, <1>19 DEF ReopenFailed, Fail, RestoreHistory, Finish, Transition, wireVars
<1>20. CASE CardFails(r)
  BY <1>b, <1>f, <1>20 DEF CardFails, Fail, RestoreHistory, Finish, Transition, wireVars
<1>21. CASE BudgetExpires(r)
  BY <1>b, <1>f, <1>21 DEF BudgetExpires, FailAndEvict, RestoreHistory, Transition, wireVars
<1>22. CASE EvictClosed(r)
  BY <1>b, <1>e, <1>22 DEF EvictClosed, RejectTurn, Transition, historyVars, wireVars
<1>23. CASE Cancel(r)
  <2>1. /\ pc'[r] = "done" /\ ~RejectTurn(r) /\ sent' = sent /\ executed' = executed
    BY <1>b, <1>23 DEF Cancel, Finish, Transition, RejectTurn, wireVars
  <2>2. CASE pc[r] = "get"
    BY <1>e, <1>23, <2>1, <2>2 DEF Cancel, historyVars
  <2>3. CASE pc[r] # "get"
    BY <1>f, <1>23, <2>1, <2>3 DEF Cancel, RestoreHistory
  <2> QED
    BY <2>2, <2>3
<1>24. CASE EvictCancelled(r)
  BY <1>b, <1>e, <1>24 DEF EvictCancelled, RejectTurn, Transition, historyVars, wireVars
<1> QED
  BY <1>1, <1>2, <1>3, <1>4, <1>5, <1>6, <1>7, <1>8, <1>9, <1>10, <1>11, <1>12, <1>13,
     <1>14, <1>15, <1>16, <1>17, <1>18, <1>19, <1>20, <1>21, <1>22, <1>23, <1>24
  DEF TurnStep

(* The server runs an attempt, at any time: what is settled stays so.      *)
LEMMA SettledEnvironment ==
  ASSUME TurnInv, SettledInv, UNCHANGED <<pc, turn, history, snapshot>>,
         sent' \subseteq sent, executed \subseteq executed'
  PROVE  SettledInv'
<1>1. \A u : Settled(u) => Settled(u)'
  BY DEF Settled
<1>2. \A r \in Requests : \A n \in {turn[r].pos, turn[r].pos - 1} :
        AnsweredUpTo(r, n) => AnsweredUpTo(r, n)'
  BY <1>1 DEF AnsweredUpTo, ToolUseOf
<1> QED
  BY <1>1, <1>2 DEF SettledInv, SettledAt, Working, Dispatching

(* When the history says that a tool that is not idempotent was called and *)
(* answered, it ran, and no attempt of it can still run later.             *)
THEOREM AnsweredSettled == Spec => []AnsweredMeansSettled
<1>1. Init => SettledInv
  <2> SUFFICES ASSUME Init PROVE SettledInv
    OBVIOUS
  <2>1. ResultsIn(history) = {}
    BY DEF Init, ResultsIn, ToSet
  <2> QED
    BY <2>1 DEF Init, SettledInv, SettledAt, Working, Dispatching
<1>2. TurnInv /\ SettledInv /\ [Next]_vars => SettledInv'
  <2> SUFFICES ASSUME TurnInv, SettledInv, [Next]_vars PROVE SettledInv'
    OBVIOUS
  <2>1. CASE \E r \in Requests : TurnStep(r)
    BY <2>1, SettledStep
  <2>2. CASE \E a \in sent : ServerExecutes(a)
    BY <2>2, SettledEnvironment DEF ServerExecutes, historyVars
  <2>3. CASE (\E o \in DOMAIN owners : OwnerStep(o)) \/ UNCHANGED vars
    BY <2>3, SettledEnvironment
    DEF OwnerStep, OpenSucceeds, OwnerDies, RuntimeForgets, vars, historyVars, wireVars
  <2> QED
    BY <2>1, <2>2, <2>3 DEF Next, AllAnswered
<1>3. SettledInv => AnsweredMeansSettled
  BY DEF SettledInv, AnsweredMeansSettled, ResultsIn, Settled
<1> QED
  BY <1>1, <1>2, <1>3, CoreCorrect, WireCorrect, HistoryCorrect, PTL DEF Spec, TurnInv

================================================================================
