----------------------------- MODULE LeavesProofs -----------------------------
(***************************************************************************)
(* Proofs about the components that MCLeaves checks one at a time: a call  *)
(* of a model, the token of the Feishu client, the skills and the file     *)
(* tools; for any histories, answers, clocks, skills and texts.            *)
(***************************************************************************)
EXTENDS MCLeaves, SequenceTheorems, FiniteSetTheorems, WellFoundedInduction, TLAPS

-----------------------------------------------------------------------------
(***************************************************************************)
(* A call of a model (ModelCall).                                          *)
(***************************************************************************)

\* The lemmas about folds, for the three folds of ModelCall.
Chars == INSTANCE FoldLemmas WITH Op <- AddChars
Build == INSTANCE FoldLemmas WITH Op <- AddToRequest
Pick == INSTANCE FoldLemmas WITH Op <- AddNamed

\* The parts of a message of a history.
LEMMA CallsOf ==
  ASSUME NEW s \in Seq(Messages), NEW i \in DOMAIN s
  PROVE  /\ s[i] \in Messages /\ s[i].calls \in Seq(CallIds)
         /\ Len(s[i].calls) \in Nat /\ DOMAIN s[i].calls = 1 .. Len(s[i].calls)
  <1>1. s[i] \in Messages
    OBVIOUS
  <1>2. s[i].calls \in Seq(CallIds)
    BY <1>1 DEF Messages
  <1> QED
    BY <1>1, <1>2

\* Fold is FoldLeft: AddChars.
LEMMA CharsOf == \A b, s : Chars!Fold(b, s) = FoldLeft(AddChars, b, s)
  BY DEF Chars!Fold, FoldLeft, Chars!FoldLeft, MapThenFoldSet, Chars!MapThenFoldSet, Max, Chars!Max

\* estimate_chars counts.
LEMMA EstimateIsNat ==
  ASSUME NEW s \in Seq(Messages)
  PROVE  EstimateChars(s) \in Nat
  <1>1. \A sum \in Nat, m \in Messages : AddChars(sum, m) \in Nat
    <2>1. \A m \in Messages : m.chars \in Nat /\ Len(m.calls) \in Nat
      BY DEF Messages
    <2>2. \A n \in Nat : CallChars * n \in Nat
      BY ModelCallAssumption
    <2>3. \A a, b, c \in Nat : a + b + c \in Nat
      OBVIOUS
    <2> QED
      BY <2>1, <2>2, <2>3, Zenon DEF AddChars
  <1>2. Chars!Fold(0, s) \in Nat
    BY <1>1, Chars!FoldType, Zenon
  <1> QED
    BY <1>2, CharsOf DEF EstimateChars

\* Compaction shortens contents and nothing else.
LEMMA MessageKeeps ==
  ASSUME NEW m \in Messages, NEW recent
  PROVE  /\ CompactMessage(recent, m) \in Messages
         /\ CompactMessage(recent, m).role = m.role
         /\ CompactMessage(recent, m).id = m.id
         /\ CompactMessage(recent, m).calls = m.calls
  <1>1. ASSUME NEW n \in Nat PROVE [m EXCEPT !.chars = n] \in Messages
    BY <1>1 DEF Messages
  <1>2. m.chars \in Nat /\ m.role \in {"system", "user", "assistant"}
    BY DEF Messages
  <1>3. MarkerChars \in Nat /\ HeadTail(m.chars) \in Nat
    BY <1>2, ModelCallAssumption DEF HeadTail
  <1>4. \E n \in Nat : CompactMessage(recent, m) = m \/ CompactMessage(recent, m) = [m EXCEPT !.chars = n]
    BY <1>2, <1>3 DEF CompactMessage
  <1>5. m = [role |-> m.role, id |-> m.id, calls |-> m.calls, chars |-> m.chars]
    BY DEF Messages
  <1> QED
    BY <1>1, <1>4, <1>5

\* The compacted copy has the messages of the history: only contents may be shorter.
LEMMA CompactKeeps ==
  ASSUME NEW s \in Seq(Messages)
  PROVE  /\ Compact(s) \in Seq(Messages)
         /\ Len(Compact(s)) = Len(s)
         /\ \A i \in DOMAIN s : /\ Compact(s)[i].role = s[i].role
                                /\ Compact(s)[i].id = s[i].id
                                /\ Compact(s)[i].calls = s[i].calls
  <1> DEFINE c == [i \in DOMAIN s |-> CompactMessage(Recent(i, s), s[i])]
  <1>1. \A i \in DOMAIN s :
          c[i] \in Messages /\ c[i].role = s[i].role /\ c[i].id = s[i].id /\ c[i].calls = s[i].calls
    BY MessageKeeps
  <1> HIDE DEF c
  <1>2. c \in Seq(Messages) /\ Len(c) = Len(s)
    <2>1. DOMAIN s = 1 .. Len(s) /\ Len(s) \in Nat /\ c = [i \in 1 .. Len(s) |-> c[i]]
      BY DEF c
    <2> QED
      BY <1>1, <2>1
  <1> QED
    BY <1>1, <1>2 DEF Compact, c

\* A message that compaction has looked at is within the limit for it.
LEMMA MessageFits ==
  ASSUME NEW m \in Messages, NEW recent, m.role = "system" => m.id = None
  PROVE  LET c == CompactMessage(recent, m) IN
         /\ m.id # None /\ recent => c.chars <= Budget.max_recent_observation_chars
         /\ m.id # None /\ ~recent => c.chars <= Budget.far_observation_mask_chars
         /\ m.role = "assistant" /\ ~recent => c.chars <= Budget.far_assistant_fold_chars
  <1> DEFINE c == CompactMessage(recent, m)
  <1>1. m = [role |-> m.role, id |-> m.id, calls |-> m.calls, chars |-> m.chars] /\ m.chars \in Nat
    BY DEF Messages
  <1>2. \A n : [m EXCEPT !.chars = n].chars = n
    BY <1>1
  <1>3. m.id # None /\ recent => c.chars <= Budget.max_recent_observation_chars
    BY <1>1, <1>2, ModelCallAssumption, BudgetAssumption DEF CompactMessage, HeadTail
  <1>4. m.id # None /\ ~recent => c.chars <= Budget.far_observation_mask_chars
    BY <1>1, <1>2, ModelCallAssumption, BudgetAssumption DEF CompactMessage
  <1>5. m.role = "assistant" /\ ~recent => c.chars <= Budget.far_assistant_fold_chars
    BY <1>1, <1>2, ModelCallAssumption, BudgetAssumption DEF CompactMessage
  <1> QED
    BY <1>3, <1>4, <1>5

-----------------------------------------------------------------------------
\* Two sequences with the same elements are the same.
LEMMA EqualSequences ==
  ASSUME NEW S, NEW p \in Seq(S), NEW q \in Seq(S), Len(p) = Len(q),
         \A x \in 1 .. Len(p) : p[x] = q[x]
  PROVE  p = q
  OBVIOUS

\* The blocks of a Claude request, and the loop that builds them.
Blocks == [role : {"system", "user", "assistant"}, uses : Seq(CallIds), results : Seq(CallIds)]
Builders == [out : Seq(Blocks), pending : Seq(CallIds)]

AnsweredAt(out, j) == j < Len(out) /\ ToSet(out[j].uses) = ToSet(out[j + 1].results)
AllAnswered(out) == \A j \in DOMAIN out : out[j].uses # << >> => AnsweredAt(out, j)

\* After the first k messages only the last block may wait for results: those of a
\* message i, of which the first k - i have come.
OpenSince(b, s, k, i) ==
  /\ b.out[Len(b.out)].uses = s[i].calls
  /\ k = i + Len(b.pending) /\ Len(b.pending) <= Len(s[i].calls)
  /\ \A x \in 1 .. Len(b.pending) : b.pending[x] = s[i].calls[x]
Building(b, s, k) ==
  /\ b \in Builders
  /\ \A j \in DOMAIN b.out : j # Len(b.out) /\ b.out[j].uses # << >> => AnsweredAt(b.out, j)
  /\ b.out # << >> /\ b.out[Len(b.out)].uses # << >> => \E i \in 1 .. k : OpenSince(b, s, k, i)

\* flush_tool_results answers the calls that the last block has asked for.
LEMMA FlushAnswers ==
  ASSUME NEW b \in Builders,
         \A j \in DOMAIN b.out : j # Len(b.out) /\ b.out[j].uses # << >> => AnsweredAt(b.out, j),
         b.out # << >> /\ b.out[Len(b.out)].uses # << >> => b.pending = b.out[Len(b.out)].uses
  PROVE  /\ FlushToolResults(b) \in Builders
         /\ FlushToolResults(b).pending = << >>
         /\ AllAnswered(FlushToolResults(b).out)
  <1> DEFINE block == [role |-> "user", uses |-> << >>, results |-> b.pending]
             f == FlushToolResults(b)
             n == Len(b.out)
  <1>1. b = [out |-> b.out, pending |-> b.pending] /\ b.out \in Seq(Blocks) /\ b.pending \in Seq(CallIds)
    BY DEF Builders
  <1>2. block \in Blocks
    BY <1>1 DEF Blocks
  <1>3. CASE b.pending = << >>
    <2>1. f = b
      BY <1>3 DEF FlushToolResults
    <2>2. n \in Nat /\ DOMAIN b.out = 1 .. n /\ (n = 0 => b.out = << >>)
      BY <1>1
    <2>3. AllAnswered(b.out)
      BY <1>3, <2>2 DEF AllAnswered
    <2> QED
      BY <1>3, <2>1, <2>3
  <1>4. CASE b.pending # << >>
    <2>1. f = [out |-> Append(b.out, block), pending |-> << >>]
      BY <1>4 DEF FlushToolResults
    <2> DEFINE out == Append(b.out, block)
    <2>2. out \in Seq(Blocks) /\ Len(out) = n + 1 /\ n \in Nat /\ DOMAIN out = 1 .. (n + 1)
          /\ DOMAIN b.out = 1 .. n /\ out[n + 1] = block /\ \A j \in 1 .. n : out[j] = b.out[j]
      BY <1>1, <1>2
    <2> HIDE DEF out
    <2>3. ASSUME NEW j \in DOMAIN out, out[j].uses # << >> PROVE AnsweredAt(out, j)
      <3>1. j \in 1 .. n
        BY <2>2, <2>3
      <3>2. CASE j = n
        BY <2>2, <2>3, <3>1, <3>2 DEF AnsweredAt
      <3>3. CASE j # n
        BY <2>2, <2>3, <3>1, <3>3 DEF AnsweredAt
      <3> QED
        BY <3>2, <3>3
    <2>4. AllAnswered(out)
      BY <2>3 DEF AllAnswered
    <2>5. f \in Builders
      BY <2>1, <2>2 DEF Builders, out
    <2> QED
      BY <2>1, <2>4, <2>5 DEF out
  <1> QED
    BY <1>3, <1>4

\* One message more: what is built so far stays a request that answers its calls.
LEMMA BuildStep ==
  ASSUME NEW s \in Seq(Messages), Answered(s), NEW k \in 0 .. (Len(s) - 1),
         NEW b, Building(b, s, k)
  PROVE  Building(AddToRequest(b, s[k + 1]), s, k + 1)
  <1> DEFINE m == s[k + 1]
             n == Len(b.out)
             f == FlushToolResults(b)
             a == AddToRequest(b, m)
  <1>1. /\ b = [out |-> b.out, pending |-> b.pending]
        /\ b.out \in Seq(Blocks) /\ b.pending \in Seq(CallIds)
        /\ n \in Nat /\ DOMAIN b.out = 1 .. n /\ (n = 0 <=> b.out = << >>)
    BY DEF Building, Builders
  <1>0. DOMAIN s = 1 .. Len(s) /\ k \in Nat /\ Len(s) \in Nat /\ k + 1 \in DOMAIN s /\ m \in Messages
    OBVIOUS
  <1>2. /\ m.role \in {"system", "user", "assistant"} /\ m.calls \in Seq(CallIds)
        /\ m.id \in CallIds \cup {None}
    BY <1>0 DEF Messages
  <1>5. ASSUME NEW i \in 1 .. k, OpenSince(b, s, k, i), b.out[n].uses # << >>
        PROVE  /\ i \in DOMAIN s /\ s[i].calls # << >> /\ s[i].calls \in Seq(CallIds)
               /\ Len(s[i].calls) \in Nat /\ DOMAIN s[i].calls = 1 .. Len(s[i].calls)
               /\ Len(b.pending) \in Nat /\ k + 1 = i + (Len(b.pending) + 1)
               /\ Len(b.pending) <= Len(s[i].calls)
    <2>1. i \in DOMAIN s /\ s[i] \in Messages
      BY <1>0
    <2>2. s[i].calls \in Seq(CallIds)
      BY <2>1 DEF Messages
    <2> QED
      BY <1>0, <1>1, <1>5, <2>1, <2>2 DEF OpenSince
  <1>3. CASE m.id # None
    <2>1. a = [out |-> b.out, pending |-> Append(b.pending, m.id)]
      BY <1>1, <1>3, Zenon DEF AddToRequest
    <2>2. a \in Builders
      BY <1>1, <1>2, <1>3, <2>1 DEF Builders
    <2>3. ASSUME b.out # << >>, b.out[n].uses # << >> PROVE \E i \in 1 .. (k + 1) : OpenSince(a, s, k + 1, i)
      <3>1. PICK i \in 1 .. k : OpenSince(b, s, k, i)
        BY <2>3 DEF Building
      <3>2. /\ i \in DOMAIN s /\ s[i].calls # << >> /\ s[i].calls \in Seq(CallIds)
            /\ Len(s[i].calls) \in Nat /\ DOMAIN s[i].calls = 1 .. Len(s[i].calls)
            /\ Len(b.pending) \in Nat /\ k + 1 = i + (Len(b.pending) + 1)
            /\ Len(b.pending) <= Len(s[i].calls)
        BY <1>5, <2>3, <3>1
      <3>3. Len(b.pending) # Len(s[i].calls)
        <4> SUFFICES ASSUME Len(b.pending) = Len(s[i].calls) PROVE m.id = None
          BY <1>3
        <4>1. k + 1 = i + Len(s[i].calls) + 1 /\ k + 1 <= Len(s)
          BY <1>0, <3>2
        <4> QED
          BY <3>2, <4>1 DEF Answered
      <3>4. Len(b.pending) \in Nat /\ Len(b.pending) + 1 \in DOMAIN s[i].calls
        BY <3>2, <3>3
      <3>5. m.id = s[i].calls[Len(b.pending) + 1]
        BY <3>2, <3>4 DEF Answered
      <3>6. OpenSince(a, s, k + 1, i)
        <4> DEFINE p == Append(b.pending, m.id)
        <4>1. /\ Len(p) = Len(b.pending) + 1 /\ p[Len(b.pending) + 1] = m.id
              /\ \A x \in 1 .. Len(b.pending) : p[x] = b.pending[x]
          BY <1>1, <1>2, <1>3
        <4>2. a.pending = p /\ a.out = b.out
          BY <2>1
        <4> HIDE DEF p, a
        <4>3. Len(p) <= Len(s[i].calls)
          BY <3>2, <3>4, <4>1
        <4>4. \A x \in 1 .. Len(p) : p[x] = s[i].calls[x]
          BY <3>1, <3>2, <3>5, <4>1 DEF OpenSince
        <4>5. b.out[n].uses = s[i].calls /\ k + 1 = i + Len(p)
          BY <3>1, <3>2, <4>1 DEF OpenSince
        <4> QED
          BY <4>2, <4>3, <4>4, <4>5 DEF OpenSince
      <3> QED
        BY <3>6
    <2>4. Building(a, s, k + 1)
      <3>1. a.out = b.out
        BY <2>1
      <3> HIDE DEF a
      <3> QED
        BY <2>2, <2>3, <3>1 DEF Building
    <2> QED
      BY <2>4
  <1>4. CASE m.id = None
    <2>1. ASSUME b.out # << >>, b.out[n].uses # << >> PROVE b.pending = b.out[n].uses
      <3>1. PICK i \in 1 .. k : OpenSince(b, s, k, i)
        BY <2>1 DEF Building
      <3>2. /\ i \in DOMAIN s /\ s[i].calls # << >> /\ s[i].calls \in Seq(CallIds)
            /\ Len(s[i].calls) \in Nat /\ DOMAIN s[i].calls = 1 .. Len(s[i].calls)
            /\ Len(b.pending) \in Nat /\ k + 1 = i + (Len(b.pending) + 1)
            /\ Len(b.pending) <= Len(s[i].calls)
        BY <1>5, <2>1, <3>1
      <3>3. ASSUME Len(b.pending) # Len(s[i].calls) PROVE FALSE
        <4>1. Len(b.pending) + 1 \in DOMAIN s[i].calls
          BY <3>2, <3>3
        <4>2. m.id = s[i].calls[Len(b.pending) + 1] /\ m.id \in CallIds
          BY <3>2, <4>1 DEF Answered
        <4> QED
          BY <1>4, <4>2, ModelCallAssumption, Zenon
      <3>4. b.pending = s[i].calls
        <4>1. Len(b.pending) = Len(s[i].calls) /\ \A x \in 1 .. Len(b.pending) : b.pending[x] = s[i].calls[x]
          BY <3>1, <3>3 DEF OpenSince
        <4> QED
          BY <1>1, <3>2, <4>1, EqualSequences
      <3> QED
        BY <3>1, <3>4 DEF OpenSince
    <2>2. f \in Builders /\ f.pending = << >> /\ AllAnswered(f.out)
      BY <2>1, FlushAnswers DEF Building
    <2>3. f = [out |-> f.out, pending |-> << >>] /\ f.out \in Seq(Blocks)
      BY <2>2 DEF Builders
    <2>4. CASE m.role = "system" \/ (m.role = "assistant" /\ m.chars = 0 /\ m.calls = << >>)
      <3>1. a = f
        BY <1>4, <2>4 DEF AddToRequest
      <3>2. Len(f.out) \in Nat /\ DOMAIN f.out = 1 .. Len(f.out) /\ (f.out # << >> => Len(f.out) \in DOMAIN f.out)
        BY <2>3
      <3>3. f.out # << >> => f.out[Len(f.out)].uses = << >>
        BY <2>2, <3>2 DEF AllAnswered, AnsweredAt
      <3> QED
        BY <2>2, <3>1, <3>3 DEF Building, AllAnswered
    <2>5. CASE ~(m.role = "system" \/ (m.role = "assistant" /\ m.chars = 0 /\ m.calls = << >>))
      <3> DEFINE block == [role |-> m.role, uses |-> m.calls, results |-> << >>]
                 out == Append(f.out, block)
                 l == Len(f.out)
      <3>1. a = [out |-> out, pending |-> << >>]
        BY <1>4, <2>3, <2>5 DEF AddToRequest
      <3>2. block \in Blocks
        BY <1>2 DEF Blocks
      <3>3. /\ out \in Seq(Blocks) /\ l \in Nat /\ Len(out) = l + 1 /\ DOMAIN out = 1 .. (l + 1)
            /\ DOMAIN f.out = 1 .. l /\ out[l + 1] = block /\ \A j \in 1 .. l : out[j] = f.out[j]
        BY <2>3, <3>2
      <3> HIDE DEF out, l
      <3>4. ASSUME NEW j \in DOMAIN out, j # Len(out), out[j].uses # << >> PROVE AnsweredAt(out, j)
        <4>1. j \in 1 .. l /\ AnsweredAt(f.out, j)
          BY <2>2, <3>3, <3>4 DEF AllAnswered
        <4>2. j < l
          BY <3>3, <4>1 DEF AnsweredAt, l
        <4> QED
          BY <3>3, <4>1, <4>2 DEF AnsweredAt
      <3>5. OpenSince(a, s, k + 1, k + 1)
        BY <1>2, <3>1, <3>3 DEF OpenSince
      <3>6. a \in Builders
        BY <3>1, <3>3 DEF Builders
      <3> QED
        BY <3>1, <3>4, <3>5, <3>6 DEF Building
    <2> QED
      BY <2>4, <2>5
  <1> QED
    BY <1>3, <1>4

\* Fold is FoldLeft: AddToRequest.
LEMMA BuilderOf == \A b, s : Build!Fold(b, s) = FoldLeft(AddToRequest, b, s)
  BY DEF Build!Fold, FoldLeft, Build!FoldLeft, MapThenFoldSet, Build!MapThenFoldSet, Max, Build!Max

\* The request of the Claude API answers every call of the history (build_request).
LEMMA ClaudeAnswers ==
  ASSUME NEW s \in Seq(Messages), Answered(s)
  PROVE  AllAnswered(ClaudeRequest(s))
  <1> DEFINE n == Len(s)
             start == [out |-> << >>, pending |-> << >>]
             I == {p \in (0 .. n) \X Builders : Building(p[2], s, p[1])}
             b == FoldLeft(AddToRequest, start, s)
  <1>1. n \in Nat /\ DOMAIN s = 1 .. n
    OBVIOUS
  <1>2. << 0, start >> \in I
    <2>1. start \in Builders /\ Building(start, s, 0)
      BY DEF Builders, Building
    <2> QED
      BY <1>1, <2>1
  <1>3. ASSUME NEW k \in 0 .. (n - 1), NEW a, << k, a >> \in I
        PROVE  << k + 1, AddToRequest(a, s[k + 1]) >> \in I
    <2>1. Building(a, s, k)
      BY <1>3
    <2>2. Building(AddToRequest(a, s[k + 1]), s, k + 1)
      BY <2>1, BuildStep
    <2>3. AddToRequest(a, s[k + 1]) \in Builders
      BY <2>2 DEF Building
    <2> QED
      BY <1>1, <2>2, <2>3
  <1>4. << n, b >> \in I
    <2> HIDE DEF I, n, start
    <2> QED
      BY <1>1, <1>2, <1>3, Build!FoldInvariant, BuilderOf, Zenon
  <1>5. Building(b, s, n)
    BY <1>4
  <1> HIDE DEF b
  <1>6. ASSUME b.out # << >>, b.out[Len(b.out)].uses # << >> PROVE b.pending = b.out[Len(b.out)].uses
    <2>1. PICK i \in 1 .. n : OpenSince(b, s, n, i)
      BY <1>5, <1>6 DEF Building
    <2>2. b.pending \in Seq(CallIds)
      BY <1>5 DEF Building, Builders
    <2>3. i \in DOMAIN s /\ s[i].calls \in Seq(CallIds) /\ s[i].calls # << >>
      BY <1>1, <1>6, <2>1, CallsOf DEF OpenSince
    <2>4. Len(s[i].calls) \in Nat /\ Len(s[i].calls) \in DOMAIN s[i].calls
      BY <2>3
    <2>5. i + Len(s[i].calls) <= n
      BY <2>3, <2>4 DEF Answered
    <2>6. Len(b.pending) = Len(s[i].calls)
      BY <2>1, <2>2, <2>4, <2>5 DEF OpenSince
    <2>7. b.pending = s[i].calls
      BY <2>1, <2>2, <2>3, <2>6, EqualSequences, Zenon DEF OpenSince
    <2> QED
      BY <2>1, <2>7 DEF OpenSince
  <1>7. AllAnswered(FlushToolResults(b).out)
    BY <1>5, <1>6, FlushAnswers DEF Building
  <1> QED
    BY <1>7 DEF ClaudeRequest, b

\* The same for the messages of OpenAI, one for each result.
LEMMA OpenAiAnswers ==
  ASSUME NEW s \in Seq(Messages), Answered(s), NEW i \in DOMAIN OpenAiRequest(s),
         OpenAiRequest(s)[i].uses # << >>, NEW k \in DOMAIN OpenAiRequest(s)[i].uses
  PROVE  /\ i + k <= Len(OpenAiRequest(s))
         /\ OpenAiRequest(s)[i + k].results = << OpenAiRequest(s)[i].uses[k] >>
  <1> DEFINE r == OpenAiRequest(s)
  <1>1. DOMAIN s = 1 .. Len(s) /\ Len(s) \in Nat /\ DOMAIN r = DOMAIN s /\ Len(r) = Len(s)
    BY DEF OpenAiRequest
  <1>2. s[i].id = None /\ r[i].uses = s[i].calls
    BY <1>1 DEF OpenAiRequest
  <1>3. s[i].calls \in Seq(CallIds) /\ s[i].calls # << >> /\ k \in DOMAIN s[i].calls
    BY <1>1, <1>2, CallsOf
  <1>4. i + k <= Len(s) /\ s[i + k].id = s[i].calls[k]
    BY <1>1, <1>3 DEF Answered
  <1>5. i + k \in DOMAIN s /\ s[i].calls[k] # None
    <2>1. k \in Nat /\ i \in Nat \ {0}
      BY <1>1, <1>3
    <2> QED
      BY <1>1, <1>3, <1>4, <2>1, ModelCallAssumption
  <1>6. r[i + k].results = << s[i + k].id >>
    BY <1>4, <1>5 DEF OpenAiRequest
  <1> QED
    BY <1>1, <1>2, <1>4, <1>6

\* Compaction keeps the answers where they are.
LEMMA CompactAnswered ==
  ASSUME NEW s \in Seq(Messages), Answered(s)
  PROVE  Answered(Compact(s))
  <1> DEFINE c == Compact(s)
  <1>1. /\ c \in Seq(Messages) /\ Len(c) = Len(s)
        /\ \A i \in DOMAIN s : c[i].id = s[i].id /\ c[i].calls = s[i].calls
    BY CompactKeeps
  <1>2. DOMAIN c = DOMAIN s /\ DOMAIN s = 1 .. Len(s) /\ Len(s) \in Nat
    BY <1>1
  <1> HIDE DEF c
  <1>3. ASSUME NEW i \in DOMAIN s, s[i].calls # << >>
        PROVE  /\ \A k \in DOMAIN s[i].calls : i + k \in DOMAIN s
               /\ LET next == i + Len(s[i].calls) + 1 IN next <= Len(s) => next \in DOMAIN s
    <2>1. Len(s[i].calls) \in Nat /\ DOMAIN s[i].calls = 1 .. Len(s[i].calls)
      BY CallsOf
    <2>2. \A k \in DOMAIN s[i].calls : k \in Nat /\ i + k <= Len(s)
      BY <1>3, <2>1 DEF Answered
    <2> QED
      BY <1>2, <2>1, <2>2
  <1> QED
    BY <1>1, <1>2, <1>3 DEF Answered, c

-----------------------------------------------------------------------------
\* What is sent is the compacted history, and nothing of it stays behind.
RequestInv ==
  /\ dialect \in {"openai", "claude"}
  /\ phase = "compact" => messages \in Histories
  /\ phase = "send" => \E s \in Histories :
       /\ messages = Compact(s)
       /\ request = IF dialect = "openai" THEN OpenAiRequest(messages) ELSE ClaudeRequest(messages)
  /\ phase # "send" => request = << >>

\* The messages are the compacted copy of a history from BuildRequest on.
LEMMA RequestStep == RequestInv /\ [Next]_vars => RequestInv'
  <1> SUFFICES ASSUME RequestInv, [Next]_vars PROVE RequestInv'
    OBVIOUS
  <1>1. CASE BuildRequest
    <2>1. \E s \in Histories : messages' = Compact(s)
      BY <1>1 DEF BuildRequest, RequestInv
    <2>2. phase' = "send" /\ dialect' \in {"openai", "claude"}
      BY <1>1 DEF BuildRequest, RequestInv
    <2>3. request' = IF dialect' = "openai" THEN OpenAiRequest(messages') ELSE ClaudeRequest(messages')
      BY <1>1 DEF BuildRequest
    <2> QED
      BY <2>1, <2>2, <2>3 DEF RequestInv
  <1>2. CASE RequestFails \/ Generate \/ BeginStream
    <2>1. request' = << >> /\ dialect' = dialect /\ phase' \in {"returned", "stream"}
      BY <1>2 DEF RequestFails, Generate, BeginStream, Return
    <2> QED
      BY <2>1 DEF RequestInv
  <1>3. ASSUME \/ TextFragment \/ UsageArrives \/ StreamEnds \/ StreamFails
               \/ \E i \in DOMAIN said.calls : CallStarts(i) \/ Arguments(i)
        PROVE  RequestInv'
    <2>1. phase = "stream" /\ phase' \in {"stream", "returned"} /\ UNCHANGED << dialect, request >>
      BY <1>3, Zenon DEF TextFragment, UsageArrives, StreamEnds, StreamFails, CallStarts, Arguments, Return, Streaming
    <2> QED
      BY <2>1 DEF RequestInv
  <1>4. CASE UNCHANGED vars
    BY <1>4 DEF vars, RequestInv
  <1> QED
    BY <1>1, <1>2, <1>3, <1>4 DEF Next

\* RequestInv holds in every reachable state.
LEMMA RequestInvariant == Spec => []RequestInv
  <1>1. Init => RequestInv
    BY DEF Init, RequestInv
  <1> QED
    BY <1>1, RequestStep, PTL DEF Spec

\* Every call of a history is answered in the very next message or messages of the
\* request, for any histories of the kind runs write and any budget: compaction keeps
\* calls and ids, and the loop of build_request holds the results of one answer back
\* until the last of them (compact_message, build_request).
THEOREM RequestsAreAnswered == Spec => []AnswersFollowCalls
  <1>1. RequestInv => AnswersFollowCalls
    <2> SUFFICES ASSUME RequestInv, NEW i \in DOMAIN request, request[i].uses # << >>
                 PROVE  IF dialect = "claude"
                          THEN /\ i < Len(request)
                               /\ ToSet(request[i].uses) = ToSet(request[i + 1].results)
                          ELSE \A k \in DOMAIN request[i].uses :
                                 /\ i + k <= Len(request)
                                 /\ request[i + k].results = << request[i].uses[k] >>
      BY DEF AnswersFollowCalls
    <2>1. phase = "send"
      BY DEF RequestInv
    <2>2. PICK s \in Histories : messages = Compact(s)
      BY <2>1 DEF RequestInv
    <2>3. messages \in Seq(Messages) /\ Answered(messages)
      BY <2>2, HistoriesAssumption, CompactKeeps, CompactAnswered
    <2>4. CASE dialect = "claude"
      <3>1. AllAnswered(ClaudeRequest(messages)) /\ request = ClaudeRequest(messages)
        BY <2>1, <2>3, <2>4, ClaudeAnswers DEF RequestInv
      <3> QED
        BY <2>4, <3>1 DEF AllAnswered, AnsweredAt
    <2>5. CASE dialect = "openai"
      <3>1. request = OpenAiRequest(messages)
        BY <2>1, <2>5 DEF RequestInv
      <3> QED
        BY <2>3, <2>5, <3>1, OpenAiAnswers
    <2> QED
      BY <2>4, <2>5 DEF RequestInv
  <1> QED
    BY <1>1, RequestInvariant, PTL

\* A request stays over the budget only when nothing in it can still be shortened, for
\* any budget whose markers are no longer than what they stand for (compact).
THEOREM BudgetIsKept == Spec => []OverBudgetOnlyWhenProtected
  <1>1. RequestInv => OverBudgetOnlyWhenProtected
    <2> SUFFICES ASSUME RequestInv, phase = "send", EstimateChars(messages) > Budget.max_chars,
                        NEW i \in DOMAIN messages
                 PROVE  LET m == messages[i] IN
                   /\ m.id # None /\ Recent(i, messages) => m.chars <= Budget.max_recent_observation_chars
                   /\ m.id # None /\ ~Recent(i, messages) => m.chars <= Budget.far_observation_mask_chars
                   /\ m.role = "assistant" /\ ~Recent(i, messages) => m.chars <= Budget.far_assistant_fold_chars
      BY DEF OverBudgetOnlyWhenProtected
    <2>1. PICK s \in Histories : messages = Compact(s)
      BY DEF RequestInv
    <2>2. s \in Seq(Messages) /\ \A j \in DOMAIN s : s[j].role = "system" => s[j].id = None
      BY HistoriesAssumption
    <2>3. ~(EstimateChars(s) <= Budget.max_chars)
      <3>1. EstimateChars(s) \in Nat /\ Budget.max_chars \in Nat
        BY <2>2, EstimateIsNat, ModelCallAssumption
      <3> QED
        BY <2>1, <3>1 DEF Compact
    <2>4. messages = [j \in DOMAIN s |-> CompactMessage(Recent(j, s), s[j])]
      BY <2>1, <2>3 DEF Compact
    <2>5. i \in DOMAIN s /\ s[i] \in Messages /\ messages[i] = CompactMessage(Recent(i, s), s[i])
      BY <2>2, <2>4
    <2>6. Recent(i, messages) <=> Recent(i, s)
      BY <2>1, <2>2, CompactKeeps DEF Recent
    <2>7. messages[i].role = s[i].role /\ messages[i].id = s[i].id
      BY <2>1, <2>2, <2>5, CompactKeeps
    <2>8. LET c == CompactMessage(Recent(i, s), s[i]) IN
            /\ s[i].id # None /\ Recent(i, s) => c.chars <= Budget.max_recent_observation_chars
            /\ s[i].id # None /\ ~Recent(i, s) => c.chars <= Budget.far_observation_mask_chars
            /\ s[i].role = "assistant" /\ ~Recent(i, s) => c.chars <= Budget.far_assistant_fold_chars
      BY <2>2, <2>5, MessageFits
    <2> QED
      BY <2>5, <2>6, <2>7, <2>8
  <1> QED
    BY <1>1, RequestInvariant, PTL

-----------------------------------------------------------------------------
\* The pieces of an argument, one more at a time.
LEMMA PiecesGrow ==
  ASSUME NEW n \in Nat
  PROVE  /\ Pieces(n) \in Seq(Nat) /\ Len(Pieces(n)) = n
         /\ Append(Pieces(n), n + 1) = Pieces(n + 1)
  <1>1. Pieces(n) \in Seq(Nat) /\ Len(Pieces(n)) = n
    BY DEF Pieces
  <1>2. Append(Pieces(n), n + 1) = Pieces(n + 1)
    BY <1>1 DEF Pieces
  <1> QED
    BY <1>1, <1>2

\* Nothing has come yet.
LEMMA NoPieces == Pieces(0) = << >>
  BY DEF Pieces

\* Arguments of different lengths differ.
LEMMA PiecesDiffer ==
  ASSUME NEW m \in Nat, NEW n \in Nat, Pieces(m) = Pieces(n)
  PROVE  m = n
  BY PiecesGrow

\* Fold is FoldLeft: AddNamed.
LEMMA NamesOf == \A b, s : Pick!Fold(b, s) = FoldLeft(AddNamed, b, s)
  BY DEF Pick!Fold, FoldLeft, Pick!FoldLeft, MapThenFoldSet, Pick!MapThenFoldSet, Max, Pick!Max

\* The filter of into_message: it invents no entry, and without padding it keeps all.
LEMMA FilterFacts ==
  ASSUME NEW T, NEW c \in Seq(T)
  PROVE  LET f == FoldLeft(AddNamed, << >>, c) IN
         /\ f \in Seq(T)
         /\ \A j \in DOMAIN f : f[j].id # None /\ \E x \in DOMAIN c : f[j] = c[x]
         /\ (\A x \in DOMAIN c : c[x].id # None) => f = c
  <1> DEFINE n == Len(c)
             Kept(k, f) == /\ \A j \in DOMAIN f : f[j].id # None /\ \E x \in DOMAIN c : f[j] = c[x]
                           /\ (\A x \in DOMAIN c : c[x].id # None) =>
                                Len(f) = k /\ \A j \in 1 .. k : f[j] = c[j]
             I == {p \in (0 .. n) \X Seq(T) : Kept(p[1], p[2])}
             f == FoldLeft(AddNamed, << >>, c)
  <1>1. n \in Nat /\ DOMAIN c = 1 .. n
    OBVIOUS
  <1>2. << 0, << >> >> \in I
    <2>1. Kept(0, << >>) /\ << >> \in Seq(T) /\ 0 \in 0 .. n
      BY <1>1
    <2> HIDE DEF Kept
    <2> QED
      BY <2>1, Zenon
  <1>3. ASSUME NEW k \in 0 .. (n - 1), NEW a, << k, a >> \in I
        PROVE  << k + 1, AddNamed(a, c[k + 1]) >> \in I
    <2> DEFINE e == c[k + 1]
    <2>1. a \in Seq(T) /\ Kept(k, a) /\ k + 1 \in DOMAIN c /\ e \in T /\ k + 1 \in 0 .. n /\ k \in Nat
      BY <1>1, <1>3
    <2>2. CASE e.id = None
      <3>1. AddNamed(a, e) = a
        BY <2>2 DEF AddNamed
      <3>2. Kept(k + 1, a)
        BY <2>1, <2>2
      <3> HIDE DEF Kept
      <3> QED
        BY <2>1, <3>1, <3>2
    <2>3. CASE e.id # None
      <3>1. AddNamed(a, e) = Append(a, e)
        BY <2>3 DEF AddNamed
      <3>2. /\ Append(a, e) \in Seq(T) /\ Len(a) \in Nat /\ Len(Append(a, e)) = Len(a) + 1
            /\ DOMAIN Append(a, e) = 1 .. (Len(a) + 1) /\ DOMAIN a = 1 .. Len(a)
            /\ Append(a, e)[Len(a) + 1] = e
            /\ \A j \in 1 .. Len(a) : Append(a, e)[j] = a[j]
        BY <2>1
      <3>3. Kept(k + 1, Append(a, e))
        <4> DEFINE g == Append(a, e)
        <4> HIDE DEF g
        <4>1. ASSUME NEW j \in DOMAIN g PROVE g[j].id # None /\ \E x \in DOMAIN c : g[j] = c[x]
          <5>1. CASE j \in 1 .. Len(a)
            BY <2>1, <3>2, <5>1, Zenon DEF g
          <5>2. CASE j = Len(a) + 1
            BY <2>1, <2>3, <3>2, <5>2, Zenon DEF g
          <5> QED
            BY <3>2, <5>1, <5>2 DEF g
        <4>2. ASSUME \A x \in DOMAIN c : c[x].id # None
              PROVE  Len(g) = k + 1 /\ \A j \in 1 .. (k + 1) : g[j] = c[j]
          <5>1. Len(a) = k /\ \A j \in 1 .. k : a[j] = c[j]
            BY <2>1, <4>2
          <5> QED
            BY <2>1, <3>2, <5>1 DEF g
        <4> QED
          BY <4>1, <4>2 DEF g
      <3> HIDE DEF Kept
      <3> QED
        BY <2>1, <3>1, <3>2, <3>3, Zenon
    <2> QED
      BY <2>2, <2>3
  <1>4. << n, f >> \in I
    <2> HIDE DEF I, n
    <2> QED
      BY <1>1, <1>2, <1>3, Pick!FoldInvariant, NamesOf, Zenon
  <1>5. f \in Seq(T) /\ Kept(n, f)
    BY <1>4
  <1> HIDE DEF f
  <1>6. (\A x \in DOMAIN c : c[x].id # None) => f = c
    BY <1>1, <1>5, EqualSequences
  <1> QED
    BY <1>5, <1>6 DEF f

-----------------------------------------------------------------------------
Entries == [id : CallIds \cup {None}, args : Seq(Nat)]

\* What has arrived of the response is what the accumulator holds, entry by entry.
SentTyped ==
  /\ said \in Responses
  /\ dialect = "openai" => (said.usage.input = None <=> said.usage.output = None)
  /\ sent \in [text : Nat, input : BOOLEAN, output : BOOLEAN,
               started : [DOMAIN said.calls -> BOOLEAN], args : [DOMAIN said.calls -> Nat]]

EntryFor(k) == IF sent.started[k] THEN [id |-> said.calls[k].id, args |-> Pieces(sent.args[k])]
               ELSE Padding

CallsAccumulated ==
  /\ calls \in Seq(Entries) /\ Len(calls) <= Len(said.calls)
  /\ \A k \in DOMAIN calls : calls[k] = EntryFor(k)
  /\ \A k \in DOMAIN said.calls : IF sent.started[k] THEN k <= Len(calls) ELSE sent.args[k] = 0
  /\ dialect = "claude" => \A k \in DOMAIN calls : sent.started[k]

UsageAccumulated ==
  usage = [input |-> IF sent.input THEN said.usage.input ELSE None,
           output |-> IF sent.output THEN said.usage.output ELSE None]

Streamed ==
  /\ SentTyped
  /\ content = Pieces(sent.text) /\ shown = content
  /\ CallsAccumulated
  /\ UsageAccumulated

StreamInv ==
  /\ dialect \in {"openai", "claude"}
  /\ phase \in {"compact", "send", "stream", "returned"}
  /\ said \in Responses \cup {None}
  /\ phase \in {"compact", "send"} => content = << >> /\ calls = << >> /\ usage = NoUsage /\ shown = << >>
  /\ phase = "stream" => Streamed
  /\ phase = "returned" => calls = << >> \/ Streamed
  /\ phase # "returned" => ending = None /\ telemetry = [calls |-> 0, failed |-> 0]
  /\ ending # None => Streamed
  /\ ending \in {"whole", "cut"} => result = IntoMessage /\ (ending = "whole" => AllSent)
  /\ telemetry \in [calls : Nat, failed : Nat]
  /\ telemetry.failed <= telemetry.calls /\ telemetry.calls <= 1

\* The parts of a response.
LEMMA ResponseFacts ==
  ASSUME NEW r \in Responses
  PROVE  /\ r # None
         /\ r.text \in Nat
         /\ Len(r.calls) \in Nat /\ DOMAIN r.calls = 1 .. Len(r.calls)
         /\ \A i \in DOMAIN r.calls : r.calls[i].id \in CallIds /\ r.calls[i].id # None /\ r.calls[i].pieces \in Nat
         /\ \A i, j \in DOMAIN r.calls : r.calls[i].id = r.calls[j].id => i = j
         /\ r.usage = [input |-> r.usage.input, output |-> r.usage.output]
  <1>1. /\ r.text \in Nat /\ r.calls \in Seq([id : CallIds, pieces : Nat])
        /\ r.usage \in [input : Nat \cup {None}, output : Nat \cup {None}]
    BY ResponsesAssumption, Zenon
  <1>2. \A i \in DOMAIN r.calls : r.calls[i] \in [id : CallIds, pieces : Nat]
    <2> DEFINE T == [id : CallIds, pieces : Nat]
    <2>1. r.calls \in Seq(T)
      BY <1>1
    <2> HIDE DEF T
    <2>2. \A i \in DOMAIN r.calls : r.calls[i] \in T
      BY <2>1
    <2> QED
      BY <2>2 DEF T
  <1> QED
    BY <1>1, <1>2, ResponsesAssumption, ModelCallAssumption

\* A stream begins with nothing sent and nothing accumulated.
LEMMA BeginStreams ==
  ASSUME phase = "send", content = << >>, calls = << >>, usage = NoUsage, shown = << >>, BeginStream
  PROVE  Streamed'
  <1>1. said' \in Responses /\ (dialect' = "openai" => (said'.usage.input = None <=> said'.usage.output = None))
    BY DEF BeginStream, Speakable
  <1>2. UNCHANGED << dialect, content, calls, usage, shown >>
    BY DEF BeginStream
  <1>3. sent' = [text |-> 0, input |-> FALSE, output |-> FALSE,
                 started |-> [i \in DOMAIN said'.calls |-> FALSE],
                 args |-> [i \in DOMAIN said'.calls |-> 0]]
    BY DEF BeginStream
  <1>4. SentTyped'
    BY <1>1, <1>3 DEF SentTyped
  <1>5. CallsAccumulated'
    BY <1>1, <1>2, <1>3, ResponseFacts DEF CallsAccumulated
  <1>6. UsageAccumulated'
    BY <1>2, <1>3 DEF UsageAccumulated, NoUsage
  <1> QED
    BY <1>2, <1>3, <1>4, <1>5, <1>6, NoPieces DEF Streamed

\* The parts of what has been sent, one by one.
LEMMA SentParts ==
  ASSUME SentTyped
  PROVE  /\ sent = [text |-> sent.text, input |-> sent.input, output |-> sent.output,
                    started |-> sent.started, args |-> sent.args]
         /\ sent.text \in Nat /\ sent.input \in BOOLEAN /\ sent.output \in BOOLEAN
         /\ sent.started \in [DOMAIN said.calls -> BOOLEAN]
         /\ sent.args \in [DOMAIN said.calls -> Nat]
  BY DEF SentTyped

\* A fragment of the text is appended to the content and shown.
LEMMA TextStreams ==
  ASSUME Streamed, TextFragment
  PROVE  Streamed'
  <1>1. /\ UNCHANGED << dialect, said, calls, usage >>
        /\ sent' = [sent EXCEPT !.text = @ + 1]
        /\ shown' = Append(shown, sent.text + 1) /\ content' = Append(content, sent.text + 1)
    BY DEF TextFragment
  <1>2. SentTyped
    BY DEF Streamed
  <1>3. /\ sent'.text = sent.text + 1 /\ sent'.input = sent.input /\ sent'.output = sent.output
        /\ sent'.started = sent.started /\ sent'.args = sent.args
        /\ SentTyped'
    <2>1. sent' = [text |-> sent.text + 1, input |-> sent.input, output |-> sent.output,
                   started |-> sent.started, args |-> sent.args]
      BY <1>1, <1>2, SentParts, Zenon
    <2>2. sent.text + 1 \in Nat
      BY <1>2, SentParts
    <2> QED
      BY <1>1, <1>2, <2>1, <2>2, SentParts, Zenon DEF SentTyped
  <1>4. CallsAccumulated' /\ UsageAccumulated'
    BY <1>1, <1>3 DEF Streamed, CallsAccumulated, UsageAccumulated, EntryFor
  <1>5. content' = Pieces(sent'.text) /\ shown' = content'
    BY <1>1, <1>2, <1>3, SentParts, PiecesGrow DEF Streamed
  <1> QED
    BY <1>3, <1>4, <1>5 DEF Streamed

\* The usage that arrives is the one the model has said.
LEMMA UsageStreams ==
  ASSUME Streamed, UsageArrives
  PROVE  Streamed'
  <1>1. UNCHANGED << dialect, said, content, calls, shown >>
    BY DEF UsageArrives
  <1>2. SentTyped
    BY DEF Streamed
  <1>3. /\ sent'.text = sent.text /\ sent'.started = sent.started /\ sent'.args = sent.args
        /\ SentTyped'
    BY <1>1, <1>2, SentParts, Zenon DEF SentTyped, UsageArrives
  <1>4. CallsAccumulated' /\ content' = Pieces(sent'.text) /\ shown' = content'
    BY <1>1, <1>3 DEF Streamed, CallsAccumulated, EntryFor
  <1>5. UsageAccumulated'
    <2>1. usage = [input |-> IF sent.input THEN said.usage.input ELSE None,
                   output |-> IF sent.output THEN said.usage.output ELSE None]
      BY DEF Streamed, UsageAccumulated
    <2>2. said.usage = [input |-> said.usage.input, output |-> said.usage.output]
      BY <1>2, ResponseFacts DEF SentTyped
    <2> QED
      BY <1>1, <1>2, <2>1, <2>2, SentParts, Zenon DEF UsageArrives, UsageAccumulated
  <1> QED
    BY <1>3, <1>4, <1>5 DEF Streamed

\* Padding goes exactly as far as the call's own index.
LEMMA PaddedFacts ==
  ASSUME NEW n \in Nat, calls \in Seq(Entries), n = Len(calls), NEW i \in Nat
  PROVE  LET p == Padded(i) IN
         /\ p \in Seq(Entries)
         /\ Len(p) = IF i > n THEN i ELSE n
         /\ \A k \in 1 .. Len(p) : p[k] = IF k <= n THEN calls[k] ELSE Padding
  <1> DEFINE m == IF i > n THEN i - n ELSE 0
             q == [k \in 1 .. m |-> Padding]
  <1>1. m \in Nat /\ Padding \in Entries
    BY DEF Entries, Padding
  <1>2. q \in Seq(Entries) /\ Len(q) = m /\ \A k \in 1 .. m : q[k] = Padding
    BY <1>1
  <1>3. Padded(i) = calls \o q
    BY DEF Padded
  <1> HIDE DEF q
  <1>4. /\ calls \o q \in Seq(Entries) /\ Len(calls \o q) = n + m
        /\ \A k \in 1 .. (n + m) : (calls \o q)[k] = IF k <= n THEN calls[k] ELSE q[k - n]
    BY <1>1, <1>2
  <1>5. \A k \in 1 .. (n + m) : k <= n \/ k - n \in 1 .. m
    BY <1>1
  <1> QED
    BY <1>1, <1>2, <1>3, <1>4, <1>5

\* What a call that starts does to the accumulator, in either provider.
LEMMA StartFacts ==
  ASSUME Streamed, dialect \in {"openai", "claude"}, NEW i \in DOMAIN said.calls, CallStarts(i)
  PROVE  /\ calls' \in Seq(Entries) /\ Len(calls') = IF i > Len(calls) THEN i ELSE Len(calls)
         /\ calls'[i] = [id |-> said.calls[i].id, args |-> << >>]
         /\ \A k \in 1 .. Len(calls') : k # i => calls'[k] = IF k <= Len(calls) THEN calls[k] ELSE Padding
         /\ dialect = "claude" => i = Len(calls) + 1
  <1> DEFINE n == Len(calls)
             e == [id |-> said.calls[i].id, args |-> << >>]
  <1>1. /\ calls \in Seq(Entries) /\ n \in Nat /\ DOMAIN calls = 1 .. n
        /\ SentTyped /\ CallsAccumulated
    BY DEF Streamed, CallsAccumulated
  <1>2. /\ i \in Nat \ {0} /\ Len(said.calls) \in Nat /\ DOMAIN said.calls = 1 .. Len(said.calls)
        /\ e \in Entries
    <2>1. said.calls[i].id \in CallIds /\ Len(said.calls) \in Nat /\ DOMAIN said.calls = 1 .. Len(said.calls)
      BY <1>1, ResponseFacts, Zenon DEF SentTyped
    <2>2. << >> \in Seq(Nat)
      OBVIOUS
    <2>3. e \in Entries
      BY <2>1, <2>2 DEF Entries
    <2> QED
      BY <2>1, <2>3
  <1>3. ~sent.started[i]
    BY DEF CallStarts
  <1>4. CASE dialect = "openai"
    <2> DEFINE p == Padded(i)
    <2>1. /\ p \in Seq(Entries) /\ Len(p) = (IF i > n THEN i ELSE n)
          /\ \A k \in 1 .. Len(p) : p[k] = IF k <= n THEN calls[k] ELSE Padding
      BY <1>1, <1>2, PaddedFacts, Zenon
    <2>2. calls' = [p EXCEPT ![i].id = said.calls[i].id]
      BY <1>4 DEF CallStarts
    <2> HIDE DEF p
    <2>3. i \in 1 .. Len(p) /\ p[i] = Padding /\ DOMAIN p = 1 .. Len(p) /\ Len(p) \in Nat
      BY <1>1, <1>2, <1>3, <2>1 DEF CallsAccumulated, EntryFor
    <2>4. calls' = [p EXCEPT ![i] = e]
      <3>1. [p[i] EXCEPT !.id = said.calls[i].id] = e
        BY <2>3 DEF Padding
      <3> QED
        BY <2>2, <2>3, <3>1, Zenon
    <2>5. /\ calls' \in Seq(Entries) /\ Len(calls') = Len(p) /\ calls'[i] = e
          /\ \A k \in 1 .. Len(p) : k # i => calls'[k] = p[k]
      BY <1>2, <2>1, <2>3, <2>4
    <2> QED
      BY <1>4, <2>1, <2>5
  <1>5. CASE dialect = "claude"
    <2>1. n = i - 1
      <3>1. i \notin DOMAIN calls
        BY <1>1, <1>3, <1>5 DEF CallsAccumulated
      <3>2. \A k \in 1 .. (i - 1) : sent.started[k] /\ k \in DOMAIN said.calls
        BY <1>2, <1>5 DEF CallStarts, Orderly, CallDone
      <3>3. i - 1 = 0 \/ i - 1 <= n
        BY <1>1, <1>2, <3>2 DEF CallsAccumulated
      <3> QED
        BY <1>1, <1>2, <3>1, <3>3
    <2>2. calls' = Append(calls, e)
      BY <1>5 DEF CallStarts
    <2> QED
      BY <1>1, <1>2, <2>1, <2>2
  <1> QED
    BY <1>4, <1>5

\* A call that starts has its entry, named, behind or in place of the padding.
LEMMA StartStreams ==
  ASSUME Streamed, dialect \in {"openai", "claude"}, NEW i \in DOMAIN said.calls, CallStarts(i)
  PROVE  Streamed'
  <1>1. /\ UNCHANGED << dialect, said, content, usage, shown >>
        /\ sent' = [sent EXCEPT !.started[i] = TRUE] /\ ~sent.started[i]
    BY DEF CallStarts
  <1>2. SentTyped /\ CallsAccumulated
    BY DEF Streamed
  <1>3. /\ sent'.text = sent.text /\ sent'.input = sent.input /\ sent'.output = sent.output
        /\ sent'.started = [sent.started EXCEPT ![i] = TRUE] /\ sent'.args = sent.args
        /\ SentTyped'
    <2>1. sent' = [text |-> sent.text, input |-> sent.input, output |-> sent.output,
                   started |-> [sent.started EXCEPT ![i] = TRUE], args |-> sent.args]
      BY <1>1, <1>2, SentParts, Zenon
    <2>2. [sent.started EXCEPT ![i] = TRUE] \in [DOMAIN said.calls -> BOOLEAN]
      BY <1>2, SentParts
    <2> QED
      BY <1>1, <1>2, <2>1, <2>2, SentParts, Zenon DEF SentTyped
  <1>4. /\ calls' \in Seq(Entries) /\ Len(calls') = (IF i > Len(calls) THEN i ELSE Len(calls))
        /\ calls'[i] = [id |-> said.calls[i].id, args |-> << >>]
        /\ \A k \in 1 .. Len(calls') : k # i => calls'[k] = IF k <= Len(calls) THEN calls[k] ELSE Padding
        /\ dialect = "claude" => i = Len(calls) + 1
    BY StartFacts
  <1>5. /\ i \in Nat \ {0} /\ Len(said.calls) \in Nat /\ DOMAIN said.calls = 1 .. Len(said.calls)
        /\ Len(calls) \in Nat /\ DOMAIN calls = 1 .. Len(calls) /\ DOMAIN calls' = 1 .. Len(calls')
    BY <1>2, <1>4, ResponseFacts DEF SentTyped, CallsAccumulated
  <1>6. sent.args[i] = 0 /\ Len(calls) <= Len(said.calls)
    BY <1>1, <1>2 DEF CallsAccumulated
  <1>7. \A k \in DOMAIN said.calls : sent'.started[k] = IF k = i THEN TRUE ELSE sent.started[k]
    BY <1>2, <1>3, SentParts, Zenon
  <1>8. ASSUME NEW k \in DOMAIN calls' PROVE calls'[k] = EntryFor(k)'
    <2>1. k \in DOMAIN said.calls
      BY <1>4, <1>5, <1>6
    <2>2. CASE k = i
      BY <1>1, <1>3, <1>4, <1>6, <1>7, <2>1, <2>2, NoPieces, Zenon DEF EntryFor
    <2>3. CASE k # i /\ k <= Len(calls)
      <3>1. calls'[k] = calls[k] /\ k \in DOMAIN calls
        BY <1>4, <1>5, <2>3
      <3> QED
        BY <1>1, <1>2, <1>3, <1>7, <2>1, <2>3, <3>1 DEF EntryFor, CallsAccumulated
    <2>4. CASE k # i /\ ~(k <= Len(calls))
      <3>1. calls'[k] = Padding /\ ~sent.started[k]
        BY <1>2, <1>4, <1>5, <2>1, <2>4 DEF CallsAccumulated
      <3> QED
        BY <1>1, <1>7, <2>1, <2>4, <3>1 DEF EntryFor
    <2> QED
      BY <2>2, <2>3, <2>4
  <1>9. ASSUME NEW k \in DOMAIN said.calls
        PROVE  IF sent'.started[k] THEN k <= Len(calls') ELSE sent'.args[k] = 0
    BY <1>2, <1>3, <1>4, <1>5, <1>7 DEF CallsAccumulated
  <1>10. ASSUME dialect = "claude", NEW k \in DOMAIN calls' PROVE sent'.started[k]
    <2>1. k \in DOMAIN said.calls /\ (k = i \/ k \in DOMAIN calls)
      BY <1>4, <1>5, <1>6, <1>10
    <2> QED
      BY <1>2, <1>7, <1>10, <2>1, Zenon DEF CallsAccumulated
  <1>11. CallsAccumulated'
    BY <1>1, <1>4, <1>5, <1>6, <1>8, <1>9, <1>10 DEF CallsAccumulated
  <1> QED
    BY <1>1, <1>3, <1>11 DEF Streamed, UsageAccumulated

\* A fragment of arguments goes to the entry of its call.
LEMMA ArgumentsStream ==
  ASSUME Streamed, dialect \in {"openai", "claude"}, NEW i \in DOMAIN said.calls, Arguments(i)
  PROVE  Streamed'
  <1>1. /\ UNCHANGED << dialect, said, content, usage, shown >>
        /\ sent' = [sent EXCEPT !.args[i] = @ + 1] /\ sent.started[i]
        /\ calls' = [calls EXCEPT ![EntryOf(i)].args = Append(@, sent.args[i] + 1)]
    BY DEF Arguments
  <1>2. SentTyped /\ CallsAccumulated
    BY DEF Streamed
  <1>3. /\ sent'.text = sent.text /\ sent'.input = sent.input /\ sent'.output = sent.output
        /\ sent'.started = sent.started /\ sent'.args = [sent.args EXCEPT ![i] = @ + 1]
        /\ sent.args[i] \in Nat /\ SentTyped'
    <2>1. sent' = [text |-> sent.text, input |-> sent.input, output |-> sent.output,
                   started |-> sent.started, args |-> [sent.args EXCEPT ![i] = @ + 1]]
      BY <1>1, <1>2, SentParts, Zenon
    <2>2. sent.args[i] \in Nat /\ [sent.args EXCEPT ![i] = @ + 1] \in [DOMAIN said.calls -> Nat]
      BY <1>2, SentParts
    <2> QED
      BY <1>1, <1>2, <2>1, <2>2, SentParts, Zenon DEF SentTyped
  <1>4. /\ calls \in Seq(Entries) /\ Len(calls) \in Nat /\ DOMAIN calls = 1 .. Len(calls)
        /\ Len(calls) <= Len(said.calls) /\ Len(said.calls) \in Nat
        /\ DOMAIN said.calls = 1 .. Len(said.calls) /\ i \in DOMAIN calls
    BY <1>1, <1>2, ResponseFacts DEF SentTyped, CallsAccumulated
  <1>5. calls[i] = [id |-> said.calls[i].id, args |-> Pieces(sent.args[i])]
    BY <1>1, <1>2, <1>4 DEF CallsAccumulated, EntryFor
  <1>6. EntryOf(i) = i
    <2>1. CASE dialect = "openai"
      BY <2>1 DEF EntryOf
    <2>2. CASE dialect = "claude"
      <3>1. \A k \in DOMAIN calls : calls[k].id = said.calls[k].id /\ k \in DOMAIN said.calls
        BY <1>2, <1>4, <2>2 DEF CallsAccumulated, EntryFor
      <3>2. \A k \in DOMAIN calls : calls[k].id = said.calls[i].id <=> k = i
        BY <1>2, <1>4, <3>1, ResponseFacts, Zenon DEF SentTyped
      <3>3. EntryOf(i) = CHOOSE k \in DOMAIN calls : calls[k].id = said.calls[i].id
        BY <2>2 DEF EntryOf
      <3> QED
        BY <1>4, <3>2, <3>3
    <2> QED
      BY <2>1, <2>2
  <1> DEFINE e == [id |-> said.calls[i].id, args |-> Pieces(sent.args[i] + 1)]
  <1>7. calls' = [calls EXCEPT ![i] = e]
    <2>1. Append(Pieces(sent.args[i]), sent.args[i] + 1) = Pieces(sent.args[i] + 1)
      BY <1>3, PiecesGrow, Zenon
    <2>2. [calls[i] EXCEPT !.args = Append(@, sent.args[i] + 1)] = e
      BY <1>5, <2>1
    <2> QED
      BY <1>1, <1>4, <1>6, <2>2, Zenon
  <1>8. e \in Entries
    <2>1. said.calls[i].id \in CallIds
      BY <1>2, ResponseFacts, Zenon DEF SentTyped
    <2>2. sent.args[i] + 1 \in Nat
      BY <1>3
    <2>3. Pieces(sent.args[i] + 1) \in Seq(Nat)
      BY <2>2, PiecesGrow
    <2> QED
      BY <2>1, <2>3 DEF Entries
  <1> HIDE DEF e
  <1>9. /\ calls' \in Seq(Entries) /\ Len(calls') = Len(calls) /\ DOMAIN calls' = DOMAIN calls
        /\ calls'[i] = e /\ \A k \in DOMAIN calls : k # i => calls'[k] = calls[k]
    BY <1>4, <1>7, <1>8
  <1>10. \A k \in DOMAIN said.calls : sent'.args[k] = IF k = i THEN sent.args[i] + 1 ELSE sent.args[k]
    BY <1>2, <1>3, SentParts
  <1>11. ASSUME NEW k \in DOMAIN calls PROVE calls'[k] = EntryFor(k)'
    <2>1. k \in DOMAIN said.calls
      BY <1>4
    <2>2. CASE k = i
      BY <1>1, <1>3, <1>9, <1>10, <2>1, <2>2 DEF EntryFor, e
    <2>3. CASE k # i
      BY <1>1, <1>2, <1>3, <1>9, <1>10, <2>1, <2>3 DEF EntryFor, CallsAccumulated
    <2> QED
      BY <2>2, <2>3
  <1>12. \A k \in DOMAIN said.calls : IF sent'.started[k] THEN k <= Len(calls') ELSE sent'.args[k] = 0
    BY <1>1, <1>2, <1>3, <1>9, <1>10 DEF CallsAccumulated
  <1>13. CallsAccumulated'
    BY <1>1, <1>2, <1>3, <1>9, <1>11, <1>12 DEF CallsAccumulated
  <1> QED
    BY <1>1, <1>3, <1>13 DEF Streamed, UsageAccumulated

\* Every step of a stream keeps what is accumulated to what has been sent.
LEMMA StreamStep == StreamInv /\ [Next]_vars => StreamInv'
  <1> SUFFICES ASSUME StreamInv, [Next]_vars PROVE StreamInv'
    OBVIOUS
  <1>1. CASE BuildRequest
    BY <1>1, ModelCallAssumption DEF BuildRequest, StreamInv, streamVars
  <1>2. ASSUME NEW r, Return(r), phase # "returned"
        PROVE  /\ phase' = "returned" /\ result' = r
               /\ telemetry' \in [calls : Nat, failed : Nat]
               /\ telemetry'.failed <= telemetry'.calls /\ telemetry'.calls <= 1
    BY <1>2 DEF Return, Counted, StreamInv
  <1>3. CASE RequestFails
    <2>1. phase = "send" /\ Return(Failure) /\ UNCHANGED << dialect, said, streamVars, ending >>
      BY <1>3 DEF RequestFails
    <2> QED
      BY <1>2, <2>1, ModelCallAssumption DEF StreamInv, streamVars
  <1>4. CASE Generate
    <2>1. phase = "send" /\ Return(ParseResponse(said')) /\ said' \in Responses /\ UNCHANGED << dialect, streamVars, ending >>
      BY <1>4 DEF Generate, Speakable
    <2> QED
      BY <1>2, <2>1, ModelCallAssumption DEF StreamInv, streamVars
  <1>5. CASE BeginStream
    <2>1. Streamed'
      BY <1>5, BeginStreams DEF StreamInv, BeginStream
    <2>2. phase = "send" /\ phase' = "stream" /\ said' \in Responses /\ UNCHANGED << dialect, ending, result, telemetry >>
      BY <1>5 DEF BeginStream, Speakable
    <2> QED
      BY <2>1, <2>2, ModelCallAssumption DEF StreamInv
  <1>6. ASSUME TextFragment \/ UsageArrives \/ \E i \in DOMAIN said.calls : CallStarts(i) \/ Arguments(i)
        PROVE  StreamInv'
    <2>1. Streamed /\ dialect \in {"openai", "claude"}
      BY <1>6, Zenon DEF StreamInv, TextFragment, UsageArrives, CallStarts, Arguments, Streaming
    <2>2. Streamed'
      BY <1>6, <2>1, TextStreams, UsageStreams, StartStreams, ArgumentsStream
    <2>3. phase = "stream" /\ UNCHANGED << phase, dialect, said, ending, result, telemetry >>
      BY <1>6, Zenon DEF TextFragment, UsageArrives, CallStarts, Arguments, Streaming
    <2> QED
      BY <2>2, <2>3, ModelCallAssumption DEF StreamInv
  <1>7. ASSUME StreamEnds \/ StreamFails
        PROVE  StreamInv'
    <2>1. /\ phase = "stream" /\ UNCHANGED << dialect, said, sent, content, calls, usage, shown >>
          /\ ending' \in {"whole", "cut", "broken"} /\ \E r : Return(r)
      BY <1>7 DEF StreamEnds, StreamFails, Streaming, streamVars
    <2>2. Streamed /\ Streamed'
      BY <2>1 DEF StreamInv, Streamed, SentTyped, CallsAccumulated, EntryFor, UsageAccumulated
    <2>3. ending' \in {"whole", "cut"} => result' = IntoMessage /\ (ending' = "whole" => AllSent)
      BY <1>7 DEF StreamEnds, StreamFails, Return
    <2>4. IntoMessage' = IntoMessage /\ AllSent' = AllSent
      BY <2>1 DEF IntoMessage, AssembledMessage, NamedCalls, Valid, Meant, PiecesOf, AllSent, AllCallsDone, CallDone
    <2> QED
      BY <1>2, <2>1, <2>2, <2>3, <2>4 DEF StreamInv
  <1>8. CASE UNCHANGED vars
    BY <1>8 DEF vars, streamVars, StreamInv, Streamed, SentTyped, CallsAccumulated, EntryFor, UsageAccumulated,
               IntoMessage, AssembledMessage, NamedCalls, Valid, Meant, PiecesOf, AllSent, AllCallsDone, CallDone
  <1> QED
    BY <1>1, <1>3, <1>4, <1>5, <1>6, <1>7, <1>8 DEF Next

\* StreamInv holds in every reachable state.
LEMMA StreamInvariant == Spec => []StreamInv
  <1>1. Init => StreamInv
    BY ModelCallAssumption DEF Init, StreamInv
  <1> QED
    BY <1>1, StreamStep, PTL DEF Spec

\* Every reachable state of a call is well typed, for any histories and responses: the
\* accumulators grow no further than the calls that the model makes, and a Claude stream
\* leaves no padding.
THEOREM CallTypeCorrect == Spec => []TypeOK
  <1>1. StreamInv => TypeOK
    <2> SUFFICES ASSUME StreamInv PROVE TypeOK
      OBVIOUS
    <2>1. CASE calls = << >>
      BY <2>1 DEF StreamInv, TypeOK
    <2>2. CASE calls # << >>
      <3>1. SentTyped /\ CallsAccumulated
        BY <2>2 DEF StreamInv, Streamed
      <3>2. Len(calls) <= Len(said.calls)
        BY <3>1 DEF CallsAccumulated
      <3>3. ASSUME NEW i \in DOMAIN calls, dialect # "openai" PROVE calls[i].id # None
        <4>1. sent.started[i] /\ dialect = "claude"
          BY <3>1, <3>3 DEF StreamInv, CallsAccumulated
        <4>2. i \in DOMAIN said.calls
          <5>1. calls \in Seq(Entries) /\ Len(said.calls) \in Nat /\ DOMAIN said.calls = 1 .. Len(said.calls)
            BY <3>1, ResponseFacts DEF SentTyped, CallsAccumulated
          <5> QED
            BY <3>2, <5>1
        <4>3. calls[i].id = said.calls[i].id
          BY <3>1, <4>1 DEF CallsAccumulated, EntryFor
        <4> QED
          BY <3>1, <4>2, <4>3, ResponseFacts, Zenon DEF SentTyped
      <3> QED
        BY <3>2, <3>3 DEF StreamInv, TypeOK
    <2> QED
      BY <2>1, <2>2
  <1> QED
    BY <1>1, StreamInvariant, PTL

\* What ResponseFacts says of the response that is streamed.
LEMMA SaidFacts ==
  ASSUME SentTyped, NEW i \in DOMAIN said.calls
  PROVE  /\ said.calls[i].id # None /\ said.calls[i].pieces \in Nat
         /\ PiecesOf(said.calls[i]) \in Nat
         /\ \A j \in DOMAIN said.calls : said.calls[j].id = said.calls[i].id => j = i
  <1>1. /\ said.calls[i].id # None /\ said.calls[i].pieces \in Nat
        /\ \A j \in DOMAIN said.calls : said.calls[j].id = said.calls[i].id => j = i
    <2>1. said \in Responses
      BY DEF SentTyped
    <2> QED
      BY <2>1, ResponseFacts, Zenon
  <1> QED
    BY <1>1 DEF PiecesOf

\* The entry of a call that has started stands for that call.
LEMMA EntryFacts ==
  ASSUME SentTyped, CallsAccumulated, NEW i \in DOMAIN calls, calls[i].id # None
  PROVE  /\ i \in DOMAIN said.calls /\ sent.started[i]
         /\ calls[i] = [id |-> said.calls[i].id, args |-> Pieces(sent.args[i])]
         /\ Meant(calls[i]) = said.calls[i]
         /\ sent.args[i] \in Nat
  <1>1. /\ calls \in Seq(Entries) /\ Len(calls) \in Nat /\ DOMAIN calls = 1 .. Len(calls)
        /\ Len(said.calls) \in Nat /\ DOMAIN said.calls = 1 .. Len(said.calls)
        /\ Len(calls) <= Len(said.calls)
    BY ResponseFacts DEF SentTyped, CallsAccumulated
  <1>2. i \in DOMAIN said.calls
    BY <1>1
  <1>3. sent.started[i] /\ calls[i] = [id |-> said.calls[i].id, args |-> Pieces(sent.args[i])]
    BY DEF CallsAccumulated, EntryFor, Padding
  <1>4. sent.args[i] \in Nat
    BY <1>2, SentParts
  <1>5. Meant(calls[i]) = said.calls[i]
    <2>1. \A j \in DOMAIN said.calls : said.calls[j].id = calls[i].id => said.calls[j] = said.calls[i]
      BY <1>2, <1>3, SaidFacts
    <2>2. said.calls[i] \in ToSet(said.calls) /\ said.calls[i].id = calls[i].id
      BY <1>2, <1>3 DEF ToSet
    <2>3. \A c \in ToSet(said.calls) : c.id = calls[i].id <=> c = said.calls[i]
      BY <2>1, <2>2 DEF ToSet
    <2> QED
      BY <2>2, <2>3 DEF Meant
  <1> QED
    BY <1>2, <1>3, <1>4, <1>5

\* A connection that closes early never makes a call run whose arguments are not all
\* there, for any response and any order of its fragments: an entry that parses is the
\* entry of one call and holds all of its pieces (read_sse_data_lines, into_message).
THEOREM OnlyWholeCallsRun == Spec => []CutCallsDoNotRun
  <1>1. StreamInv => CutCallsDoNotRun
    <2> SUFFICES ASSUME StreamInv, ending = "cut", result.ok,
                        NEW i \in DOMAIN said.calls, said.calls[i].id \in ToSet(result.calls)
                 PROVE  CallDone(i)
      BY DEF CutCallsDoNotRun
    <2>1. Streamed /\ result = IntoMessage
      BY ModelCallAssumption DEF StreamInv
    <2>2. SentTyped /\ CallsAccumulated /\ calls \in Seq(Entries)
      BY <2>1 DEF Streamed, CallsAccumulated
    <2> DEFINE f == NamedCalls
    <2>3. f \in Seq(Entries) /\ \A j \in DOMAIN f : f[j].id # None /\ \E x \in DOMAIN calls : f[j] = calls[x]
      BY <2>2, FilterFacts DEF NamedCalls
    <2>4. (\A j \in DOMAIN f : Valid(f[j])) /\ result = AssembledMessage
      BY <2>1 DEF IntoMessage, Failure
    <2>5. result.calls = [j \in DOMAIN f |-> f[j].id]
      BY <2>4 DEF AssembledMessage, Message
    <2> HIDE DEF f
    <2>6. PICK j \in DOMAIN f : f[j].id = said.calls[i].id
      BY <2>5 DEF ToSet
    <2>7. PICK x \in DOMAIN calls : f[j] = calls[x] /\ calls[x].id # None
      BY <2>3
    <2>8. /\ x \in DOMAIN said.calls /\ sent.started[x]
          /\ calls[x] = [id |-> said.calls[x].id, args |-> Pieces(sent.args[x])]
          /\ Meant(calls[x]) = said.calls[x] /\ sent.args[x] \in Nat
      BY <2>2, <2>7, EntryFacts
    <2>9. x = i
      <3>1. said.calls[x].id = said.calls[i].id
        BY <2>6, <2>7, <2>8
      <3> QED
        BY <2>2, <2>8, <3>1, SaidFacts
    <2>10. Pieces(sent.args[i]) = Pieces(PiecesOf(said.calls[i]))
      BY <2>4, <2>7, <2>8, <2>9 DEF Valid
    <2>11. PiecesOf(said.calls[i]) \in Nat
      BY <2>2, SaidFacts
    <2> QED
      BY <2>8, <2>9, <2>10, <2>11, PiecesDiffer DEF CallDone
  <1> QED
    BY <1>1, StreamInvariant, PTL

\* Whatever the fragments and their order, a stream that ends whole shows exactly the
\* text and gives exactly the message of the unstreamed response, for any response; only
\* a Claude call without arguments, which streams no fragment, makes the call fail.
THEOREM StreamsAreFaithful == Spec => []StreamIsResponse
  <1>1. StreamInv => StreamIsResponse
    <2> SUFFICES ASSUME StreamInv, ending = "whole"
                 PROVE  /\ shown = Pieces(said.text)
                        /\ result = IF dialect = "claude" /\ \E i \in DOMAIN said.calls : said.calls[i].pieces = 0
                                    THEN Failure ELSE ParseResponse(said)
      BY DEF StreamIsResponse
    <2>1. Streamed /\ result = IntoMessage /\ AllSent
      BY ModelCallAssumption DEF StreamInv
    <2>2. SentTyped /\ CallsAccumulated /\ UsageAccumulated /\ calls \in Seq(Entries)
      BY <2>1 DEF Streamed, CallsAccumulated
    <2>3. shown = Pieces(said.text) /\ content = Pieces(said.text)
      BY <2>1 DEF Streamed, AllSent, AllCallsDone
    <2>4. \A i \in DOMAIN said.calls : sent.started[i] /\ sent.args[i] = PiecesOf(said.calls[i])
      BY <2>1 DEF AllSent, AllCallsDone, CallDone
    <2>5. Len(calls) = Len(said.calls) /\ DOMAIN calls = DOMAIN said.calls
      <3>1. /\ Len(calls) \in Nat /\ DOMAIN calls = 1 .. Len(calls) /\ Len(calls) <= Len(said.calls)
            /\ Len(said.calls) \in Nat /\ DOMAIN said.calls = 1 .. Len(said.calls)
        BY <2>2, ResponseFacts DEF SentTyped, CallsAccumulated
      <3>2. \A i \in DOMAIN said.calls : i <= Len(calls)
        BY <2>2, <2>4 DEF CallsAccumulated
      <3>3. Len(said.calls) <= Len(calls)
        <4>1. Len(said.calls) = 0 \/ Len(said.calls) \in DOMAIN said.calls
          BY <3>1
        <4> QED
          BY <3>1, <3>2, <4>1
      <3> QED
        BY <3>1, <3>3
    <2>6. ASSUME NEW i \in DOMAIN said.calls
          PROVE  /\ calls[i].id = said.calls[i].id /\ calls[i].id # None
                 /\ Valid(calls[i]) <=> ~(dialect = "claude" /\ said.calls[i].pieces = 0)
      <3>1. calls[i] = [id |-> said.calls[i].id, args |-> Pieces(PiecesOf(said.calls[i]))]
        BY <2>2, <2>4, <2>5 DEF CallsAccumulated, EntryFor
      <3>2. calls[i].id # None /\ said.calls[i].pieces \in Nat
        BY <2>2, <3>1, SaidFacts
      <3>3. Meant(calls[i]) = said.calls[i]
        BY <2>2, <2>5, <3>2, EntryFacts, Zenon
      <3>4. PiecesOf(said.calls[i]) \in Nat /\ Len(Pieces(PiecesOf(said.calls[i]))) = PiecesOf(said.calls[i])
        BY <2>2, PiecesGrow, SaidFacts, Zenon
      <3>5. Valid(calls[i]) <=> said.calls[i].pieces + PiecesOf(said.calls[i]) > 0
        BY <3>1, <3>3, <3>4 DEF Valid
      <3>6. said.calls[i].pieces + PiecesOf(said.calls[i]) > 0
              <=> ~(dialect = "claude" /\ said.calls[i].pieces = 0)
        BY <3>2 DEF PiecesOf, StreamInv
      <3> QED
        BY <3>1, <3>2, <3>5, <3>6
    <2>7. NamedCalls = calls
      BY <2>2, <2>5, <2>6, FilterFacts DEF NamedCalls
    <2>8. usage = said.usage
      <3>1. said.usage = [input |-> said.usage.input, output |-> said.usage.output]
        BY <2>2, ResponseFacts DEF SentTyped
      <3>2. usage = [input |-> said.usage.input, output |-> said.usage.output]
        BY <2>1, <2>2 DEF UsageAccumulated, AllSent
      <3> QED
        BY <3>1, <3>2
    <2>9. AssembledMessage = ParseResponse(said)
      <3>1. [i \in DOMAIN calls |-> calls[i].id] = [i \in DOMAIN said.calls |-> said.calls[i].id]
        BY <2>5, <2>6
      <3> QED
        BY <2>3, <2>7, <2>8, <3>1 DEF AssembledMessage, ParseResponse
    <2> QED
      BY <2>1, <2>3, <2>5, <2>6, <2>7, <2>9 DEF IntoMessage
  <1> QED
    BY <1>1, StreamInvariant, PTL

-----------------------------------------------------------------------------
(***************************************************************************)
(* The token of the Feishu client (FeishuToken).                           *)
(***************************************************************************)

\* Every reachable state of the token cache is well typed.
THEOREM TokenTypeCorrect == TokenSpec => []TokenTypeOK
  <1>1. TokenInit => TokenTypeOK
    BY DEF TokenInit, Resting, NoToken, TokenTypeOK, Tokens, SenderStates
  <1>2. TokenTypeOK /\ [TokenNext]_tokenVars => TokenTypeOK'
    <2> SUFFICES ASSUME TokenTypeOK, [TokenNext]_tokenVars PROVE TokenTypeOK'
      OBVIOUS
    <2>1. CASE Tick
      BY <2>1 DEF Tick, TokenTypeOK
    <2>0. ASSUME NEW s \in Senders, NEW r \in SenderStates, sender' = [sender EXCEPT ![s] = r]
          PROVE  sender' \in [Senders -> SenderStates]
      BY <2>0 DEF TokenTypeOK
    <2>2. ASSUME NEW s \in Senders, Hit(s) PROVE TokenTypeOK'
      <3>1. [at |-> "send", since |-> clock, lifetime |-> 0, token |-> cached, hit |-> TRUE]
              \in SenderStates
        BY DEF TokenTypeOK, SenderStates
      <3> QED
        BY <2>0, <2>2, <3>1 DEF Hit, BeginSend, TokenTypeOK
    <2>3. ASSUME NEW s \in Senders, Miss(s) \/ FetchFails(s) \/ Sent(s) PROVE TokenTypeOK'
      <3>1. Resting \in SenderStates /\ [Resting EXCEPT !.at = "fetch", !.since = clock] \in SenderStates
        BY Zenon DEF TokenTypeOK, SenderStates, Tokens, Resting, NoToken
      <3> QED
        BY <2>0, <2>3, <3>1 DEF Miss, FetchFails, Sent, TokenTypeOK
    <2>4. ASSUME NEW s \in Senders, Issue(s) PROVE TokenTypeOK'
      <3>1. ASSUME NEW l \in Lifetimes, UNCHANGED << clock, cached >>,
                   sender' = [sender EXCEPT ![s] =
                      [Resting EXCEPT !.at = "issued", !.since = sender[s].since, !.lifetime = l,
                                      !.token = [validUntil |-> clock + l, expiresAt |-> 0]]]
            PROVE  TokenTypeOK'
        <4> DEFINE r == [Resting EXCEPT !.at = "issued", !.since = sender[s].since, !.lifetime = l,
                                        !.token = [validUntil |-> clock + l, expiresAt |-> 0]]
        <4>1. l \in Nat /\ sender[s] \in SenderStates /\ clock \in Nat
          BY FeishuTokenAssumption DEF TokenTypeOK
        <4>2. r \in SenderStates
          <5>1. [validUntil |-> clock + l, expiresAt |-> 0] \in Tokens
            BY <4>1 DEF Tokens
          <5>2. sender[s].since \in Nat
            BY <4>1 DEF SenderStates
          <5> QED
            BY <4>1, <5>1, <5>2, Zenon DEF SenderStates, Resting
        <4>3. sender' = [sender EXCEPT ![s] = r]
          BY <3>1
        <4> HIDE DEF r
        <4>4. sender' \in [Senders -> SenderStates]
          BY <4>2, <4>3 DEF TokenTypeOK
        <4> QED
          BY <3>1, <4>4 DEF TokenTypeOK
      <3> QED
        BY <2>4, <3>1, Zenon DEF Issue
    <2>5. ASSUME NEW s \in Senders, Fetched(s) PROVE TokenTypeOK'
      <3> DEFINE token == [validUntil |-> sender[s].token.validUntil,
                           expiresAt |-> ExpiresAt(clock, sender[s].lifetime)]
                 r == [Resting EXCEPT !.at = "store", !.token = token]
      <3>1. sender[s] \in SenderStates /\ clock \in Nat
        BY DEF TokenTypeOK
      <3>2. ExpiresAt(clock, sender[s].lifetime) \in Nat
        BY <3>1, FeishuTokenAssumption DEF SenderStates, ExpiresAt
      <3>3. token \in Tokens
        BY <3>1, <3>2 DEF SenderStates, Tokens
      <3>4. r \in SenderStates
        BY <3>3, Zenon DEF SenderStates, Resting
      <3>5. sender' = [sender EXCEPT ![s] = r] /\ UNCHANGED << clock, cached >>
        BY <2>5 DEF Fetched
      <3>6. sender' \in [Senders -> SenderStates]
        BY <2>0, <3>4, <3>5, Zenon
      <3> QED
        BY <3>5, <3>6 DEF TokenTypeOK
    <2>6. ASSUME NEW s \in Senders, Store(s) PROVE TokenTypeOK'
      <3>1. /\ sender[s].token \in Tokens
            /\ [at |-> "send", since |-> clock, lifetime |-> 0, token |-> sender[s].token, hit |-> FALSE]
                 \in SenderStates
        BY DEF TokenTypeOK, SenderStates
      <3> QED
        BY <2>0, <2>6, <3>1 DEF Store, BeginSend, TokenTypeOK
    <2>7. CASE UNCHANGED tokenVars
      BY <2>7 DEF tokenVars, TokenTypeOK
    <2> QED
      BY <2>1, <2>2, <2>3, <2>4, <2>5, <2>6, <2>7 DEF TokenNext
  <1> QED
    BY <1>1, <1>2, PTL DEF TokenSpec

\* The cache stops giving the token at least the margin before its end, less
\* the time its own request may have taken, or it gives it no more.
Honest(token) ==
  \/ token.expiresAt <= clock
  \/ token.expiresAt + SafetyMargin <= token.validUntil + FetchTime

\* The clock keeps to the timeouts, and every token is honest.
TokenInv ==
  /\ Honest(cached)
  /\ \A s \in Senders :
       /\ sender[s].at \in {"fetch", "issued"} => clock <= sender[s].since + FetchTime
       /\ sender[s].at = "fetch" => sender[s].since <= clock
       /\ sender[s].at = "issued" =>
            sender[s].since + sender[s].lifetime <= sender[s].token.validUntil
       /\ sender[s].at = "store" => Honest(sender[s].token)
       /\ sender[s].at = "send" /\ sender[s].hit =>
            /\ clock <= sender[s].since + SendTime
            /\ sender[s].since + SafetyMargin < sender[s].token.validUntil + FetchTime

\* Every step keeps the tokens honest.
LEMMA TokenStep == TokenTypeOK /\ TokenInv /\ [TokenNext]_tokenVars => TokenInv'
  <1> SUFFICES ASSUME TokenTypeOK, TokenInv, [TokenNext]_tokenVars PROVE TokenInv'
    OBVIOUS
  <1> USE FeishuTokenAssumption DEF TokenTypeOK, Tokens, SenderStates, TokenInv, Honest
  <1>1. CASE Tick
    BY <1>1 DEF Tick, InTime
  <1>2. ASSUME NEW s \in Senders, Hit(s) PROVE TokenInv'
    BY <1>2 DEF Hit, BeginSend
  <1>3. ASSUME NEW s \in Senders, Miss(s) PROVE TokenInv'
    BY <1>3 DEF Miss, Resting, NoToken
  <1>4. ASSUME NEW s \in Senders, Issue(s) PROVE TokenInv'
    <2>1. PICK l \in Lifetimes : sender' = [sender EXCEPT ![s] =
                    [Resting EXCEPT !.at = "issued", !.since = sender[s].since, !.lifetime = l,
                                    !.token = [validUntil |-> clock + l, expiresAt |-> 0]]]
      BY <1>4, Zenon DEF Issue
    <2>2. l \in Nat /\ clock' = clock /\ cached' = cached /\ sender[s].at = "fetch"
      BY <1>4, <2>1 DEF Issue
    <2>3. /\ sender'[s].at = "issued" /\ sender'[s].lifetime = l
          /\ sender'[s].since = sender[s].since
          /\ sender'[s].token.validUntil = clock + l
      BY <2>1 DEF Resting
    <2>4. \A t \in Senders \ {s} : sender'[t] = sender[t]
      BY <2>1
    <2> QED
      BY <2>2, <2>3, <2>4
  <1>5. ASSUME NEW s \in Senders, Fetched(s) PROVE TokenInv'
    <2> DEFINE at == ExpiresAt(clock, sender[s].lifetime)
    <2>1. at \in Nat /\ (at <= clock \/ at + SafetyMargin = clock + sender[s].lifetime)
      BY DEF ExpiresAt
    <2>2. /\ sender'[s].at = "store"
          /\ sender'[s].token.expiresAt = at
          /\ sender'[s].token.validUntil = sender[s].token.validUntil
          /\ \A t \in Senders \ {s} : sender'[t] = sender[t]
          /\ clock' = clock /\ cached' = cached
          /\ sender[s].at = "issued"
      BY <1>5 DEF Fetched, Resting, NoToken
    <2> QED
      BY <2>1, <2>2
  <1>6. ASSUME NEW s \in Senders, FetchFails(s) \/ Sent(s) PROVE TokenInv'
    BY <1>6 DEF FetchFails, Sent, Resting, NoToken
  <1>7. ASSUME NEW s \in Senders, Store(s) PROVE TokenInv'
    BY <1>7 DEF Store, BeginSend
  <1>8. CASE UNCHANGED tokenVars
    BY <1>8 DEF tokenVars
  <1> QED
    BY <1>1, <1>2, <1>3, <1>4, <1>5, <1>6, <1>7, <1>8 DEF TokenNext

\* For any number of senders, any lifetimes and any clock: when the margin is at
\* least the two timeouts together, no request carries a cached token that the
\* platform has ceased to take.
THEOREM CachedTokensAreValid == TokenSpec => []CachedTokenIsValid
  <1> USE FeishuTokenAssumption DEF TokenTypeOK, Tokens, SenderStates, TokenInv, Honest
  <1>1. TokenInit => TokenInv
    BY DEF TokenInit, Resting, NoToken
  <1>2. TokenTypeOK /\ TokenInv => CachedTokenIsValid
    BY DEF CachedTokenIsValid
  <1> QED
    BY TokenTypeCorrect, TokenStep, <1>1, <1>2, PTL DEF TokenSpec

-----------------------------------------------------------------------------
(***************************************************************************)
(* The skills (Skills).                                                    *)
(***************************************************************************)

LoadStates == [at : {"idle", "asked", "manifest", "body"},
               skill : SkillIds \cup {"none"}, changed : BOOLEAN]
Answereds == [by : Agents, kind : {"none", "body", "already", "error"},
              skill : SkillIds \cup {"none"}, hidden : BOOLEAN, changed : BOOLEAN]

\* The lock of loaded_skills has one holder, and what it loads is not loaded yet.
LockInv ==
  /\ \A c, d \in LoadCalls :
       loading[c].at \in {"manifest", "body"} /\ loading[d].at \in {"manifest", "body"} => c = d
  /\ \A c \in LoadCalls : loading[c].at \in {"manifest", "body"} => loading[c].skill \notin loaded

CallInv == \A c \in LoadCalls : loading[c].at # "idle" => loading[c].skill \in SkillIds

\* Between its two reads a call has seen a file that does not hide the skill,
\* unless somebody has changed it since.
PolicyInv ==
  \A c \in LoadCalls : loading[c].at = "body" /\ ~loading[c].changed => ~Hidden(loading[c].skill)

SkillsInv == SkillsTypeOK /\ CallInv /\ LockInv /\ PolicyInv /\ LoadedIsGivenOnce /\ HiddenBodyOnlyInARace

-----------------------------------------------------------------------------
\* A call that goes on or ends is in one of the states of a call.
LEMMA MoveTyped ==
  ASSUME SkillsTypeOK, NEW c \in LoadCalls, NEW r \in LoadStates,
         loading' = [loading EXCEPT ![c] = r]
  PROVE  /\ loading' \in [LoadCalls -> LoadStates]
         /\ loading'[c] = r
         /\ \A d \in LoadCalls \ {c} : loading'[d] = loading[d]
  BY DEF SkillsTypeOK, LoadStates

\* The records of a call under way.
LEMMA CallRecords ==
  ASSUME NEW x \in {"idle", "asked", "manifest", "body"}, NEW y \in SkillIds \cup {"none"},
         NEW z \in BOOLEAN
  PROVE  [at |-> x, skill |-> y, changed |-> z] \in LoadStates
  BY DEF LoadStates

\* What a call does when it answers: it is idle again, and the answer names its skill.
LEMMA AnswerFacts ==
  ASSUME SkillsTypeOK, NEW c \in LoadCalls, NEW kind \in {"body", "already", "error"},
         NEW hidden \in BOOLEAN, Answer(c, kind, hidden)
  PROVE  /\ loading' \in [LoadCalls -> LoadStates]
         /\ answered' \in Answereds
         /\ loading'[c] = AtRest
         /\ \A d \in LoadCalls \ {c} : loading'[d] = loading[d]
         /\ answered'.kind = kind /\ answered'.hidden = hidden
         /\ answered'.changed = loading[c].changed
  <1>1. AtRest \in LoadStates
    BY DEF AtRest, LoadStates
  <1>2. /\ loading' \in [LoadCalls -> LoadStates]
        /\ loading'[c] = AtRest
        /\ \A d \in LoadCalls \ {c} : loading'[d] = loading[d]
    BY <1>1, MoveTyped, Zenon DEF Answer
  <1>3. CallerOf[c] \in Agents
    BY SkillsAssumption
  <1>4. loading[c] \in LoadStates
    BY DEF SkillsTypeOK, LoadStates
  <1>5. /\ answered' = [by |-> CallerOf[c], kind |-> kind, skill |-> loading[c].skill,
                        hidden |-> hidden, changed |-> loading[c].changed]
        /\ answered' \in Answereds
    BY <1>3, <1>4 DEF Answer, Answereds, LoadStates
  <1> QED
    BY <1>2, <1>5

\* What a call does when it goes on: its skill and its mark stay.
LEMMA GoOnFacts ==
  ASSUME SkillsTypeOK, NEW c \in LoadCalls, NEW at \in {"manifest", "body"}, GoOn(c, at)
  PROVE  /\ loading' \in [LoadCalls -> LoadStates]
         /\ loading'[c] = [at |-> at, skill |-> loading[c].skill, changed |-> loading[c].changed]
         /\ \A d \in LoadCalls \ {c} : loading'[d] = loading[d]
         /\ answered' = answered
  <1> DEFINE r == [at |-> at, skill |-> loading[c].skill, changed |-> loading[c].changed]
  <1>1. loading[c] \in LoadStates
    BY DEF SkillsTypeOK, LoadStates
  <1>2. r \in LoadStates
    BY <1>1 DEF LoadStates
  <1>3. [loading[c] EXCEPT !.at = at] = r
    BY <1>1 DEF LoadStates
  <1>4. loading' = [loading EXCEPT ![c] = r] /\ answered' = answered
    BY <1>3, Zenon DEF GoOn
  <1> HIDE DEF r
  <1>5. /\ loading' \in [LoadCalls -> LoadStates]
        /\ loading'[c] = r
        /\ \A d \in LoadCalls \ {c} : loading'[d] = loading[d]
    BY <1>2, <1>4, MoveTyped, Zenon
  <1> QED
    BY <1>4, <1>5 DEF r

-----------------------------------------------------------------------------
\* No call is under way and nothing is loaded.
LEMMA InitialSkills == SkillsInit => SkillsInv
  <1> SUFFICES ASSUME SkillsInit PROVE SkillsInv
    OBVIOUS
  <1> USE DEF SkillsInit
  <1>1. AtRest \in LoadStates /\ AtRest.at = "idle"
    BY DEF AtRest, LoadStates
  <1>2. Unanswered \in Answereds /\ Unanswered.kind = "none"
    BY DEF Unanswered, Answereds, Agents
  <1>3. SkillsTypeOK
    BY <1>1, <1>2 DEF SkillsTypeOK, LoadStates, Answereds
  <1>4. CallInv /\ LockInv /\ PolicyInv
    BY <1>1 DEF CallInv, LockInv, PolicyInv
  <1>5. LoadedIsGivenOnce /\ HiddenBodyOnlyInARace
    BY <1>2 DEF LoadedIsGivenOnce, HiddenBodyOnlyInARace
  <1> QED
    BY <1>3, <1>4, <1>5 DEF SkillsInv

\* A step that touches neither the calls nor the files nor what is loaded.
LEMMA OthersKeep ==
  ASSUME SkillsInv, UNCHANGED << skillFile, loading, answered, loaded, given >>,
         program' \in {"cli", "server"}, known' \in [Agents -> SUBSET SkillIds],
         agent' \in [Agents -> {"absent", "starting", "running", "failed"}],
         offered' \in [Agents -> SUBSET SkillIds]
  PROVE  SkillsInv'
  <1>1. SkillsTypeOK'
    BY DEF SkillsInv, SkillsTypeOK
  <1>2. CallInv' /\ LockInv' /\ LoadedIsGivenOnce' /\ HiddenBodyOnlyInARace'
    BY DEF SkillsInv, CallInv, LockInv, LoadedIsGivenOnce, HiddenBodyOnlyInARace
  <1>3. PolicyInv'
    BY DEF SkillsInv, PolicyInv, Hidden, ReadSkillFile
  <1> QED
    BY <1>1, <1>2, <1>3 DEF SkillsInv

\* Whoever changes a file marks the calls that have read it.
LEMMA ChangeFileKeeps ==
  ASSUME SkillsInv, NEW s \in Written, ChangeFile(s)
  PROVE  SkillsInv'
  <1> DEFINE Mark(c) == loading[c].changed \/ (loading[c].at = "body" /\ loading[c].skill = s)
  <1> SUFFICES SkillsInv'
    OBVIOUS
  <1>0. SkillsTypeOK /\ CallInv /\ LockInv /\ PolicyInv /\ LoadedIsGivenOnce /\ HiddenBodyOnlyInARace
    BY DEF SkillsInv
  <1>1. ASSUME NEW c \in LoadCalls
        PROVE  /\ loading[c] \in LoadStates
               /\ loading'[c] = [at |-> loading[c].at, skill |-> loading[c].skill, changed |-> Mark(c)]
    <2>1. loading[c] \in LoadStates
      BY <1>0 DEF SkillsTypeOK, LoadStates
    <2>2. loading'[c] = [loading[c] EXCEPT !.changed = Mark(c)]
      BY DEF ChangeFile
    <2>3. DOMAIN loading[c] = {"at", "skill", "changed"}
      BY <2>1 DEF LoadStates
    <2> QED
      BY <2>1, <2>2, <2>3
  <1> HIDE DEF Mark
  <1>2. loading' \in [LoadCalls -> LoadStates]
    <2>1. DOMAIN loading' = LoadCalls
      BY DEF ChangeFile
    <2>2. loading' = [c \in LoadCalls |-> loading'[c]]
      BY DEF ChangeFile
    <2>3. ASSUME NEW c \in LoadCalls PROVE loading'[c] \in LoadStates
      <3>1. Mark(c) \in BOOLEAN
        BY DEF Mark
      <3>2. /\ loading[c].at \in {"idle", "asked", "manifest", "body"}
            /\ loading[c].skill \in SkillIds \cup {"none"}
        BY <1>1, Zenon DEF LoadStates
      <3> QED
        BY <1>1, <3>1, <3>2, CallRecords, Zenon
    <2> QED
      BY <2>2, <2>3
  <1>3. /\ skillFile' \in [Written -> Texts \cup {NoFile}]
        /\ \A w \in Written \ {s} : skillFile'[w] = skillFile[w]
        /\ UNCHANGED << program, agent, offered, answered, loaded, given, known >>
    BY <1>0 DEF ChangeFile, SkillsTypeOK
  <1>4. SkillsTypeOK'
    BY <1>0, <1>2, <1>3 DEF SkillsTypeOK, LoadStates
  <1>5. \A c \in LoadCalls : loading'[c].at = loading[c].at /\ loading'[c].skill = loading[c].skill
    <2> TAKE c \in LoadCalls
    <2>1. loading'[c] = [at |-> loading[c].at, skill |-> loading[c].skill, changed |-> Mark(c)]
      BY <1>1
    <2> QED
      BY <2>1
  <1>6. CallInv' /\ LockInv' /\ LoadedIsGivenOnce' /\ HiddenBodyOnlyInARace'
    BY <1>0, <1>3, <1>5 DEF CallInv, LockInv, LoadedIsGivenOnce, HiddenBodyOnlyInARace
  <1>7. PolicyInv'
    <2> SUFFICES ASSUME NEW c \in LoadCalls, loading'[c].at = "body", ~loading'[c].changed
                 PROVE  (~Hidden(loading[c].skill))'
      BY DEF PolicyInv
    <2>1. loading[c].at = "body" /\ ~loading[c].changed /\ loading[c].skill # s
      <3>1. loading'[c] = [at |-> loading[c].at, skill |-> loading[c].skill, changed |-> Mark(c)]
        BY <1>1
      <3>2. loading'[c].changed = Mark(c) /\ loading'[c].at = loading[c].at
        BY <3>1
      <3> QED
        BY <3>2, Zenon DEF Mark
    <2>2. loading[c].skill \in SkillIds /\ ~Hidden(loading[c].skill)
      BY <1>0, <2>1 DEF CallInv, PolicyInv
    <2>3. ReadSkillFile(loading[c].skill)' = ReadSkillFile(loading[c].skill)
      BY <1>3, <1>5, <2>1, <2>2 DEF ReadSkillFile, Written
    <2> QED
      BY <1>5, <2>2, <2>3 DEF Hidden
  <1> QED
    BY <1>4, <1>6, <1>7 DEF SkillsInv

\* The next message has an engine of its own, which has loaded nothing; no call is under way.
LEMMA NextMessageKeeps ==
  ASSUME SkillsInv, NextMessage
  PROVE  SkillsInv'
  <1>0. SkillsTypeOK /\ CallInv
    BY DEF SkillsInv
  <1>1. \A c \in LoadCalls : loading'[c].at = "idle"
    BY DEF NextMessage
  <1>2. Unanswered \in Answereds /\ Unanswered.kind = "none"
    BY DEF Unanswered, Answereds, Agents
  <1>3. SkillsTypeOK'
    BY <1>0, <1>2, Zenon DEF NextMessage, SkillsTypeOK, Answereds
  <1>4. CallInv' /\ LockInv' /\ PolicyInv'
    BY <1>1 DEF CallInv, LockInv, PolicyInv
  <1>5. LoadedIsGivenOnce' /\ HiddenBodyOnlyInARace'
    BY <1>2 DEF NextMessage, LoadedIsGivenOnce, HiddenBodyOnlyInARace
  <1> QED
    BY <1>3, <1>4, <1>5 DEF SkillsInv

\* A call that asks, fails, or is told "already loaded".
LEMMA AskKeeps ==
  ASSUME SkillsInv, NEW c \in LoadCalls, NEW s \in SkillIds, Ask(c, s)
  PROVE  SkillsInv'
  <1> DEFINE r == [at |-> "asked", skill |-> s, changed |-> FALSE]
  <1>0. SkillsTypeOK /\ CallInv /\ LockInv /\ PolicyInv /\ LoadedIsGivenOnce /\ HiddenBodyOnlyInARace
    BY DEF SkillsInv
  <1>1. r \in LoadStates
    BY DEF LoadStates
  <1>2. loading' = [loading EXCEPT ![c] = r]
        /\ UNCHANGED << program, skillFile, agent, offered, answered, loaded, given, known >>
    BY DEF Ask
  <1> HIDE DEF r
  <1>3. /\ loading' \in [LoadCalls -> LoadStates]
        /\ loading'[c] = r
        /\ \A d \in LoadCalls \ {c} : loading'[d] = loading[d]
    BY <1>0, <1>1, <1>2, MoveTyped, Zenon
  <1>4. r.at = "asked" /\ r.skill = s
    BY DEF r
  <1>5. SkillsTypeOK'
    BY <1>0, <1>2, <1>3 DEF SkillsTypeOK, LoadStates
  <1>6. CallInv' /\ LockInv'
    BY <1>0, <1>2, <1>3, <1>4 DEF CallInv, LockInv
  <1>7. PolicyInv'
    BY <1>0, <1>2, <1>3, <1>4 DEF PolicyInv, Hidden, ReadSkillFile
  <1>8. LoadedIsGivenOnce' /\ HiddenBodyOnlyInARace'
    BY <1>0, <1>2 DEF LoadedIsGivenOnce, HiddenBodyOnlyInARace
  <1> QED
    BY <1>5, <1>6, <1>7, <1>8 DEF SkillsInv

\* A call that ends without a body.
LEMMA EndKeeps ==
  ASSUME SkillsInv, NEW c \in LoadCalls, NEW kind \in {"already", "error"}, Answer(c, kind, FALSE),
         UNCHANGED << program, skillFile, agent, offered, loaded, given, known >>
  PROVE  SkillsInv'
  <1>0. SkillsTypeOK /\ CallInv /\ LockInv /\ PolicyInv /\ LoadedIsGivenOnce /\ HiddenBodyOnlyInARace
    BY DEF SkillsInv
  <1>1. /\ loading' \in [LoadCalls -> LoadStates]
        /\ answered' \in Answereds
        /\ loading'[c] = AtRest
        /\ \A d \in LoadCalls \ {c} : loading'[d] = loading[d]
        /\ answered'.kind = kind
    BY <1>0, AnswerFacts, Zenon
  <1>2. AtRest.at = "idle"
    BY DEF AtRest
  <1>3. SkillsTypeOK'
    BY <1>0, <1>1 DEF SkillsTypeOK, LoadStates, Answereds
  <1>4. CallInv' /\ LockInv'
    BY <1>0, <1>1, <1>2 DEF CallInv, LockInv
  <1>5. PolicyInv'
    BY <1>0, <1>1, <1>2 DEF PolicyInv, Hidden, ReadSkillFile
  <1>6. LoadedIsGivenOnce' /\ HiddenBodyOnlyInARace'
    BY <1>0, <1>1 DEF LoadedIsGivenOnce, HiddenBodyOnlyInARace
  <1> QED
    BY <1>3, <1>4, <1>5, <1>6 DEF SkillsInv

\* load_skill looks under its lock whether the skill is loaded.
LEMMA LookupKeeps ==
  ASSUME SkillsInv, NEW c \in LoadCalls, Lookup(c)
  PROVE  SkillsInv'
  <1>0. SkillsTypeOK /\ CallInv /\ LockInv /\ PolicyInv /\ LoadedIsGivenOnce /\ HiddenBodyOnlyInARace
    BY DEF SkillsInv
  <1>1. UNCHANGED << program, skillFile, agent, offered, loaded, given, known >>
    BY DEF Lookup
  <1>2. CASE \E kind \in {"already", "error"} : Answer(c, kind, FALSE)
    BY <1>1, <1>2, EndKeeps, Zenon
  <1>3. CASE loading[c].skill \notin loaded /\ GoOn(c, "manifest")
    <2>1. /\ loading' \in [LoadCalls -> LoadStates]
          /\ loading'[c] = [at |-> "manifest", skill |-> loading[c].skill,
                            changed |-> loading[c].changed]
          /\ \A d \in LoadCalls \ {c} : loading'[d] = loading[d]
          /\ answered' = answered
      BY <1>0, <1>3, GoOnFacts, Zenon
    <2>2. loading'[c].at = "manifest" /\ loading'[c].skill = loading[c].skill
      BY <2>1
    <2>3. \A d \in LoadCalls : loading[d].at \notin {"manifest", "body"}
      BY DEF Lookup, SkillsLocked
    <2>4. SkillsTypeOK'
      BY <1>0, <1>1, <2>1 DEF SkillsTypeOK, LoadStates
    <2>5. CallInv'
      <3>1. loading[c].at # "idle"
        BY DEF Lookup
      <3> QED
        BY <1>0, <2>1, <2>2, <3>1 DEF CallInv
    <2>6. LockInv'
      BY <1>1, <1>3, <2>1, <2>2, <2>3 DEF LockInv
    <2>7. PolicyInv'
      <3>1. \A d \in LoadCalls : loading'[d].at # "body"
        BY <2>1, <2>2, <2>3
      <3> QED
        BY <3>1 DEF PolicyInv
    <2>8. LoadedIsGivenOnce' /\ HiddenBodyOnlyInARace'
      BY <1>0, <1>1, <2>1 DEF LoadedIsGivenOnce, HiddenBodyOnlyInARace
    <2> QED
      BY <2>4, <2>5, <2>6, <2>7, <2>8 DEF SkillsInv
  <1> QED
    BY <1>2, <1>3, Zenon DEF Lookup

\* load_skill reads the file for its policy.
LEMMA ReadManifestKeeps ==
  ASSUME SkillsInv, NEW c \in LoadCalls, ReadManifest(c)
  PROVE  SkillsInv'
  <1>0. SkillsTypeOK /\ CallInv /\ LockInv /\ PolicyInv /\ LoadedIsGivenOnce /\ HiddenBodyOnlyInARace
    BY DEF SkillsInv
  <1>1. UNCHANGED << program, skillFile, agent, offered, loaded, given, known >>
    BY DEF ReadManifest
  <1>2. CASE Answer(c, "error", FALSE)
    BY <1>1, <1>2, EndKeeps, Zenon
  <1>3. CASE ~Hidden(loading[c].skill) /\ GoOn(c, "body")
    <2>1. /\ loading' \in [LoadCalls -> LoadStates]
          /\ loading'[c] = [at |-> "body", skill |-> loading[c].skill,
                            changed |-> loading[c].changed]
          /\ \A d \in LoadCalls \ {c} : loading'[d] = loading[d]
          /\ answered' = answered
      BY <1>0, <1>3, GoOnFacts, Zenon
    <2>2. loading'[c].skill = loading[c].skill /\ loading[c].at = "manifest"
      BY <2>1 DEF ReadManifest
    <2>3. SkillsTypeOK'
      BY <1>0, <1>1, <2>1 DEF SkillsTypeOK, LoadStates
    <2>4. CallInv' /\ LockInv'
      BY <1>0, <1>1, <2>1, <2>2 DEF CallInv, LockInv
    <2>5. PolicyInv'
      <3> SUFFICES ASSUME NEW d \in LoadCalls, loading'[d].at = "body", ~loading'[d].changed
                   PROVE  (~Hidden(loading[d].skill))'
        BY DEF PolicyInv
      <3>1. ~Hidden(loading'[d].skill)
        <4>1. CASE d = c
          BY <1>3, <2>2, <4>1
        <4>2. CASE d # c
          BY <1>0, <2>1, <4>2 DEF PolicyInv
        <4> QED
          BY <4>1, <4>2
      <3> QED
        BY <1>1, <3>1 DEF Hidden, ReadSkillFile
    <2>6. LoadedIsGivenOnce' /\ HiddenBodyOnlyInARace'
      BY <1>0, <1>1, <2>1 DEF LoadedIsGivenOnce, HiddenBodyOnlyInARace
    <2> QED
      BY <2>3, <2>4, <2>5, <2>6 DEF SkillsInv
  <1> QED
    BY <1>2, <1>3, Zenon DEF ReadManifest

\* load_skill reads the file again, for the body, and gives it.
LEMMA ReadBodyKeeps ==
  ASSUME SkillsInv, NEW c \in LoadCalls, ReadBody(c)
  PROVE  SkillsInv'
  <1> DEFINE s == loading[c].skill
  <1>0. SkillsTypeOK /\ CallInv /\ LockInv /\ PolicyInv /\ LoadedIsGivenOnce /\ HiddenBodyOnlyInARace
    BY DEF SkillsInv
  <1>1. UNCHANGED << program, skillFile, agent, offered >> /\ loading[c].at = "body"
    BY DEF ReadBody
  <1>2. CASE Answer(c, "error", FALSE) /\ UNCHANGED << loaded, given, known >>
    BY <1>1, <1>2, EndKeeps, Zenon
  <1>3. CASE /\ Answer(c, "body", Hidden(s))
             /\ loaded' = loaded \cup {s}
             /\ given' = [given EXCEPT ![s] = @ + 1]
             /\ known' = [known EXCEPT ![CallerOf[c]] = @ \cup {s}]
    <2>0. s \in SkillIds /\ s \notin loaded
      BY <1>0, <1>1 DEF CallInv, LockInv
    <2>1. Hidden(s) \in BOOLEAN
      BY DEF Hidden
    <2>2. /\ loading' \in [LoadCalls -> LoadStates]
          /\ answered' \in Answereds
          /\ loading'[c] = AtRest
          /\ \A d \in LoadCalls \ {c} : loading'[d] = loading[d]
          /\ answered'.hidden = Hidden(s)
          /\ answered'.changed = loading[c].changed
      BY <1>0, <1>3, <2>1, AnswerFacts
    <2>3. loading'[c].at = "idle"
      BY <2>2 DEF AtRest
    <2>4. \A d \in LoadCalls \ {c} : loading'[d].at \notin {"manifest", "body"}
      BY <1>0, <1>1, <2>2 DEF LockInv
    <2> HIDE DEF s
    <2>5. /\ loaded' \subseteq SkillIds
          /\ given' \in [SkillIds -> Nat]
          /\ known' \in [Agents -> SUBSET SkillIds]
      <3>1. /\ loaded \subseteq SkillIds /\ given \in [SkillIds -> Nat]
            /\ known \in [Agents -> SUBSET SkillIds] /\ CallerOf[c] \in Agents
        BY <1>0, SkillsAssumption DEF SkillsTypeOK
      <3>2. loaded' \subseteq SkillIds
        BY <1>3, <2>0, <3>1
      <3>3. given' \in [SkillIds -> Nat]
        BY <1>3, <2>0, <3>1
      <3>4. known[CallerOf[c]] \cup {s} \in SUBSET SkillIds
        BY <2>0, <3>1
      <3>5. known' \in [Agents -> SUBSET SkillIds]
        BY <1>3, <3>1, <3>4
      <3> QED
        BY <3>2, <3>3, <3>5
    <2>6. SkillsTypeOK'
      BY <1>0, <1>1, <2>2, <2>5 DEF SkillsTypeOK, LoadStates, Answereds
    <2>7. CallInv'
      BY <1>0, <2>2, <2>3 DEF CallInv
    <2>8. LockInv' /\ PolicyInv'
      BY <2>3, <2>4 DEF LockInv, PolicyInv
    <2>9. LoadedIsGivenOnce'
      BY <1>0, <1>3, <2>0 DEF LoadedIsGivenOnce, SkillsTypeOK
    <2>10. HiddenBodyOnlyInARace'
      <3>1. ~loading[c].changed => ~Hidden(s)
        BY <1>0, <1>1 DEF PolicyInv, s
      <3> QED
        BY <2>2, <3>1 DEF HiddenBodyOnlyInARace
    <2> QED
      BY <2>6, <2>7, <2>8, <2>9, <2>10 DEF SkillsInv
  <1> QED
    BY <1>2, <1>3, Zenon DEF ReadBody

\* A new run, or a new prompt, moves no call.
LEMMA RunsKeep ==
  ASSUME SkillsInv, NEW a \in Agents, Delegate(a) \/ ComposePrompt(a)
  PROVE  SkillsInv'
  <1>0. SkillsTypeOK
    BY DEF SkillsInv
  <1>1. UNCHANGED << program, skillFile, loading, answered, loaded, given, known >>
    BY DEF Delegate, ComposePrompt
  <1>2. agent' \in [Agents -> {"absent", "starting", "running", "failed"}]
    BY <1>0 DEF Delegate, ComposePrompt, SkillsTypeOK
  <1>3. offered' \in [Agents -> SUBSET SkillIds]
    <2>1. SkillsOf(a) \subseteq SkillIds
      BY SkillsAssumption DEF SkillsOf
    <2>2. {s \in SkillsOf(a) : ~Hidden(s)} \subseteq SkillIds
      BY <2>1
    <2> QED
      BY <1>0, <2>2 DEF Delegate, ComposePrompt, SkillsTypeOK
  <1> QED
    BY <1>0, <1>1, <1>2, <1>3, OthersKeep DEF SkillsTypeOK

\* Every step keeps the invariant.
LEMMA SkillsStep == SkillsInv /\ [SkillsNext]_skillVars => SkillsInv'
  <1> SUFFICES ASSUME SkillsInv, [SkillsNext]_skillVars PROVE SkillsInv'
    OBVIOUS
  <1>1. ASSUME NEW s \in Written, ChangeFile(s) PROVE SkillsInv'
    BY <1>1, ChangeFileKeeps
  <1>2. ASSUME NEW a \in Subagents, Delegate(a) PROVE SkillsInv'
    BY <1>2, RunsKeep DEF Agents
  <1>3. ASSUME NEW a \in Agents, ComposePrompt(a) PROVE SkillsInv'
    BY <1>3, RunsKeep
  <1>4. CASE NextMessage
    BY <1>4, NextMessageKeeps
  <1>5. ASSUME NEW c \in LoadCalls, NEW s \in SkillIds, Ask(c, s) PROVE SkillsInv'
    BY <1>5, AskKeeps
  <1>6. ASSUME NEW c \in LoadCalls, Lookup(c) \/ ReadManifest(c) \/ ReadBody(c) PROVE SkillsInv'
    BY <1>6, LookupKeeps, ReadManifestKeeps, ReadBodyKeeps
  <1>7. CASE UNCHANGED skillVars
    <2>1. UNCHANGED << skillFile, loading, answered, loaded, given, program, known, agent, offered >>
      BY <1>7 DEF skillVars
    <2> QED
      BY <2>1, OthersKeep DEF SkillsInv, SkillsTypeOK
  <1> QED
    BY <1>1, <1>2, <1>3, <1>4, <1>5, <1>6, <1>7 DEF SkillsNext

\* SkillsInv holds in every reachable state.
LEMMA SkillsInvariant == SkillsSpec => []SkillsInv
  BY InitialSkills, SkillsStep, PTL DEF SkillsSpec

-----------------------------------------------------------------------------
\* A registry gives the body of a skill exactly once, for any number of calls in
\* any number of agents, and whatever the files do in between
\* (LoadSkillTool::execute).
THEOREM BodyIsGivenOnce == SkillsSpec => []LoadedIsGivenOnce
  <1>1. SkillsInv => LoadedIsGivenOnce
    BY DEF SkillsInv
  <1> QED
    BY <1>1, SkillsInvariant, PTL

\* The body of a hidden skill reaches a model only when its file is changed between
\* the two reads of one call (load_model_invokable_skill).
THEOREM HiddenOnlyByRace == SkillsSpec => []HiddenBodyOnlyInARace
  <1>1. SkillsInv => HiddenBodyOnlyInARace
    BY DEF SkillsInv
  <1> QED
    BY <1>1, SkillsInvariant, PTL

-----------------------------------------------------------------------------
(***************************************************************************)
(* The file tools (FileTools).                                             *)
(***************************************************************************)

\* The lemmas about folds, for the folds over texts and lines.
Cut == INSTANCE FoldLemmas WITH Op <- AddToLines
Glue == INSTANCE FoldLemmas WITH Op <- AddLine
Hits == INSTANCE FoldLemmas WITH Op <- AddMatch
Norm == INSTANCE FoldLemmas WITH Op <- AddNormalized
Crlf == INSTANCE FoldLemmas WITH Op <- AddRestored

\* Fold is FoldLeft: AddToLines, AddLine, AddMatch, AddNormalized and AddRestored.
LEMMA FileFolds ==
  \A b, s : /\ Cut!Fold(b, s) = FoldLeft(AddToLines, b, s)
            /\ Glue!Fold(b, s) = FoldLeft(AddLine, b, s)
            /\ Hits!Fold(b, s) = FoldLeft(AddMatch, b, s)
            /\ Norm!Fold(b, s) = FoldLeft(AddNormalized, b, s)
            /\ Crlf!Fold(b, s) = FoldLeft(AddRestored, b, s)
  <1>1. \A b, s : Cut!Fold(b, s) = FoldLeft(AddToLines, b, s)
    BY DEF Cut!Fold, FoldLeft, Cut!FoldLeft, MapThenFoldSet, Cut!MapThenFoldSet, Max, Cut!Max
  <1>2. \A b, s : Glue!Fold(b, s) = FoldLeft(AddLine, b, s)
    BY DEF Glue!Fold, FoldLeft, Glue!FoldLeft, MapThenFoldSet, Glue!MapThenFoldSet, Max, Glue!Max
  <1>3. \A b, s : Hits!Fold(b, s) = FoldLeft(AddMatch, b, s)
    BY DEF Hits!Fold, FoldLeft, Hits!FoldLeft, MapThenFoldSet, Hits!MapThenFoldSet, Max, Hits!Max
  <1>4. \A b, s : Norm!Fold(b, s) = FoldLeft(AddNormalized, b, s)
    BY DEF Norm!Fold, FoldLeft, Norm!FoldLeft, MapThenFoldSet, Norm!MapThenFoldSet, Max, Norm!Max
  <1>5. \A b, s : Crlf!Fold(b, s) = FoldLeft(AddRestored, b, s)
    BY DEF Crlf!Fold, FoldLeft, Crlf!FoldLeft, MapThenFoldSet, Crlf!MapThenFoldSet, Max, Crlf!Max
  <1> QED
    BY <1>1, <1>2, <1>3, <1>4, <1>5

\* A set of numbers that is not empty has a first one.
LEMMA MinOfSome ==
  ASSUME NEW t, t \subseteq Nat, t # {}
  PROVE  Min(t) \in t /\ \A y \in t : Min(t) <= y
  <1>1. IsWellFoundedOn(OpToRel(<, Nat), Nat)
    BY NatLessThanWellFounded, Zenon
  <1>2. PICK x \in t : \A y \in t : ~(<< y, x >> \in OpToRel(<, Nat))
    BY <1>1, WFMin, Zenon
  <1>3. \A y \in t : ~(y < x)
    BY <1>2, Zenon DEF OpToRel
  <1>4. \A y \in t : x <= y
    BY <1>3
  <1> QED
    BY <1>4, Zenon DEF Min

\* And a last one when it is of indexes of a sequence.
LEMMA MaxOfIndexes ==
  ASSUME NEW n \in Nat, NEW t, t \subseteq 1 .. n, t # {}
  PROVE  Max(t) \in t /\ \A y \in t : y <= Max(t)
  BY Cut!MaxOfSome, Zenon DEF Max, Cut!Max

\* Texts of one length that agree everywhere are one text.
LEMMA EqualTexts ==
  ASSUME NEW S, NEW p \in Seq(S), NEW q \in Seq(S), Len(p) = Len(q), \A x \in 1 .. Len(q) : p[x] = q[x]
  PROVE  p = q
  OBVIOUS

\* A part of a text is a text.
LEMMA PartOfText ==
  ASSUME NEW T, NEW t \in Seq(T), NEW i \in Nat \ {0}, NEW j \in Int, j <= Len(t)
  PROVE  SubSeq(t, i, j) \in Seq(T)
  OBVIOUS

\* What str::trim and indentation_prefix leave is part of the text.
LEMMA TrimmedText ==
  ASSUME NEW D, NEW t \in Seq(D)
  PROVE  Trimmed(t) \in Seq(D) /\ IndentationPrefix(t) \in Seq(D)
  <1> DEFINE ink == {i \in DOMAIN t : t[i] \notin White}
  <1>1. Len(t) \in Nat /\ ink \subseteq 1 .. Len(t) /\ ink \subseteq Nat
    OBVIOUS
  <1>2. CASE ink = {}
    BY <1>2 DEF Trimmed, IndentationPrefix
  <1>3. CASE ink # {}
    <2>1. Min(ink) \in ink /\ Max(ink) \in ink
      BY <1>1, <1>3, MinOfSome, MaxOfIndexes, Zenon
    <2>2. Min(ink) \in 1 .. Len(t) /\ Max(ink) \in 1 .. Len(t)
      BY <1>1, <2>1
    <2>3. Trimmed(t) = SubSeq(t, Min(ink), Max(ink)) /\ IndentationPrefix(t) = SubSeq(t, 1, Min(ink) - 1)
      BY <1>3, Zenon DEF Trimmed, IndentationPrefix
    <2> HIDE DEF ink
    <2>4. SubSeq(t, Min(ink), Max(ink)) \in Seq(D)
      BY <1>1, <2>2, PartOfText
    <2>5. SubSeq(t, 1, Min(ink) - 1) \in Seq(D)
      BY <1>1, <2>2, PartOfText
    <2> QED
      BY <2>3, <2>4, <2>5
  <1> QED
    BY <1>2, <1>3

\* A text has at least one line, and no line holds a newline.
LEMMA SplitText ==
  ASSUME NEW D, NEW t \in Seq(D)
  PROVE  SplitLines(t) \in Seq(Seq(D \ {"nl"})) /\ Len(SplitLines(t)) >= 1
  <1> DEFINE L == Seq(D \ {"nl"})
             S == [done : Seq(L), line : L]
             start == [done |-> << >>, line |-> << >>]
             b == FoldLeft(AddToLines, start, t)
  <1>1. start \in S
    OBVIOUS
  <1>2. ASSUME NEW a \in S, NEW x \in D PROVE AddToLines(a, x) \in S
    <2>1. a.done \in Seq(L) /\ a.line \in L
      OBVIOUS
    <2>2. Append(a.done, a.line) \in Seq(L) /\ << >> \in L
      BY <2>1
    <2>3. x # "nl" => Append(a.line, x) \in L
      BY <2>1
    <2> HIDE DEF L
    <2> QED
      BY <2>1, <2>2, <2>3, Zenon DEF AddToLines
  <1>3. Cut!Fold(start, t) \in S
    <2> HIDE DEF S, start
    <2> QED
      BY <1>1, <1>2, Cut!FoldType
  <1>4. b \in S
    BY <1>3, FileFolds
  <1>5. SplitLines(t) = Append(b.done, b.line)
    BY DEF SplitLines
  <1> HIDE DEF b, L
  <1>6. b.done \in Seq(L) /\ b.line \in L
    BY <1>4
  <1> QED
    BY <1>5, <1>6 DEF L

\* Lines that are joined are a text.
LEMMA JoinedText ==
  ASSUME NEW D, "nl" \in D, NEW s \in Seq(Seq(D))
  PROVE  JoinLines(s) \in Seq(D)
  <1> DEFINE n == Len(s)
             I == {p \in (0 .. n) \X Seq(D) : p[1] > 0 => p[2] # << >>}
             f == FoldLeft(AddLine, << >>, s)
  <1>1. n \in Nat /\ DOMAIN s = 1 .. n /\ \A k \in 1 .. n : s[k] \in Seq(D)
    OBVIOUS
  <1>0. \A k, a : << k, a >> \in I <=> k \in 0 .. n /\ a \in Seq(D) /\ (k > 0 => a # << >>)
    OBVIOUS
  <1> HIDE DEF I, n
  <1>2. << 0, << >> >> \in I
    <2>1. << >> \in Seq(D) /\ 0 \in 0 .. n /\ ~(0 > 0)
      BY <1>1
    <2> QED
      BY <2>1, <1>0, Zenon
  <1>3. ASSUME NEW k \in 0 .. (n - 1), NEW a, << k, a >> \in I
        PROVE  << k + 1, AddLine(a, s[k + 1]) >> \in I
    <2>1. k \in Nat /\ k + 1 \in 1 .. n /\ k + 1 > 0 /\ a \in Seq(D) /\ s[k + 1] \in Seq(D)
      BY <1>0, <1>1, <1>3
    <2>2. \A x, y \in Seq(D) : x \o << "nl" >> \o y \in Seq(D) /\ x \o << "nl" >> \o y # << >>
      OBVIOUS
    <2>3. AddLine(a, s[k + 1]) \in Seq(D) /\ AddLine(a, s[k + 1]) # << >>
      BY <2>1, <2>2 DEF AddLine
    <2>4. k + 1 \in 0 .. n
      BY <1>1
    <2> QED
      BY <2>3, <2>4, <1>0, Zenon
  <1>4. << n, Glue!Fold(<< >>, s) >> \in I
    BY <1>1, <1>2, <1>3, Glue!FoldInvariant, Zenon
  <1>5. << n, f >> \in I
    BY <1>4, FileFolds, Zenon
  <1> HIDE DEF f
  <1>6. f \in Seq(D) /\ (n > 0 => f # << >>)
    BY <1>0, <1>1, <1>5
  <1>7. s # << >> => Tail(f) \in Seq(D)
    BY <1>1, <1>6 DEF n
  <1>8. << >> \in Seq(D)
    OBVIOUS
  <1> QED
    BY <1>7, <1>8 DEF JoinLines, f

\* str::matches finds the needle inside the haystack, wherever it is.
LEMMA MatchFacts ==
  ASSUME NEW D, NEW h \in Seq(D), NEW n \in Seq(D)
  PROVE  /\ CountMatches(h, n) \in Nat
         /\ CountMatches(h, n) > 0 =>
              LET i == Matches(h, n)[1].from IN
              /\ i \in 1 .. Len(h)
              /\ i + Len(n) <= Len(h) + 1
              /\ SubSeq(h, i, i + Len(n) - 1) = n
  <1> DEFINE k == Len(h) + 1 - Len(n)
             W == {x \in [from : 1 .. k, to : Nat, hit : BOOLEAN] : x.hit => At(h, n, x.from)}
             M == {x \in W : x.hit}
             w == Windows(h, n)
             f == FoldLeft(AddMatch, << >>, w)
  <1>1. Len(h) \in Nat /\ Len(n) \in Nat /\ (n # << >> => Len(n) > 0)
    OBVIOUS
  <1>2. CASE n = << >> \/ Len(n) > Len(h)
    BY <1>2 DEF CountMatches
  <1>3. CASE ~(n = << >> \/ Len(n) > Len(h))
    <2>1. k \in Nat /\ k <= Len(h)
      BY <1>1, <1>3
    <2>2. ASSUME NEW i \in 1 .. k PROVE [from |-> i, to |-> i + Len(n), hit |-> At(h, n, i)] \in W
      <3> DEFINE r == [from |-> i, to |-> i + Len(n), hit |-> At(h, n, i)]
      <3>1. At(h, n, i) \in BOOLEAN /\ i + Len(n) \in Nat
        BY <1>1, <2>1 DEF At
      <3>2. r \in [from : 1 .. k, to : Nat, hit : BOOLEAN] /\ r.from = i /\ r.hit = At(h, n, i)
        BY <3>1
      <3> HIDE DEF r
      <3>3. r.hit => At(h, n, r.from)
        BY <3>2
      <3>4. r \in W
        BY <3>2, <3>3
      <3> QED
        BY <3>4 DEF r
    <2>3. w = [i \in 1 .. k |-> [from |-> i, to |-> i + Len(n), hit |-> At(h, n, i)]]
      BY DEF Windows
    <2>4. w \in Seq(W)
      <3> HIDE DEF W, w, k
      <3>1. \A g \in [1 .. k -> W] : g \in Seq(W)
        BY <2>1
      <3>2. w \in [1 .. k -> W]
        BY <2>2, <2>3
      <3> QED
        BY <3>1, <3>2
    <2>6. ASSUME NEW s \in Seq(M), NEW x \in W PROVE AddMatch(s, x) \in Seq(M)
      <3> HIDE DEF W
      <3> QED
        BY <2>6 DEF AddMatch
    <2>11. \A x \in M : x.from \in 1 .. k /\ At(h, n, x.from)
      OBVIOUS
    <2> HIDE DEF W, w, M
    <2>5. << >> \in Seq(M)
      OBVIOUS
    <2>7. Hits!Fold(<< >>, w) \in Seq(M)
      BY <2>4, <2>5, <2>6, Hits!FoldType, Zenon
    <2>8. f \in Seq(M) /\ Matches(h, n) = f
      BY <2>7, FileFolds DEF Matches, w
    <2> HIDE DEF f
    <2>9. CountMatches(h, n) = Len(f)
      BY <1>3, <2>8 DEF CountMatches
    <2>10. Len(f) \in Nat /\ (Len(f) > 0 => f[1] \in M)
      BY <2>8
    <2>12. \A i \in 1 .. k : i \in 1 .. Len(h) /\ i + Len(n) <= Len(h) + 1
      BY <1>1, <2>1
    <2> HIDE DEF k
    <2>13. Len(f) > 0 => f[1].from \in 1 .. k /\ SubSeq(h, f[1].from, f[1].from + Len(n) - 1) = n
      BY <2>10, <2>11, Zenon DEF At
    <2> QED
      BY <2>8, <2>9, <2>10, <2>12, <2>13
  <1> QED
    BY <1>2, <1>3

\* A text and its three parts.
IsParts(t, p, m, s) == t = p \o m \o s

\* replacen(.., 1) puts the new text where the needle was.
LEMMA ReplacedText ==
  ASSUME NEW D, NEW h \in Seq(D), NEW n \in Seq(D), NEW new \in Seq(D), CountMatches(h, n) > 0
  PROVE  \E p, s \in Seq(D) : IsParts(h, p, n, s) /\ IsParts(ReplaceFirst(h, n, new), p, new, s)
  <1> DEFINE i == Matches(h, n)[1].from
             p == SubSeq(h, 1, i - 1)
             s == SubSeq(h, i + Len(n), Len(h))
  <1>1. i \in 1 .. Len(h) /\ i + Len(n) <= Len(h) + 1 /\ SubSeq(h, i, i + Len(n) - 1) = n
    BY MatchFacts
  <1>2. Len(h) \in Nat /\ Len(n) \in Nat
    OBVIOUS
  <1>3. ReplaceFirst(h, n, new) = p \o new \o s
    BY DEF ReplaceFirst
  <1> HIDE DEF i
  <1>4. p \in Seq(D) /\ s \in Seq(D)
    BY <1>1, <1>2, PartOfText
  <1>5. /\ 1 \in 1 .. (Len(h) + 1) /\ i - 1 \in (1 - 1) .. Len(h) /\ (i - 1) + 1 = i
        /\ i + Len(n) - 1 \in (i - 1) .. Len(h) /\ (i + Len(n) - 1) + 1 = i + Len(n)
        /\ i + Len(n) - 1 \in (1 - 1) .. Len(h) /\ Len(h) \in (i + Len(n) - 1) .. Len(h)
    BY <1>1, <1>2
  <1>6. p \o n = SubSeq(h, 1, i + Len(n) - 1)
    BY <1>1, <1>5, ConcatAdjacentSubSeq
  <1>7. SubSeq(h, 1, i + Len(n) - 1) \o s = SubSeq(h, 1, Len(h))
    BY <1>5, ConcatAdjacentSubSeq, Zenon
  <1>8. h = p \o n \o s
    BY <1>6, <1>7, SubSeqFull, Zenon
  <1> QED
    BY <1>3, <1>4, <1>8, Zenon DEF IsParts

\* Induction on sequences, with the set of those that have the property.
LEMMA InductionOnTexts ==
  ASSUME NEW D, NEW X, << >> \in X, \A s \in Seq(D), x \in D : s \in X => Append(s, x) \in X
  PROVE  Seq(D) \subseteq X
  <1> DEFINE N == {k \in Nat : \A s \in Seq(D) : Len(s) = k => s \in X}
  <1>1. 0 \in N
    BY EmptySeq
  <1>2. ASSUME NEW k \in Nat, k \in N PROVE k + 1 \in N
    <2> SUFFICES ASSUME NEW s \in Seq(D), Len(s) = k + 1 PROVE s \in X
      BY <1>2
    <2>1. s # << >>
      BY EmptySeq
    <2>2. PICK u \in Seq(D), x \in D : s = Append(u, x)
      BY <2>1, SequenceEmptyOrAppend
    <2>3. Len(u) = k
      BY <2>2, AppendProperties, LenProperties
    <2> QED
      BY <1>2, <2>2, <2>3
  <1>3. Nat \subseteq N
    <2> HIDE DEF N
    <2> QED BY <1>1, <1>2, Cut!InductionOnNat
  <1> QED
    BY <1>3, LenProperties

-----------------------------------------------------------------------------
\* The places of a part of a text, and of three texts in their concatenation.
LEMMA PartAt ==
  ASSUME NEW D, NEW t \in Seq(D), NEW i \in 1 .. (Len(t) + 1), NEW j \in (i - 1) .. Len(t)
  PROVE  /\ SubSeq(t, i, j) \in Seq(D) /\ Len(SubSeq(t, i, j)) = j - i + 1
         /\ \A k \in 1 .. (j - i + 1) : SubSeq(t, i, j)[k] = t[i - 1 + k]
  <1>1. Len(t) \in Nat /\ \A k \in 1 .. Len(t) : t[k] \in D
    BY LenProperties, ElementOfSeq
  <1>2. i \in Int /\ j \in Int /\ \A k \in i .. j : t[k] \in D
    BY <1>1
  <1>3. /\ SubSeq(t, i, j) \in Seq(D)
        /\ Len(SubSeq(t, i, j)) = IF i <= j THEN j - i + 1 ELSE 0
        /\ \A k \in 1 .. j - i + 1 : SubSeq(t, i, j)[k] = t[i + k - 1]
    BY <1>2, SubSeqProperties
  <1> DEFINE u == SubSeq(t, i, j)
  <1> HIDE DEF u
  <1>4. u \in Seq(D) /\ Len(u) = j - i + 1 /\ \A k \in 1 .. (j - i + 1) : u[k] = t[i - 1 + k]
    BY <1>1, <1>3 DEF u
  <1> QED
    BY <1>4 DEF u

Places(t, D, p, m, s) ==
  /\ t \in Seq(D) /\ Len(t) = Len(p) + Len(m) + Len(s)
  /\ \A i \in 1 .. Len(p) : t[i] = p[i]
  /\ \A i \in 1 .. Len(m) : t[Len(p) + i] = m[i]
  /\ \A i \in 1 .. Len(s) : t[Len(p) + Len(m) + i] = s[i]
  /\ SubSeq(t, 1, Len(p)) = p
  /\ SubSeq(t, Len(p) + 1, Len(p) + Len(m)) = m
  /\ SubSeq(t, Len(p) + Len(m) + 1, Len(t)) = s

LEMMA ThreeTexts ==
  ASSUME NEW D, NEW p \in Seq(D), NEW m \in Seq(D), NEW s \in Seq(D)
  PROVE  Places(p \o m \o s, D, p, m, s)
  <1> DEFINE t == p \o m \o s
             q == p \o m
  <1>1. Len(p) \in Nat /\ Len(m) \in Nat /\ Len(s) \in Nat
    BY LenProperties
  <1>2. q \in Seq(D) /\ Len(q) = Len(p) + Len(m)
        /\ \A i \in 1 .. Len(p) + Len(m) : q[i] = IF i <= Len(p) THEN p[i] ELSE m[i - Len(p)]
    BY ConcatProperties
  <1>3. p \o m \o s = q \o s
    OBVIOUS
  <1> HIDE DEF q
  <1>4. t \in Seq(D) /\ Len(t) = Len(q) + Len(s)
        /\ \A i \in 1 .. Len(q) + Len(s) : t[i] = IF i <= Len(q) THEN q[i] ELSE s[i - Len(q)]
    BY <1>2, <1>3, ConcatProperties
  <1> HIDE DEF t
  <1>5. \A i \in 1 .. Len(p) : t[i] = p[i]
    BY <1>1, <1>2, <1>4
  <1>6. \A i \in 1 .. Len(m) : t[Len(p) + i] = m[i]
    BY <1>1, <1>2, <1>4
  <1>7. \A i \in 1 .. Len(s) : t[Len(p) + Len(m) + i] = s[i]
    BY <1>1, <1>2, <1>4
  <1>10. Len(t) = Len(p) + Len(m) + Len(s)
    BY <1>1, <1>2, <1>4
  <1>11. SubSeq(t, 1, Len(p)) = p
    <2> DEFINE u == SubSeq(t, 1, Len(p))
    <2>1. 1 \in 1 .. (Len(t) + 1) /\ Len(p) \in (1 - 1) .. Len(t)
      BY <1>1, <1>10
    <2>2. u \in Seq(D) /\ Len(u) = Len(p) - 1 + 1 /\ \A k \in 1 .. (Len(p) - 1 + 1) : u[k] = t[1 - 1 + k]
      BY <1>4, <2>1, PartAt
    <2> HIDE DEF u
    <2>3. u \in Seq(D) /\ Len(u) = Len(p) /\ \A k \in 1 .. Len(p) : u[k] = p[k]
      BY <1>1, <1>5, <2>2
    <2> QED
      BY <2>3, EqualTexts DEF u
  <1>12. SubSeq(t, Len(p) + 1, Len(p) + Len(m)) = m
    <2> DEFINE a == Len(p) + 1
               b == Len(p) + Len(m)
               u == SubSeq(t, a, b)
    <2>1. a \in 1 .. (Len(t) + 1) /\ b \in (a - 1) .. Len(t)
      BY <1>1, <1>10
    <2> HIDE DEF a, b
    <2>2. u \in Seq(D) /\ Len(u) = b - a + 1 /\ \A k \in 1 .. (b - a + 1) : u[k] = t[a - 1 + k]
      BY <1>4, <2>1, PartAt
    <2> HIDE DEF u
    <2>3. b - a + 1 = Len(m) /\ \A k \in 1 .. Len(m) : a - 1 + k = Len(p) + k
      BY <1>1 DEF a, b
    <2>5. \A k \in 1 .. Len(m) : u[k] = m[k]
      BY <1>6, <2>2, <2>3, Zenon
    <2>4. u = m
      BY <2>2, <2>3, <2>5, EqualTexts, Zenon
    <2> QED
      BY <2>4 DEF u, a, b
  <1>13. SubSeq(t, Len(p) + Len(m) + 1, Len(t)) = s
    <2> DEFINE a == Len(p) + Len(m) + 1
               b == Len(t)
               u == SubSeq(t, a, b)
    <2>1. a \in 1 .. (Len(t) + 1) /\ b \in (a - 1) .. Len(t)
      BY <1>1, <1>10
    <2> HIDE DEF a, b
    <2>2. u \in Seq(D) /\ Len(u) = b - a + 1 /\ \A k \in 1 .. (b - a + 1) : u[k] = t[a - 1 + k]
      BY <1>4, <2>1, PartAt
    <2> HIDE DEF u
    <2>3. b - a + 1 = Len(s) /\ \A k \in 1 .. Len(s) : a - 1 + k = Len(p) + Len(m) + k
      BY <1>1, <1>10 DEF a, b
    <2>4. \A k \in 1 .. Len(s) : u[k] = s[k]
      BY <1>7, <2>2, <2>3
    <2>5. u = s
      BY <2>2, <2>3, <2>4, EqualTexts
    <2> QED
      BY <2>5 DEF u, a, b
  <1>14. Places(t, D, p, m, s)
    BY <1>4, <1>5, <1>6, <1>7, <1>10, <1>11, <1>12, <1>13 DEF Places
  <1> QED
    BY <1>14 DEF t

\* Blank, character by character.
LEMMA BlankAt ==
  ASSUME NEW D, NEW t \in Seq(D)
  PROVE  Blank(t) <=> \A i \in 1 .. Len(t) : t[i] \in White
  <1>1. DOMAIN t = 1 .. Len(t)
    OBVIOUS
  <1> QED
    BY <1>1 DEF Blank, ToSet

LEMMA BlankConcat ==
  ASSUME NEW D, NEW p \in Seq(D), NEW q \in Seq(D)
  PROVE  Blank(p \o q) <=> Blank(p) /\ Blank(q)
  <1> DEFINE t == p \o q
  <1>1. /\ t \in Seq(D) /\ Len(t) = Len(p) + Len(q) /\ Len(p) \in Nat /\ Len(q) \in Nat
        /\ \A i \in 1 .. Len(p) + Len(q) : t[i] = IF i <= Len(p) THEN p[i] ELSE q[i - Len(p)]
    BY ConcatProperties, LenProperties
  <1> HIDE DEF t
  <1>2. /\ Blank(t) <=> \A i \in 1 .. Len(t) : t[i] \in White
        /\ Blank(p) <=> \A i \in 1 .. Len(p) : p[i] \in White
        /\ Blank(q) <=> \A i \in 1 .. Len(q) : q[i] \in White
    BY <1>1, BlankAt, Zenon
  <1>3. \A i \in 1 .. Len(p) : i \in 1 .. Len(t) /\ t[i] = p[i]
    BY <1>1
  <1>4. ASSUME NEW i \in 1 .. Len(q) PROVE Len(p) + i \in 1 .. Len(t) /\ t[Len(p) + i] = q[i]
    <2>1. Len(p) + i \in 1 .. Len(p) + Len(q) /\ ~(Len(p) + i <= Len(p)) /\ Len(p) + i - Len(p) = i
      BY <1>1
    <2> QED
      BY <1>1, <2>1
  <1>5. \A i \in 1 .. Len(t) : i \in 1 .. Len(p) \/ (i - Len(p) \in 1 .. Len(q) /\ t[i] = q[i - Len(p)])
    BY <1>1
  <1>6. Blank(t) <=> Blank(p) /\ Blank(q)
    BY <1>2, <1>3, <1>4, <1>5, Zenon
  <1> QED
    BY <1>6 DEF t

LEMMA BlankOfOne ==
  /\ Blank(<< >>)
  /\ \A x : Blank(<< x >>) <=> x \in White
  BY DEF Blank, ToSet

\* A text without white characters at its ends.
Tight(m) == m = << >> \/ (m[1] \notin White /\ m[Len(m)] \notin White)

\* What is between white texts is what str::trim leaves, when it is tight.
LEMMA TrimUnique ==
  ASSUME NEW D, NEW v \in Seq(D), NEW m \in Seq(D), NEW w \in Seq(D), Blank(v), Blank(w), Tight(m)
  PROVE  Trimmed(v \o m \o w) = m
  <1> DEFINE t == v \o m \o w
             ink == {i \in DOMAIN t : t[i] \notin White}
             a == Len(v)
             b == Len(m)
             c == Len(w)
  <1>0. Places(t, D, v, m, w)
    BY ThreeTexts
  <1>1. a \in Nat /\ b \in Nat /\ c \in Nat
    BY LenProperties
  <1>7. (\A i \in 1 .. a : v[i] \in White) /\ (\A i \in 1 .. c : w[i] \in White)
    BY BlankAt
  <1> HIDE DEF t
  <1>2. /\ t \in Seq(D) /\ Len(t) = a + b + c
        /\ \A i \in 1 .. a : t[i] \in White
        /\ \A i \in 1 .. b : t[a + i] = m[i]
        /\ \A i \in 1 .. c : t[a + b + i] \in White
        /\ SubSeq(t, a + 1, a + b) = m
    BY <1>0, <1>7 DEF Places
  <1>3. DOMAIN t = 1 .. (a + b + c)
    BY <1>2, LenProperties
  <1> HIDE DEF a, b, c
  <1>4. ASSUME NEW i \in ink PROVE i \in (a + 1) .. (a + b)
    <2>1. i \in 1 .. (a + b + c) /\ t[i] \notin White
      BY <1>3
    <2>2. ~(i <= a)
      BY <1>1, <1>2, <2>1
    <2>3. i > a + b => i - (a + b) \in 1 .. c /\ a + b + (i - (a + b)) = i
      BY <1>1, <2>1
    <2>4. ~(i > a + b)
      BY <1>1, <1>2, <2>1, <2>3
    <2> QED
      BY <1>1, <2>1, <2>2, <2>4
  <1>5. CASE m = << >>
    <2>1. ink = {}
      BY <1>1, <1>4, <1>5 DEF b
    <2> QED
      BY <1>5, <2>1 DEF Trimmed, t
  <1>6. CASE m # << >>
    <2>1. b > 0 /\ m[1] \notin White /\ m[b] \notin White
      BY <1>6, EmptySeq DEF Tight, b
    <2>7. t[a + 1] = m[1] /\ t[a + b] = m[b] /\ a + 1 \in 1 .. (a + b + c) /\ a + b \in 1 .. (a + b + c)
      BY <1>1, <1>2, <2>1
    <2>2. a + 1 \in ink /\ a + b \in ink
      BY <1>3, <2>1, <2>7
    <2>3. ink \subseteq Nat /\ ink \subseteq 1 .. (a + b + c) /\ a + b + c \in Nat /\ ink # {}
      BY <1>1, <1>3, <2>2
    <2> HIDE DEF ink
    <2>4. Min(ink) \in ink /\ Max(ink) \in ink /\ Min(ink) <= a + 1 /\ a + b <= Max(ink)
      BY <2>2, <2>3, MinOfSome, MaxOfIndexes, Zenon
    <2>5. Min(ink) = a + 1 /\ Max(ink) = a + b
      BY <1>1, <1>4, <2>4
    <2>6. Trimmed(t) = SubSeq(t, a + 1, a + b)
      BY <2>3, <2>5, Zenon DEF Trimmed, ink
    <2> QED
      BY <1>2, <2>6, Zenon DEF t
  <1> QED
    BY <1>5, <1>6

\* Every text is what str::trim leaves, between white texts.
LEMMA TrimSplit ==
  ASSUME NEW D, NEW t \in Seq(D)
  PROVE  /\ Trimmed(t) \in Seq(D) /\ Tight(Trimmed(t))
         /\ \E v, w \in Seq(D) : Blank(v) /\ Blank(w) /\ t = v \o Trimmed(t) \o w
         /\ Trimmed(t) = << >> <=> Blank(t)
  <1> DEFINE ink == {i \in DOMAIN t : t[i] \notin White}
  <1>1. Len(t) \in Nat /\ DOMAIN t = 1 .. Len(t) /\ ink \subseteq 1 .. Len(t) /\ ink \subseteq Nat
    OBVIOUS
  <1>2. \A i \in 1 .. Len(t) : i \notin ink => t[i] \in White
    BY <1>1, ElementOfSeq
  <1>5. Blank(t) <=> \A i \in 1 .. Len(t) : t[i] \in White
    BY BlankAt
  <1>3. CASE ink = {}
    <2>1. Blank(t) /\ Blank(<< >>)
      BY <1>2, <1>3, <1>5 DEF Blank, ToSet
    <2>2. Trimmed(t) = << >>
      BY <1>3 DEF Trimmed
    <2>3. << >> \in Seq(D) /\ t = t \o << >> \o << >>
      BY EmptySeq, ConcatEmptySeq
    <2> HIDE DEF ink
    <2>4. \E v, w \in Seq(D) : Blank(v) /\ Blank(w) /\ t = v \o << >> \o w
      BY <2>1, <2>3, Zenon
    <2> QED
      BY <2>1, <2>2, <2>4, EmptySeq, Zenon DEF Tight
  <1>4. CASE ink # {}
    <2> DEFINE i == Min(ink)
               j == Max(ink)
               v == SubSeq(t, 1, i - 1)
               m == SubSeq(t, i, j)
               w == SubSeq(t, j + 1, Len(t))
    <2>1. i \in ink /\ j \in ink /\ \A k \in ink : i <= k /\ k <= j
      BY <1>1, <1>4, MinOfSome, MaxOfIndexes, Zenon
    <2>2. Trimmed(t) = m
      BY <1>4, Zenon DEF Trimmed
    <2>3. i \in 1 .. Len(t) /\ j \in i .. Len(t) /\ t[i] \notin White /\ t[j] \notin White
      BY <1>1, <2>1
    <2> HIDE DEF i, j, ink
    <2>20. \A k \in 1 .. Len(t) : k < i \/ k > j => k \notin ink
      BY <2>1, <2>3
    <2>4. /\ \A k \in 1 .. (i - 1) : t[k] \in White
          /\ \A k \in (j + 1) .. Len(t) : t[k] \in White
      BY <1>1, <1>2, <2>3, <2>20
    <2>5. v \in Seq(D) /\ w \in Seq(D)
      BY <1>1, <2>3, PartOfText
    <2>13. Blank(v)
      <3>1. Len(v) = i - 1 /\ \A k \in 1 .. (i - 1) : v[k] = t[k]
        BY <1>1, <2>3
      <3> HIDE DEF v
      <3> QED
        BY <2>4, <2>5, <3>1, BlankAt
    <2>14. Blank(w)
      <3> DEFINE b == j + 1
                 u == SubSeq(t, b, Len(t))
      <3>1. b \in 1 .. (Len(t) + 1) /\ Len(t) \in (b - 1) .. Len(t) /\ w = u
        BY <1>1, <2>3
      <3> HIDE DEF b, w
      <3>3. Len(u) = Len(t) - b + 1 /\ \A k \in 1 .. (Len(t) - b + 1) : u[k] = t[b - 1 + k]
        BY <3>1, PartAt
      <3> HIDE DEF u
      <3>4. Len(w) = Len(t) - j /\ \A k \in 1 .. (Len(t) - j) : w[k] = t[j + k]
        BY <1>1, <2>3, <3>1, <3>3 DEF b
      <3>2. \A k \in 1 .. (Len(t) - j) : w[k] \in White
        BY <1>1, <2>3, <2>4, <3>4
      <3> QED
        BY <2>5, <3>2, <3>4, BlankAt
    <2>6. m \in Seq(D) /\ Len(m) = j - i + 1 /\ m[1] = t[i] /\ m[j - i + 1] = t[j]
      <3>1. i \in 1 .. (Len(t) + 1) /\ j \in (i - 1) .. Len(t)
        BY <1>1, <2>3
      <3>2. m \in Seq(D) /\ Len(m) = j - i + 1 /\ \A k \in 1 .. (j - i + 1) : m[k] = t[i - 1 + k]
        BY <3>1, PartAt
      <3> HIDE DEF m
      <3> QED
        BY <1>1, <2>3, <3>2
    <2>7. /\ 1 \in 1 .. (Len(t) + 1) /\ i - 1 \in (1 - 1) .. Len(t) /\ (i - 1) + 1 = i
          /\ j \in (i - 1) .. Len(t) /\ j \in (1 - 1) .. Len(t) /\ Len(t) \in j .. Len(t)
      BY <1>1, <2>3
    <2>8. v \o m = SubSeq(t, 1, j)
      BY <2>7, ConcatAdjacentSubSeq, Zenon
    <2>9. SubSeq(t, 1, j) \o w = SubSeq(t, 1, Len(t))
      BY <2>7, ConcatAdjacentSubSeq, Zenon
    <2>10. t = v \o m \o w
      BY <2>8, <2>9, SubSeqFull, Zenon
    <2>11. Tight(m)
      BY <2>3, <2>6 DEF Tight
    <2>12. ~Blank(t)
      BY <1>1, <1>5, <2>3
    <2> HIDE DEF v, m, w
    <2>15. \E l, r \in Seq(D) : Blank(l) /\ Blank(r) /\ t = l \o m \o r
      BY <2>5, <2>10, <2>13, <2>14, Zenon
    <2>16. m # << >>
      BY <2>3, <2>6, EmptySeq
    <2> QED
      BY <2>2, <2>6, <2>11, <2>12, <2>15, <2>16, Zenon
  <1> QED
    BY <1>3, <1>4, Zenon

\* White characters around a text do not matter to str::trim.
LEMMA TrimPad ==
  ASSUME NEW D, NEW v \in Seq(D), NEW x \in Seq(D), NEW w \in Seq(D), Blank(v), Blank(w)
  PROVE  Trimmed(v \o x \o w) = Trimmed(x)
  <1> DEFINE m == Trimmed(x)
  <1>1. m \in Seq(D) /\ Tight(m)
    BY TrimSplit
  <1>2. PICK a \in Seq(D), b \in Seq(D) : Blank(a) /\ Blank(b) /\ x = a \o m \o b
    BY TrimSplit, Zenon
  <1> HIDE DEF m
  <1> DEFINE l == v \o a
             r == b \o w
  <1>3. l \in Seq(D) /\ r \in Seq(D)
    OBVIOUS
  <1>4. Blank(l) /\ Blank(r)
    BY <1>2, BlankConcat
  <1>5. v \o x \o w = l \o m \o r
    BY <1>1, <1>2
  <1> HIDE DEF l, r
  <1>6. Trimmed(l \o m \o r) = m
    BY <1>1, <1>3, <1>4, TrimUnique
  <1> QED
    BY <1>5, <1>6 DEF m

\* The same on one side, and for what str::trim leaves.
LEMMA TrimSides ==
  ASSUME NEW D, NEW v \in Seq(D), NEW x \in Seq(D)
  PROVE  /\ Blank(v) => Trimmed(v \o x) = Trimmed(x) /\ Trimmed(x \o v) = Trimmed(x)
         /\ Trimmed(Trimmed(x)) = Trimmed(x)
         /\ Trimmed(<< >>) = << >>
  <1>1. << >> \in Seq(D) /\ Blank(<< >>)
    BY EmptySeq DEF Blank, ToSet
  <1>3. Trimmed(Trimmed(x)) = Trimmed(x)
    <2> DEFINE m == Trimmed(x)
    <2>1. m \in Seq(D) /\ Tight(m)
      BY TrimSplit
    <2> HIDE DEF m
    <2>2. << >> \o m \o << >> = m
      BY <2>1, ConcatEmptySeq
    <2>3. Trimmed(<< >> \o m \o << >>) = m
      BY <1>1, <2>1, TrimUnique, Zenon
    <2> QED
      BY <2>2, <2>3 DEF m
  <1>4. Trimmed(<< >>) = << >>
    BY DEF Trimmed
  <1>2. CASE Blank(v)
    <2>1. v \o x \o << >> = v \o x
      BY ConcatEmptySeq, ConcatProperties
    <2>2. << >> \o x \o v = x \o v
      BY ConcatEmptySeq
    <2>3. Trimmed(v \o x \o << >>) = Trimmed(x)
      BY <1>1, <1>2, TrimPad, Zenon
    <2>4. Trimmed(<< >> \o x \o v) = Trimmed(x)
      BY <1>1, <1>2, TrimPad, Zenon
    <2> QED
      BY <1>2, <1>3, <1>4, <2>1, <2>2, <2>3, <2>4
  <1> QED
    BY <1>2, <1>3, <1>4

-----------------------------------------------------------------------------
\* Texts put together in another order of brackets.
LEMMA Regrouped ==
  ASSUME NEW D, NEW a \in Seq(D), NEW b \in Seq(D), NEW x \in D
  PROVE  /\ a \o b \in Seq(D) /\ Append(a, x) \in Seq(D) /\ Append(a, x) # << >>
         /\ Append(a \o b, x) = a \o Append(b, x) /\ Append(a, x) = a \o << x >>
         /\ << >> \o a = a /\ a \o << >> = a
  OBVIOUS

\* A text with a line after it.
Linked(a, b) == a \o << "nl" >> \o b

LEMMA LinkedTexts ==
  ASSUME NEW D, "nl" \in D
  PROVE  \A a, b, c \in Seq(D) :
           /\ Linked(a, b) \in Seq(D) /\ Linked(a, b) # << >>
           /\ Linked(Linked(a, b), c) = Linked(a, Linked(b, c))
           /\ Linked(a, << >>) = Append(a, "nl")
           /\ Append(a, "nl") \o b = Linked(a, b)
           /\ \A x \in D : Append(Linked(a, b), x) = Linked(a, Append(b, x))
           /\ Linked(a, b) = a \o Linked(<< >>, b)
  <1>1. \A a, b \in Seq(D) : Linked(a, b) \in Seq(D) /\ Linked(a, b) # << >>
    BY DEF Linked
  <1>2. \A a, b, c \in Seq(D) : Linked(Linked(a, b), c) = Linked(a, Linked(b, c))
    BY DEF Linked
  <1>3. \A a \in Seq(D) : Linked(a, << >>) = Append(a, "nl")
    BY DEF Linked
  <1>4. \A a, b \in Seq(D) : Append(a, "nl") \o b = Linked(a, b)
    BY DEF Linked
  <1>5. \A a, b \in Seq(D) : \A x \in D : Append(Linked(a, b), x) = Linked(a, Append(b, x))
    <2> TAKE a, b \in Seq(D)
    <2> TAKE x \in D
    <2> DEFINE c == a \o << "nl" >>
    <2>1. c \in Seq(D)
      OBVIOUS
    <2> HIDE DEF c
    <2>2. Append(c \o b, x) = c \o Append(b, x)
      BY <2>1, SMTT(60)
    <2> QED
      BY <2>2, Zenon DEF Linked, c
  <1>6. \A a, b \in Seq(D) : Linked(a, b) = a \o Linked(<< >>, b)
    BY DEF Linked
  <1> QED
    BY <1>1, <1>2, <1>3, <1>4, <1>5, <1>6, Zenon

\* The accumulator of str::split.
SplitFrom(t) == FoldLeft(AddToLines, [done |-> << >>, line |-> << >>], t)
SplitStates(D) == [done : Seq(Seq(D \ {"nl"})), line : Seq(D \ {"nl"})]

LEMMA LineSteps ==
  ASSUME NEW d, NEW l, NEW x
  PROVE  /\ x = "nl" => AddToLines([done |-> d, line |-> l], x) = [done |-> Append(d, l), line |-> << >>]
         /\ x # "nl" => AddToLines([done |-> d, line |-> l], x) = [done |-> d, line |-> Append(l, x)]
  <1>1. CASE x = "nl"
    BY <1>1 DEF AddToLines
  <1>2. CASE x # "nl"
    BY <1>2, Zenon DEF AddToLines
  <1> QED
    BY <1>1, <1>2

LEMMA SplitSteps ==
  ASSUME NEW D, NEW t \in Seq(D)
  PROVE  /\ SplitFrom(t) \in SplitStates(D)
         /\ SplitLines(t) = Append(SplitFrom(t).done, SplitFrom(t).line)
         /\ SplitFrom(<< >>) = [done |-> << >>, line |-> << >>]
         /\ \A x \in D : SplitFrom(Append(t, x)) = AddToLines(SplitFrom(t), x)
  <1> DEFINE L == Seq(D \ {"nl"})
             S == [done : Seq(L), line : L]
             start == [done |-> << >>, line |-> << >>]
  <1>1. start \in S
    OBVIOUS
  <1>2. ASSUME NEW a \in S, NEW x \in D PROVE AddToLines(a, x) \in S
    <2>1. a.done \in Seq(L) /\ a.line \in L
      OBVIOUS
    <2>2. Append(a.done, a.line) \in Seq(L) /\ << >> \in L
      BY <2>1
    <2>3. x # "nl" => Append(a.line, x) \in L
      BY <2>1
    <2> HIDE DEF L
    <2> QED
      BY <2>1, <2>2, <2>3, Zenon DEF AddToLines
  <1> HIDE DEF S, start
  <1>3. Cut!Fold(start, t) \in S
    BY <1>1, <1>2, Cut!FoldType
  <1>4. Cut!Fold(start, << >>) = start
    BY Cut!FoldEmpty
  <1>5. \A x \in D : Cut!Fold(start, Append(t, x)) = AddToLines(Cut!Fold(start, t), x)
    BY Cut!FoldAppend
  <1>6. \A u : SplitFrom(u) = Cut!Fold(start, u)
    BY FileFolds DEF SplitFrom, start
  <1>7. SplitLines(t) = Append(SplitFrom(t).done, SplitFrom(t).line)
    BY DEF SplitLines, SplitFrom
  <1> QED
    BY <1>3, <1>4, <1>5, <1>6, <1>7 DEF SplitStates, S, start

\* What has no newline goes on the line that is open.
LEMMA SplitOnto ==
  ASSUME NEW D, NEW t \in Seq(D), NEW l \in Seq(D \ {"nl"})
  PROVE  SplitFrom(t \o l) = [done |-> SplitFrom(t).done, line |-> SplitFrom(t).line \o l]
  <1> DEFINE b == SplitFrom(t)
             Onto(u) == [done |-> b.done, line |-> b.line \o u]
             X == {u \in Seq(D \ {"nl"}) : SplitFrom(t \o u) = Onto(u)}
  <1>1. b.done \in Seq(Seq(D \ {"nl"})) /\ b.line \in Seq(D \ {"nl"}) /\ b = [done |-> b.done, line |-> b.line]
    BY SplitSteps DEF SplitStates
  <1> HIDE DEF b
  <1>2. << >> \in X
    <2>1. t \o << >> = t /\ b.line \o << >> = b.line
      BY <1>1
    <2> QED
      BY <1>1, <2>1 DEF b
  <1>3. ASSUME NEW u \in Seq(D \ {"nl"}), NEW x \in D \ {"nl"}, u \in X PROVE Append(u, x) \in X
    <2>1. u \in Seq(D) /\ x \in D /\ x # "nl" /\ Append(u, x) \in Seq(D \ {"nl"})
      OBVIOUS
    <2>2. t \o Append(u, x) = Append(t \o u, x) /\ t \o u \in Seq(D)
      BY <2>1
    <2>3. SplitFrom(Append(t \o u, x)) = AddToLines(SplitFrom(t \o u), x)
      BY <2>1, <2>2, SplitSteps, Zenon
    <2>4. SplitFrom(t \o u) = Onto(u)
      BY <1>3
    <2>5. AddToLines(Onto(u), x) = [done |-> b.done, line |-> Append(b.line \o u, x)]
      BY <2>1, LineSteps, Zenon
    <2>6. Append(b.line \o u, x) = b.line \o Append(u, x)
      <3> DEFINE N == D \ {"nl"}
                 l1 == b.line
      <3>1. l1 \in Seq(N) /\ u \in Seq(N) /\ x \in N
        BY <1>1
      <3> HIDE DEF N, l1
      <3>2. Append(l1 \o u, x) = l1 \o Append(u, x)
        BY <3>1, SMTT(60)
      <3> QED
        BY <3>2 DEF l1
    <2>7. SplitFrom(t \o Append(u, x)) = Onto(Append(u, x))
      BY <2>2, <2>3, <2>4, <2>5, <2>6
    <2> QED
      BY <2>1, <2>7, Zenon
  <1> HIDE DEF X
  <1>4. l \in X
    BY <1>2, <1>3, InductionOnTexts, Zenon
  <1> QED
    BY <1>4 DEF X, b

\* A line after a text is a line of its own.
LEMMA SplitLink ==
  ASSUME NEW D, "nl" \in D, NEW t \in Seq(D), NEW l \in Seq(D \ {"nl"})
  PROVE  SplitFrom(Linked(t, l)) = [done |-> Append(SplitFrom(t).done, SplitFrom(t).line), line |-> l]
  <1> DEFINE n == Append(t, "nl")
             d == SplitFrom(t).done
             k == SplitFrom(t).line
  <1>1. n \in Seq(D) /\ l \in Seq(D)
    OBVIOUS
  <1>2. SplitFrom(t) = [done |-> d, line |-> k]
    BY SplitSteps, Zenon DEF SplitStates
  <1>3. SplitFrom(n) = AddToLines(SplitFrom(t), "nl")
    BY SplitSteps
  <1>9. n = t \o << "nl" >>
    OBVIOUS
  <1>4. Linked(t, l) = n \o l
    BY <1>9, Zenon DEF Linked
  <1> HIDE DEF n, d, k
  <1>5. AddToLines([done |-> d, line |-> k], "nl") = [done |-> Append(d, k), line |-> << >>]
    BY LineSteps, Zenon
  <1>6. SplitFrom(n) = [done |-> Append(d, k), line |-> << >>]
    BY <1>2, <1>3, <1>5, Zenon
  <1>7. SplitFrom(n \o l) = [done |-> SplitFrom(n).done, line |-> SplitFrom(n).line \o l]
    BY <1>1, SplitOnto
  <1>8. << >> \o l = l
    BY <1>1, ConcatEmptySeq
  <1> QED
    BY <1>4, <1>6, <1>7, <1>8 DEF d, k

\* join, line by line.
JoinFrom(s) == FoldLeft(AddLine, << >>, s)

LEMMA JoinAppend ==
  ASSUME NEW D, "nl" \in D, NEW s \in Seq(Seq(D)), NEW l \in Seq(D)
  PROVE  JoinLines(Append(s, l)) = IF s = << >> THEN l ELSE Linked(JoinLines(s), l)
  <1> DEFINE T == Seq(D)
             X == {u \in Seq(T) : JoinFrom(u) \in T /\ (u # << >> => JoinFrom(u) # << >>)}
  <1>1. JoinFrom(<< >>) = << >> /\ << >> \in T /\ << >> \in Seq(T)
    BY Glue!FoldEmpty, FileFolds, EmptySeq DEF JoinFrom
  <1>2. ASSUME NEW u \in Seq(T), NEW x \in T PROVE JoinFrom(Append(u, x)) = Linked(JoinFrom(u), x)
    <2>1. Glue!Fold(<< >>, Append(u, x)) = AddLine(Glue!Fold(<< >>, u), x)
      BY Glue!FoldAppend
    <2> QED
      BY <2>1, FileFolds, Zenon DEF AddLine, JoinFrom, Linked
  <1>3. << >> \in X
    <2> HIDE DEF T
    <2> QED
      BY <1>1
  <1>4. ASSUME NEW u \in Seq(T), NEW x \in T, u \in X PROVE Append(u, x) \in X
    <2>1. JoinFrom(u) \in T /\ Append(u, x) \in Seq(T)
      BY <1>4, AppendProperties
    <2>2. Linked(JoinFrom(u), x) \in T /\ Linked(JoinFrom(u), x) # << >>
      BY <2>1, LinkedTexts
    <2> HIDE DEF T
    <2> QED
      BY <1>2, <2>1, <2>2
  <1>5. s \in X
    <2> HIDE DEF X
    <2> QED
      BY <1>3, <1>4, InductionOnTexts
  <1>6. \A u : JoinLines(u) = IF u = << >> THEN << >> ELSE Tail(JoinFrom(u))
    BY DEF JoinLines, JoinFrom
  <1>7. Append(s, l) # << >> /\ JoinFrom(Append(s, l)) = Linked(JoinFrom(s), l)
    BY <1>2, AppendProperties
  <1>8. CASE s = << >>
    <2>1. Tail(Linked(<< >>, l)) = l
      BY DEF Linked
    <2> QED
      BY <1>1, <1>6, <1>7, <1>8, <2>1, Zenon
  <1>9. CASE s # << >>
    <2> DEFINE g == JoinFrom(s)
    <2>1. g \in Seq(D) /\ g # << >>
      BY <1>5, <1>9
    <2> HIDE DEF g
    <2>2. Tail(Linked(g, l)) = Linked(Tail(g), l)
      BY <2>1 DEF Linked
    <2> QED
      BY <1>6, <1>7, <1>9, <2>2, Zenon DEF g
  <1> QED
    BY <1>8, <1>9

\* Joined lines are a text, and joining goes piece by piece.
LEMMA JoinConcat ==
  ASSUME NEW D, "nl" \in D, NEW p \in Seq(Seq(D)), NEW q \in Seq(Seq(D)), p # << >>, q # << >>
  PROVE  /\ JoinLines(p) \in Seq(D) /\ JoinLines(q) \in Seq(D)
         /\ JoinLines(p \o q) = Linked(JoinLines(p), JoinLines(q))
  <1> DEFINE T == Seq(D)
             X == {u \in Seq(T) : u # << >> => JoinLines(p \o u) = Linked(JoinLines(p), JoinLines(u))}
  <1>1. JoinLines(p) \in T /\ JoinLines(q) \in T
    BY JoinedText
  <1>2. << >> \in X
    OBVIOUS
  <1>3. ASSUME NEW u \in Seq(T), NEW x \in T, u \in X PROVE Append(u, x) \in X
    <2>1. p \o Append(u, x) = Append(p \o u, x) /\ p \o u \in Seq(T) /\ p \o u # << >> /\ Append(u, x) \in Seq(T)
      OBVIOUS
    <2>2. JoinLines(Append(p \o u, x)) = Linked(JoinLines(p \o u), x)
      BY <2>1, JoinAppend, Zenon
    <2>3. JoinLines(Append(u, x)) = IF u = << >> THEN x ELSE Linked(JoinLines(u), x)
      BY JoinAppend
    <2>6. u = << >> => p \o u = p
      BY ConcatEmptySeq
    <2>4. CASE u = << >>
      <3>1. JoinLines(p \o Append(u, x)) = Linked(JoinLines(p), JoinLines(Append(u, x)))
        BY <2>1, <2>2, <2>3, <2>4, <2>6, Zenon
      <3> QED
        BY <2>1, <3>1, Zenon
    <2>5. CASE u # << >>
      <3>1. JoinLines(u) \in Seq(D)
        BY JoinedText
      <3>2. JoinLines(p \o u) = Linked(JoinLines(p), JoinLines(u))
        BY <1>3, <2>5
      <3> DEFINE a == JoinLines(p)
                 b == JoinLines(u)
      <3>3. a \in Seq(D) /\ b \in Seq(D)
        BY <1>1, <3>1
      <3> HIDE DEF a, b
      <3>4. Linked(Linked(a, b), x) = Linked(a, Linked(b, x))
        BY <3>3, LinkedTexts
      <3>5. JoinLines(p \o Append(u, x)) = Linked(JoinLines(p), JoinLines(Append(u, x)))
        BY <2>1, <2>2, <2>3, <2>5, <3>2, <3>4, Zenon DEF a, b
      <3> QED
        BY <2>1, <3>5, Zenon
    <2> QED
      BY <2>4, <2>5
  <1>4. q \in X
    <2> HIDE DEF X, T
    <2>1. q \in Seq(T)
      BY DEF T
    <2> QED
      BY <1>2, <1>3, <2>1, InductionOnTexts, Zenon
  <1> QED
    BY <1>1, <1>4

\* Splitting and joining are inverse to each other.
LEMMA JoinSplit ==
  ASSUME NEW D, "nl" \in D, NEW t \in Seq(D)
  PROVE  JoinLines(SplitLines(t)) = t
  <1> DEFINE X == {u \in Seq(D) : JoinLines(Append(SplitFrom(u).done, SplitFrom(u).line)) = u}
  <1>1. << >> \in X
    <2>1. SplitFrom(<< >>) = [done |-> << >>, line |-> << >>]
      BY SplitSteps
    <2>2. << >> \in Seq(Seq(D)) /\ << >> \in Seq(D)
      OBVIOUS
    <2>3. JoinLines(Append(<< >>, << >>)) = << >>
      BY <2>2, JoinAppend, Zenon
    <2>5. SplitFrom(<< >>).done = << >> /\ SplitFrom(<< >>).line = << >>
      BY <2>1
    <2>4. JoinLines(Append(SplitFrom(<< >>).done, SplitFrom(<< >>).line)) = << >>
      BY <2>3, <2>5, Zenon
    <2> QED
      BY <2>2, <2>4, Zenon
  <1>2. ASSUME NEW u \in Seq(D), NEW x \in D, u \in X PROVE Append(u, x) \in X
    <2> DEFINE d == SplitFrom(u).done
               l == SplitFrom(u).line
    <2>1. d \in Seq(Seq(D)) /\ l \in Seq(D) /\ SplitFrom(u) = [done |-> d, line |-> l]
      <3>1. d \in Seq(Seq(D \ {"nl"})) /\ l \in Seq(D \ {"nl"}) /\ SplitFrom(u) = [done |-> d, line |-> l]
        BY SplitSteps, Zenon DEF SplitStates
      <3>2. Seq(D \ {"nl"}) \subseteq Seq(D)
        OBVIOUS
      <3> QED
        BY <3>1, <3>2, SeqMonotonic
    <2>2. SplitFrom(Append(u, x)) = AddToLines(SplitFrom(u), x)
      BY SplitSteps
    <2>3. JoinLines(Append(d, l)) = u
      BY <1>2
    <2> HIDE DEF d, l
    <2>4. JoinLines(Append(d, l)) = IF d = << >> THEN l ELSE Linked(JoinLines(d), l)
      BY <2>1, JoinAppend
    <2>5. Append(u, x) \in Seq(D) /\ Append(l, x) \in Seq(D) /\ << >> \in Seq(D)
      BY <2>1
    <2>6. CASE x = "nl"
      <3>1. SplitFrom(Append(u, x)) = [done |-> Append(d, l), line |-> << >>]
        BY <2>1, <2>2, <2>6, LineSteps, Zenon
      <3>2. Append(d, l) \in Seq(Seq(D)) /\ Append(d, l) # << >>
        BY <2>1
      <3>3. JoinLines(Append(Append(d, l), << >>)) = Linked(JoinLines(Append(d, l)), << >>)
        BY <2>5, <3>2, JoinAppend, Zenon
      <3>4. Linked(u, << >>) = Append(u, x)
        BY <2>6, LinkedTexts, Zenon
      <3>5. JoinLines(Append(SplitFrom(Append(u, x)).done, SplitFrom(Append(u, x)).line)) = Append(u, x)
        BY <2>3, <3>1, <3>3, <3>4
      <3> QED
        BY <2>5, <3>5, Zenon
    <2>7. CASE x # "nl"
      <3>1. SplitFrom(Append(u, x)) = [done |-> d, line |-> Append(l, x)]
        <4>1. AddToLines([done |-> d, line |-> l], x) = [done |-> d, line |-> Append(l, x)]
          BY <2>7, LineSteps, Zenon
        <4> QED
          BY <2>1, <2>2, <4>1, Zenon
      <3>2. JoinLines(Append(d, Append(l, x))) = IF d = << >> THEN Append(l, x) ELSE Linked(JoinLines(d), Append(l, x))
        BY <2>1, <2>5, JoinAppend, Zenon
      <3> DEFINE j == JoinLines(d)
      <3>3. j \in Seq(D)
        BY <2>1, JoinedText
      <3> HIDE DEF j
      <3>4. Linked(j, Append(l, x)) = Append(Linked(j, l), x)
        BY <2>1, <3>3, LinkedTexts
      <3>5. JoinLines(Append(d, Append(l, x))) = Append(u, x)
        BY <2>3, <2>4, <3>2, <3>4 DEF j
      <3>6. JoinLines(Append(SplitFrom(Append(u, x)).done, SplitFrom(Append(u, x)).line)) = Append(u, x)
        BY <3>1, <3>5
      <3> QED
        BY <2>5, <3>6, Zenon
    <2> QED
      BY <2>6, <2>7
  <1>3. t \in X
    <2> HIDE DEF X
    <2> QED
      BY <1>1, <1>2, InductionOnTexts
  <1> QED
    BY <1>3, SplitSteps, Zenon

LEMMA SplitJoin ==
  ASSUME NEW D, "nl" \in D, NEW s \in Seq(Seq(D \ {"nl"})), s # << >>
  PROVE  SplitLines(JoinLines(s)) = s
  <1> DEFINE T == Seq(D \ {"nl"})
             X == {u \in Seq(T) : \A l \in T : SplitFrom(JoinLines(Append(u, l))) = [done |-> u, line |-> l]}
  <1>1. T \subseteq Seq(D) /\ Seq(T) \subseteq Seq(Seq(D)) /\ << >> \in Seq(D)
    <2>1. T \subseteq Seq(D)
      OBVIOUS
    <2> QED
      BY <2>1, SeqMonotonic, EmptySeq
  <1>2. << >> \in X
    <2>1. ASSUME NEW l \in T PROVE SplitFrom(JoinLines(Append(<< >>, l))) = [done |-> << >>, line |-> l]
      <3>1. << >> \in Seq(Seq(D)) /\ << >> \in Seq(D) /\ l \in Seq(D)
        BY <1>1, EmptySeq
      <3>2. JoinLines(Append(<< >>, l)) = l
        BY <3>1, JoinAppend, Zenon
      <3>3. SplitFrom(<< >> \o l) = [done |-> SplitFrom(<< >>).done, line |-> SplitFrom(<< >>).line \o l]
        BY <3>1, SplitOnto, Zenon
      <3>4. SplitFrom(<< >>) = [done |-> << >>, line |-> << >>] /\ << >> \o l = l
        BY <3>1, SplitSteps, ConcatEmptySeq
      <3> QED
        BY <3>2, <3>3, <3>4
    <2>2. << >> \in Seq(T)
      BY EmptySeq
    <2> HIDE DEF T
    <2> QED
      BY <2>1, <2>2, Zenon
  <1>3. ASSUME NEW u \in Seq(T), NEW k \in T, u \in X PROVE Append(u, k) \in X
    <2> DEFINE v == Append(u, k)
               j == JoinLines(v)
    <2>1. v \in Seq(T) /\ v \in Seq(Seq(D)) /\ v # << >>
      BY <1>1, AppendProperties
    <2>2. SplitFrom(j) = [done |-> u, line |-> k]
      BY <1>3
    <2>3. j \in Seq(D)
      BY <2>1, JoinedText, Zenon
    <2> HIDE DEF v, j
    <2>6. ASSUME NEW l \in T PROVE SplitFrom(JoinLines(Append(v, l))) = [done |-> v, line |-> l]
      <3>1. l \in Seq(D) /\ l \in Seq(D \ {"nl"})
        BY <1>1
      <3>2. JoinLines(Append(v, l)) = Linked(j, l)
        BY <2>1, <3>1, JoinAppend DEF j
      <3>3. SplitFrom(Linked(j, l)) = [done |-> Append(SplitFrom(j).done, SplitFrom(j).line), line |-> l]
        BY <2>3, <3>1, SplitLink, Zenon
      <3> QED
        BY <2>2, <3>2, <3>3 DEF v
    <2> HIDE DEF T
    <2>7. v \in X
      BY <2>1, <2>6, Zenon
    <2> QED
      BY <2>7 DEF v
  <1>4. Seq(T) \subseteq X
    <2> HIDE DEF X, T
    <2> QED
      BY <1>2, <1>3, InductionOnTexts, Zenon
  <1>5. PICK u \in Seq(T), l \in T : s = Append(u, l)
    BY SequenceEmptyOrAppend, Zenon
  <1>6. SplitFrom(JoinLines(s)) = [done |-> u, line |-> l]
    BY <1>4, <1>5, Zenon
  <1>7. JoinLines(s) \in Seq(D)
    BY <1>1, JoinedText
  <1> QED
    BY <1>5, <1>6, <1>7, SplitSteps

-----------------------------------------------------------------------------
\* str::trim of each line.
TrimAll(s) == [i \in DOMAIN s |-> Trimmed(s[i])]

LEMMA TrimAllSteps ==
  ASSUME NEW D, NEW s \in Seq(Seq(D)), NEW l \in Seq(D)
  PROVE  /\ TrimAll(s) \in Seq(Seq(D)) /\ Len(TrimAll(s)) = Len(s)
         /\ TrimAll(Append(s, l)) = Append(TrimAll(s), Trimmed(l))
         /\ TrimAll(<< >>) = << >>
  <1> DEFINE T == Seq(D)
             u == Append(s, l)
             a == TrimAll(s)
             b == Append(a, Trimmed(l))
  <1>1. \A x \in T : Trimmed(x) \in T
    BY TrimSplit
  <1>2. Len(s) \in Nat /\ DOMAIN s = 1 .. Len(s) /\ \A i \in 1 .. Len(s) : s[i] \in T
    BY LenProperties, ElementOfSeq
  <1>3. l \in T /\ s \in Seq(T)
    OBVIOUS
  <1> HIDE DEF T
  <1>4. a \in [1 .. Len(s) -> T] /\ DOMAIN a = 1 .. Len(s)
    BY <1>1, <1>2 DEF TrimAll
  <1>5. \A g \in [1 .. Len(s) -> T] : g \in Seq(T) /\ Len(g) = Len(s)
    <2> DEFINE n == Len(s)
    <2>1. n \in Nat
      BY <1>2
    <2> HIDE DEF n
    <2>2. \A g \in [1 .. n -> T] : g \in Seq(T)
      BY <2>1
    <2>3. \A g \in [1 .. n -> T] : DOMAIN g = 1 .. n
      OBVIOUS
    <2>4. \A g \in [1 .. n -> T] : Len(g) = n
      BY <2>1, <2>2, <2>3, LenProperties
    <2> QED
      BY <2>2, <2>4 DEF n
  <1>6. a \in Seq(T) /\ Len(a) = Len(s)
    BY <1>4, <1>5
  <1>7. /\ u \in Seq(T) /\ Len(u) = Len(s) + 1 /\ u[Len(s) + 1] = l
        /\ \A i \in 1 .. Len(s) : u[i] = s[i]
    BY <1>3, AppendProperties
  <1>8. \A i \in 1 .. Len(s) : a[i] = Trimmed(s[i])
    BY <1>2 DEF TrimAll
  <1> HIDE DEF a
  <1>9. /\ b \in Seq(T) /\ Len(b) = Len(s) + 1 /\ b[Len(s) + 1] = Trimmed(l)
        /\ \A i \in 1 .. Len(s) : b[i] = a[i]
    <2>1. Trimmed(l) \in T
      BY <1>1, <1>3
    <2> DEFINE r == Trimmed(l)
    <2> HIDE DEF r
    <2>2. Append(a, r) \in Seq(T) /\ Len(Append(a, r)) = Len(a) + 1 /\ Append(a, r)[Len(a) + 1] = r
          /\ \A i \in 1 .. Len(a) : Append(a, r)[i] = a[i]
      BY <1>6, <2>1, AppendProperties DEF r
    <2> QED
      BY <1>6, <2>2 DEF r
  <1> HIDE DEF u, b
  <1>10. DOMAIN u = 1 .. (Len(s) + 1) /\ DOMAIN b = 1 .. (Len(s) + 1)
    BY <1>7, <1>9, LenProperties
  <1>11. \A i \in 1 .. (Len(s) + 1) : Trimmed(u[i]) = b[i]
    <2>1. \A i \in 1 .. (Len(s) + 1) : i \in 1 .. Len(s) \/ i = Len(s) + 1
      BY <1>2
    <2> QED
      BY <1>7, <1>8, <1>9, <2>1
  <1>12. TrimAll(u) = [i \in 1 .. (Len(s) + 1) |-> Trimmed(u[i])]
    BY <1>10 DEF TrimAll
  <1>13. b = [i \in 1 .. (Len(s) + 1) |-> b[i]]
    <2>1. b \in [1 .. (Len(s) + 1) -> T]
      BY <1>9, <1>10, LenProperties
    <2> QED
      BY <2>1
  <1>14. TrimAll(u) = b
    BY <1>11, <1>12, <1>13
  <1>15. TrimAll(<< >>) = << >>
    BY DEF TrimAll
  <1> QED
    BY <1>6, <1>14, <1>15 DEF T, u, a, b

\* The lines of a text, the last one apart.
LEMMA TrimmedParts ==
  ASSUME NEW D
  PROVE  \A t \in Seq(D) :
           /\ SplitFrom(t).done \in Seq(Seq(D)) /\ SplitFrom(t).line \in Seq(D)
           /\ TrimmedLines(t) = Append(TrimAll(SplitFrom(t).done), Trimmed(SplitFrom(t).line))
           /\ TrimmedLines(t) \in Seq(Seq(D)) /\ TrimmedLines(t) # << >>
  <1> SUFFICES ASSUME NEW t \in Seq(D)
               PROVE  /\ SplitFrom(t).done \in Seq(Seq(D)) /\ SplitFrom(t).line \in Seq(D)
                      /\ TrimmedLines(t) = Append(TrimAll(SplitFrom(t).done), Trimmed(SplitFrom(t).line))
                      /\ TrimmedLines(t) \in Seq(Seq(D)) /\ TrimmedLines(t) # << >>
    OBVIOUS
  <1> DEFINE d == SplitFrom(t).done
             l == SplitFrom(t).line
  <1>1. d \in Seq(Seq(D)) /\ l \in Seq(D)
    <2>1. d \in Seq(Seq(D \ {"nl"})) /\ l \in Seq(D \ {"nl"})
      BY SplitSteps DEF SplitStates
    <2>2. Seq(D \ {"nl"}) \subseteq Seq(D)
      OBVIOUS
    <2> QED
      BY <2>1, <2>2, SeqMonotonic
  <1>3. SplitLines(t) = Append(d, l)
    BY SplitSteps
  <1> HIDE DEF d, l
  <1>5. TrimmedLines(t) = TrimAll(Append(d, l))
    BY <1>3 DEF TrimmedLines, TrimAll
  <1>6. TrimAll(Append(d, l)) = Append(TrimAll(d), Trimmed(l)) /\ TrimAll(d) \in Seq(Seq(D)) /\ Trimmed(l) \in Seq(D)
    BY <1>1, TrimAllSteps, TrimSplit
  <1>7. Append(TrimAll(d), Trimmed(l)) \in Seq(Seq(D)) /\ Append(TrimAll(d), Trimmed(l)) # << >>
    BY <1>6, AppendProperties
  <1> QED
    BY <1>1, <1>5, <1>6, <1>7 DEF d, l

\* One more character.
LEMMA TrimmedMore ==
  ASSUME NEW D, NEW t \in Seq(D), NEW x \in D
  PROVE  /\ SplitFrom(t).done \in Seq(Seq(D)) /\ SplitFrom(t).line \in Seq(D)
         /\ TrimmedLines(t) = Append(TrimAll(SplitFrom(t).done), Trimmed(SplitFrom(t).line))
         /\ x = "nl" => /\ SplitFrom(Append(t, x)).done = Append(SplitFrom(t).done, SplitFrom(t).line)
                        /\ SplitFrom(Append(t, x)).line = << >>
         /\ x # "nl" => /\ SplitFrom(Append(t, x)).done = SplitFrom(t).done
                        /\ SplitFrom(Append(t, x)).line = Append(SplitFrom(t).line, x)
  <1>1. SplitFrom(t) \in SplitStates(D) /\ SplitFrom(Append(t, x)) = AddToLines(SplitFrom(t), x)
    BY SplitSteps
  <1>2. SplitFrom(t) = [done |-> SplitFrom(t).done, line |-> SplitFrom(t).line]
    BY <1>1 DEF SplitStates
  <1>3. SplitFrom(Append(t, x)) = IF x = "nl" THEN [done |-> Append(SplitFrom(t).done, SplitFrom(t).line), line |-> << >>]
                                  ELSE [done |-> SplitFrom(t).done, line |-> Append(SplitFrom(t).line, x)]
    <2> DEFINE d == SplitFrom(t).done
               l == SplitFrom(t).line
    <2>1. SplitFrom(Append(t, x)) = AddToLines([done |-> d, line |-> l], x)
      BY <1>1, <1>2, Zenon
    <2> HIDE DEF d, l
    <2>2. SplitFrom(Append(t, x)) = IF x = "nl" THEN [done |-> Append(d, l), line |-> << >>]
                                    ELSE [done |-> d, line |-> Append(l, x)]
      BY <2>1, LineSteps, Zenon
    <2> QED
      BY <2>2 DEF d, l
  <1> QED
    BY <1>3, TrimmedParts

\* A white text is one of lines of which nothing is left.
LEMMA BlankSplit ==
  ASSUME NEW D, NEW t \in Seq(D), Blank(t)
  PROVE  TrimAll(SplitFrom(t).done) \in Seq({<< >>}) /\ Blank(SplitFrom(t).line)
  <1> DEFINE P(u) == TrimAll(SplitFrom(u).done) \in Seq({<< >>}) /\ Blank(SplitFrom(u).line)
             X == {u \in Seq(D) : Blank(u) => P(u)}
  <1>1. << >> \in X
    <2>1. SplitFrom(<< >>) = [done |-> << >>, line |-> << >>]
      BY SplitSteps
    <2>2. SplitFrom(<< >>).done = << >> /\ SplitFrom(<< >>).line = << >>
      BY <2>1
    <2>3. TrimAll(<< >>) = << >> /\ << >> \in Seq({<< >>}) /\ << >> \in Seq(D) /\ Blank(<< >>)
      BY EmptySeq, BlankOfOne DEF TrimAll
    <2> QED
      BY <2>2, <2>3, Zenon
  <1>2. ASSUME NEW u \in Seq(D), NEW x \in D, u \in X PROVE Append(u, x) \in X
    <2>1. Append(u, x) \in Seq(D)
      BY AppendProperties
    <2>2. ASSUME Blank(Append(u, x)) PROVE P(Append(u, x))
      <3> DEFINE d == SplitFrom(u).done
                 l == SplitFrom(u).line
      <3>1. Blank(u) /\ x \in White
        <4>1. Append(u, x) = u \o << x >> /\ << x >> \in Seq(D)
          OBVIOUS
        <4> QED
          BY <2>2, <4>1, BlankConcat, BlankOfOne, Zenon
      <3>2. TrimAll(d) \in Seq({<< >>}) /\ Blank(l)
        BY <1>2, <3>1
      <3>3. d \in Seq(Seq(D)) /\ l \in Seq(D)
        BY TrimmedMore
      <3>4. CASE x = "nl"
        <4>1. SplitFrom(Append(u, x)).done = Append(d, l) /\ SplitFrom(Append(u, x)).line = << >>
          BY <3>4, TrimmedMore
        <4> HIDE DEF d, l
        <4>2. TrimAll(Append(d, l)) = Append(TrimAll(d), Trimmed(l))
          BY <3>3, TrimAllSteps
        <4>3. Trimmed(l) = << >>
          BY <3>2, <3>3, TrimSplit
        <4>4. Append(TrimAll(d), << >>) \in Seq({<< >>})
          BY <3>2
        <4> QED
          BY <4>1, <4>2, <4>3, <4>4, BlankOfOne
      <3>5. CASE x # "nl"
        <4>1. SplitFrom(Append(u, x)).done = d /\ SplitFrom(Append(u, x)).line = Append(l, x)
          BY <3>5, TrimmedMore
        <4> HIDE DEF d, l
        <4>2. Append(l, x) = l \o << x >> /\ << x >> \in Seq(D)
          BY <3>3
        <4>3. Blank(l \o << x >>)
          BY <3>1, <3>2, <3>3, <4>2, BlankConcat, BlankOfOne, Zenon
        <4> QED
          BY <3>2, <4>1, <4>2, <4>3
      <3> QED
        BY <3>4, <3>5
    <2> HIDE DEF P
    <2> QED
      BY <2>1, <2>2
  <1>3. t \in X
    <2> HIDE DEF X
    <2> QED
      BY <1>1, <1>2, InductionOnTexts
  <1> QED
    BY <1>3

LEMMA MoreLines ==
  ASSUME NEW D
  PROVE  \A t \in Seq(D), x \in D :
           /\ x = "nl" => SplitFrom(Append(t, x)).done = Append(SplitFrom(t).done, SplitFrom(t).line)
           /\ x = "nl" => SplitFrom(Append(t, x)).line = << >>
           /\ x # "nl" => SplitFrom(Append(t, x)).done = SplitFrom(t).done
           /\ x # "nl" => SplitFrom(Append(t, x)).line = Append(SplitFrom(t).line, x)
  <1> TAKE t \in Seq(D), x \in D
  <1>1. SplitFrom(t) \in SplitStates(D) /\ SplitFrom(Append(t, x)) = AddToLines(SplitFrom(t), x)
    BY SplitSteps
  <1>2. SplitFrom(t) = [done |-> SplitFrom(t).done, line |-> SplitFrom(t).line]
    BY <1>1 DEF SplitStates
  <1> DEFINE d == SplitFrom(t).done
             l == SplitFrom(t).line
             u == Append(t, x)
  <1>3. SplitFrom(u) = AddToLines([done |-> d, line |-> l], x)
    BY <1>1, <1>2, Zenon
  <1> HIDE DEF d, l, u
  <1>4. SplitFrom(u) = IF x = "nl" THEN [done |-> Append(d, l), line |-> << >>]
                       ELSE [done |-> d, line |-> Append(l, x)]
    BY <1>3, LineSteps, Zenon
  <1>5. /\ x = "nl" => SplitFrom(u).done = Append(d, l) /\ SplitFrom(u).line = << >>
        /\ x # "nl" => SplitFrom(u).done = d /\ SplitFrom(u).line = Append(l, x)
    BY <1>4
  <1> QED
    BY <1>5 DEF d, l, u

-----------------------------------------------------------------------------
\* A white character at the end leaves the lines as they are, or adds an empty one.
LEMMA WhiteStep ==
  ASSUME NEW D, NEW t \in Seq(D), NEW x \in D, x \in White
  PROVE  \/ TrimmedLines(Append(t, x)) = TrimmedLines(t)
         \/ TrimmedLines(Append(t, x)) = Append(TrimmedLines(t), << >>)
  <1> DEFINE d == SplitFrom(t).done
             l == SplitFrom(t).line
             u == Append(t, x)
  <1>1. u \in Seq(D)
    BY AppendProperties
  <1>2. /\ d \in Seq(Seq(D)) /\ l \in Seq(D)
        /\ TrimmedLines(t) = Append(TrimAll(d), Trimmed(l))
        /\ TrimmedLines(u) = Append(TrimAll(SplitFrom(u).done), Trimmed(SplitFrom(u).line))
    BY <1>1, TrimmedMore, Zenon
  <1>3. /\ x = "nl" => SplitFrom(u).done = Append(d, l) /\ SplitFrom(u).line = << >>
        /\ x # "nl" => SplitFrom(u).done = d /\ SplitFrom(u).line = Append(l, x)
    BY TrimmedMore
  <1> HIDE DEF d, l, u
  <1>4. CASE x = "nl"
    <2>1. TrimAll(Append(d, l)) = Append(TrimAll(d), Trimmed(l))
      BY <1>2, TrimAllSteps
    <2>2. Trimmed(<< >>) = << >>
      BY <1>2, TrimSides
    <2> QED
      BY <1>2, <1>3, <1>4, <2>1, <2>2, Zenon DEF u
  <1>5. CASE x # "nl"
    <2>1. Append(l, x) = l \o << x >> /\ << x >> \in Seq(D)
      BY <1>2
    <2>2. Blank(<< x >>)
      BY BlankOfOne
    <2>3. Trimmed(l \o << x >>) = Trimmed(l)
      BY <1>2, <2>1, <2>2, TrimSides, Zenon
    <2> QED
      BY <1>2, <1>3, <1>5, <2>1, <2>3, Zenon DEF u
  <1> QED
    BY <1>4, <1>5

\* Sequences of empty texts.
Gaps == Seq({<< >>})

LEMMA GapsAreLines ==
  ASSUME NEW D
  PROVE  /\ Gaps \subseteq Seq(Seq(D)) /\ << >> \in Gaps
         /\ \A q \in Gaps : Append(q, << >>) \in Gaps
  <1> DEFINE T == Seq(D)
  <1>1. << >> \in T
    OBVIOUS
  <1> HIDE DEF T
  <1>2. {<< >>} \subseteq T
    BY <1>1
  <1>3. Seq({<< >>}) \subseteq Seq(T)
    BY <1>2, SeqMonotonic
  <1>4. << >> \in Seq({<< >>}) /\ \A q \in Seq({<< >>}) : Append(q, << >>) \in Seq({<< >>})
    OBVIOUS
  <1> QED
    BY <1>3, <1>4 DEF Gaps, T

\* One line more, behind two sequences of lines.
More(a, b, x) == /\ Append(a \o b, x) = a \o Append(b, x)
                 /\ << >> \o a = a /\ a \o << >> = a

LEMMA RegroupedLines ==
  ASSUME NEW D
  PROVE  \A a, b \in Seq(Seq(D)), x \in Seq(D) : More(a, b, x)
  <1> DEFINE T == Seq(D)
  <1> HIDE DEF T
  <1>1. \A a, b \in Seq(T), x \in T : More(a, b, x)
    BY DEF More
  <1> QED
    BY <1>1 DEF T

\* White characters behind a text add empty lines behind its lines.
LEMMA PadRight ==
  ASSUME NEW D, NEW t \in Seq(D), NEW w \in Seq(D), Blank(w)
  PROVE  \E q \in Gaps : TrimmedLines(t \o w) = TrimmedLines(t) \o q
  <1> DEFINE X == {u \in Seq(D) : Blank(u) => \E q \in Gaps : TrimmedLines(t \o u) = TrimmedLines(t) \o q}
  <1>0. TrimmedLines(t) \in Seq(Seq(D))
    BY TrimmedParts
  <1>1. << >> \in X
    <2>1. t \o << >> = t
      OBVIOUS
    <2>2. TrimmedLines(t) \o << >> = TrimmedLines(t)
      BY <1>0
    <2>3. << >> \in Gaps /\ << >> \in Seq(D)
      BY GapsAreLines
    <2> QED
      BY <2>1, <2>2, <2>3, Zenon
  <1>2. ASSUME NEW u \in Seq(D), NEW x \in D, u \in X PROVE Append(u, x) \in X
    <2>1. Append(u, x) \in Seq(D) /\ Append(u, x) = u \o << x >> /\ << x >> \in Seq(D) /\ t \o u \in Seq(D)
      OBVIOUS
    <2>2. t \o Append(u, x) = Append(t \o u, x)
      BY Regrouped
    <2>3. ASSUME Blank(Append(u, x))
          PROVE  \E q \in Gaps : TrimmedLines(t \o Append(u, x)) = TrimmedLines(t) \o q
      <3>1. Blank(u) /\ x \in White
        BY <2>1, <2>3, BlankConcat, BlankOfOne, Zenon
      <3>2. PICK q \in Gaps : TrimmedLines(t \o u) = TrimmedLines(t) \o q
        BY <1>2, <3>1, Zenon
      <3>3. \/ TrimmedLines(Append(t \o u, x)) = TrimmedLines(t \o u)
            \/ TrimmedLines(Append(t \o u, x)) = Append(TrimmedLines(t \o u), << >>)
        BY <2>1, <3>1, WhiteStep, Zenon
      <3>4. q \in Seq(Seq(D)) /\ << >> \in Seq(D) /\ Append(q, << >>) \in Gaps
        BY GapsAreLines
      <3>5. Append(TrimmedLines(t) \o q, << >>) = TrimmedLines(t) \o Append(q, << >>)
        <4>1. More(TrimmedLines(t), q, << >>)
          BY <1>0, <3>4, RegroupedLines, Zenon
        <4> QED
          BY <4>1 DEF More
      <3> QED
        BY <2>2, <3>2, <3>3, <3>4, <3>5, Zenon
    <2> QED
      BY <2>1, <2>3, Zenon
  <1>3. w \in X
    <2> HIDE DEF X
    <2> QED
      BY <1>1, <1>2, InductionOnTexts
  <1> QED
    BY <1>3

\* White characters in front of a text add empty lines in front of its lines.
LEMMA PadLeft ==
  ASSUME NEW D, NEW v \in Seq(D), NEW t \in Seq(D), Blank(v)
  PROVE  \E q \in Gaps : TrimmedLines(v \o t) = q \o TrimmedLines(t)
  <1> DEFINE e == TrimAll(SplitFrom(v).done)
             P(u) == /\ TrimAll(SplitFrom(v \o u).done) = e \o TrimAll(SplitFrom(u).done)
                     /\ \E b \in Seq(D) : Blank(b) /\ SplitFrom(v \o u).line = b \o SplitFrom(u).line
             X == {u \in Seq(D) : P(u)}
  <1>1. e \in Gaps /\ Blank(SplitFrom(v).line)
    BY BlankSplit DEF Gaps
  <1>2. e \in Seq(Seq(D))
    BY <1>1, GapsAreLines
  <1>3. SplitFrom(v).line \in Seq(D)
    BY TrimmedParts
  <1>4. << >> \in X
    <2>1. SplitFrom(<< >>).done = << >> /\ SplitFrom(<< >>).line = << >>
      BY SplitSteps
    <2>2. v \o << >> = v /\ << >> \in Seq(D)
      OBVIOUS
    <2>3. TrimAll(<< >>) = << >>
      BY DEF TrimAll
    <2>4. SplitFrom(v).line \o << >> = SplitFrom(v).line
      BY <1>3
    <2> HIDE DEF e
    <2>5. e \o << >> = e
      BY <1>2
    <2>6. TrimAll(SplitFrom(v \o << >>).done) = e \o TrimAll(SplitFrom(<< >>).done)
      BY <2>1, <2>2, <2>3, <2>5, Zenon DEF e
    <2> QED
      BY <1>1, <1>3, <2>1, <2>2, <2>4, <2>6, Zenon
  <1>5. ASSUME NEW u \in Seq(D), NEW x \in D, u \in X PROVE Append(u, x) \in X
    <2> DEFINE d == SplitFrom(u).done
               l == SplitFrom(u).line
               f == SplitFrom(v \o u).done
               m == SplitFrom(v \o u).line
    <2>1. v \o u \in Seq(D) /\ Append(u, x) \in Seq(D) /\ v \o Append(u, x) = Append(v \o u, x)
      BY Regrouped
    <2>2. d \in Seq(Seq(D)) /\ l \in Seq(D) /\ f \in Seq(Seq(D)) /\ m \in Seq(D)
      BY <2>1, TrimmedParts, Zenon
    <2>3. TrimAll(f) = e \o TrimAll(d)
      BY <1>5
    <2>4. PICK b \in Seq(D) : Blank(b) /\ m = b \o l
      BY <1>5, Zenon
    <2>5. /\ x = "nl" => SplitFrom(Append(u, x)).done = Append(d, l) /\ SplitFrom(Append(u, x)).line = << >>
          /\ x # "nl" => SplitFrom(Append(u, x)).done = d /\ SplitFrom(Append(u, x)).line = Append(l, x)
      BY MoreLines, Zenon
    <2>6. /\ x = "nl" => SplitFrom(Append(v \o u, x)).done = Append(f, m) /\ SplitFrom(Append(v \o u, x)).line = << >>
          /\ x # "nl" => SplitFrom(Append(v \o u, x)).done = f /\ SplitFrom(Append(v \o u, x)).line = Append(m, x)
      BY <2>1, MoreLines, Zenon
    <2> HIDE DEF d, l, f, m, e
    <2>7. TrimAll(d) \in Seq(Seq(D)) /\ TrimAll(Append(d, l)) = Append(TrimAll(d), Trimmed(l))
          /\ TrimAll(Append(f, m)) = Append(TrimAll(f), Trimmed(m)) /\ Trimmed(l) \in Seq(D)
      <3>1. TrimAll(d) \in Seq(Seq(D)) /\ TrimAll(Append(d, l)) = Append(TrimAll(d), Trimmed(l))
        BY <2>2, TrimAllSteps, Zenon
      <3>2. TrimAll(Append(f, m)) = Append(TrimAll(f), Trimmed(m))
        BY <2>2, TrimAllSteps, Zenon
      <3>3. Trimmed(l) \in Seq(D)
        BY <2>2, TrimSplit
      <3> QED
        BY <3>1, <3>2, <3>3
    <2>8. CASE x = "nl"
      <3>1. Trimmed(m) = Trimmed(l)
        BY <2>2, <2>4, TrimSides
      <3>2. Append(e \o TrimAll(d), Trimmed(l)) = e \o Append(TrimAll(d), Trimmed(l))
        <4>1. More(e, TrimAll(d), Trimmed(l))
          BY <1>2, <2>7, RegroupedLines, Zenon
        <4> QED
          BY <4>1 DEF More
      <3>3. TrimAll(Append(f, m)) = e \o TrimAll(Append(d, l))
        BY <2>3, <2>7, <3>1, <3>2, Zenon
      <3>4. << >> \in Seq(D) /\ Blank(<< >>) /\ << >> = << >> \o << >>
        BY BlankOfOne
      <3>5. P(Append(u, x))
        BY <2>1, <2>5, <2>6, <2>8, <3>3, <3>4, Zenon
      <3> QED
        BY <2>1, <3>5, Zenon
    <2>9. CASE x # "nl"
      <3>1. Append(m, x) = b \o Append(l, x)
        <4>1. Append(b \o l, x) = b \o Append(l, x)
          BY <2>2, <2>4, Regrouped
        <4> QED
          BY <2>4, <4>1
      <3>2. P(Append(u, x))
        BY <2>1, <2>3, <2>4, <2>5, <2>6, <2>9, <3>1, Zenon
      <3> QED
        BY <2>1, <3>2, Zenon
    <2> QED
      BY <2>8, <2>9, Zenon
  <1>6. t \in X
    <2> HIDE DEF X
    <2> QED
      BY <1>4, <1>5, InductionOnTexts
  <1>7. PICK b \in Seq(D) : Blank(b) /\ SplitFrom(v \o t).line = b \o SplitFrom(t).line
    BY <1>6, Zenon
  <1>8. TrimAll(SplitFrom(v \o t).done) = e \o TrimAll(SplitFrom(t).done)
    BY <1>6
  <1> HIDE DEF e
  <1>9. v \o t \in Seq(D)
    OBVIOUS
  <1>10. \A s \in Seq(D) : /\ SplitFrom(s).done \in Seq(Seq(D)) /\ SplitFrom(s).line \in Seq(D)
                           /\ TrimmedLines(s) = Append(TrimAll(SplitFrom(s).done), Trimmed(SplitFrom(s).line))
    BY TrimmedParts, Zenon
  <1>11. Trimmed(SplitFrom(v \o t).line) = Trimmed(SplitFrom(t).line) /\ Trimmed(SplitFrom(t).line) \in Seq(D)
    <2> DEFINE l == SplitFrom(t).line
    <2>1. l \in Seq(D)
      BY <1>10
    <2> HIDE DEF l
    <2>2. PICK u \in Seq(D) : Blank(u) /\ SplitFrom(v \o t).line = u \o l
      BY <1>7, Zenon DEF l
    <2>3. Trimmed(u \o l) = Trimmed(l) /\ Trimmed(l) \in Seq(D)
      BY <2>1, <2>2, TrimSides, TrimSplit
    <2> QED
      BY <2>2, <2>3 DEF l
  <1>12. TrimAll(SplitFrom(t).done) \in Seq(Seq(D))
    BY <1>10, <1>11, TrimAllSteps
  <1>13. Append(e \o TrimAll(SplitFrom(t).done), Trimmed(SplitFrom(t).line))
         = e \o Append(TrimAll(SplitFrom(t).done), Trimmed(SplitFrom(t).line))
    <2>1. More(e, TrimAll(SplitFrom(t).done), Trimmed(SplitFrom(t).line))
      BY <1>2, <1>11, <1>12, RegroupedLines, Zenon
    <2> QED
      BY <2>1 DEF More
  <1>14. TrimmedLines(v \o t) = e \o TrimmedLines(t)
    BY <1>8, <1>9, <1>10, <1>11, <1>13, Zenon
  <1> QED
    BY <1>1, <1>14, Zenon

-----------------------------------------------------------------------------
\* Lines of which the first and the last one are not empty.
Full(c) == c # << >> /\ c[1] # << >> /\ c[Len(c)] # << >>

\* The first line of a text that does not begin white is not empty.
FirstLine(t) == IF SplitFrom(t).done = << >> THEN SplitFrom(t).line ELSE SplitFrom(t).done[1]

LEMMA SharpBegin ==
  ASSUME NEW D, NEW t \in Seq(D), t # << >>, t[1] \notin White
  PROVE  ~Blank(FirstLine(t))
  <1> DEFINE X == {u \in Seq(D) : u # << >> /\ u[1] \notin White => ~Blank(FirstLine(u))}
  <1>1. << >> \in X
    OBVIOUS
  <1>2. ASSUME NEW u \in Seq(D), NEW x \in D, u \in X PROVE Append(u, x) \in X
    <2> DEFINE d == SplitFrom(u).done
               l == SplitFrom(u).line
               z == Append(u, x)
    <2>1. z \in Seq(D)
      OBVIOUS
    <2>2. d \in Seq(Seq(D)) /\ l \in Seq(D)
      BY TrimmedParts
    <2>3. /\ x = "nl" => SplitFrom(z).done = Append(d, l) /\ SplitFrom(z).line = << >>
          /\ x # "nl" => SplitFrom(z).done = d /\ SplitFrom(z).line = Append(l, x)
      BY MoreLines, Zenon
    <2>4. FirstLine(u) = IF d = << >> THEN l ELSE d[1]
      BY DEF FirstLine
    <2>5. u = << >> => d = << >> /\ l = << >>
      BY SplitSteps
    <2>6. (u = << >> => z[1] = x) /\ (u # << >> => z[1] = u[1])
      OBVIOUS
    <2>7. u # << >> /\ u[1] \notin White => ~Blank(FirstLine(u))
      BY <1>2
    <2> HIDE DEF d, l, z, X
    <2>8. Append(d, l) # << >> /\ (Append(d, l)[1] = IF d = << >> THEN l ELSE d[1])
      <3> DEFINE T == Seq(D)
      <3>1. d \in Seq(T) /\ l \in T
        BY <2>2
      <3> HIDE DEF T
      <3>2. /\ Len(d) \in Nat /\ Append(d, l)[Len(d) + 1] = l /\ Append(d, l) # << >>
            /\ \A i \in 1 .. Len(d) : Append(d, l)[i] = d[i]
        BY <3>1, AppendProperties
      <3>3. (d = << >> => Len(d) = 0) /\ (d # << >> => 1 \in 1 .. Len(d))
        BY <3>1
      <3> QED
        BY <3>2, <3>3
    <2>9. /\ Append(l, x) \in Seq(D) /\ (Blank(Append(l, x)) <=> Blank(l) /\ x \in White)
      <3>1. Append(l, x) = l \o << x >> /\ << x >> \in Seq(D) /\ Append(l, x) \in Seq(D)
        BY <2>2
      <3> QED
        BY <2>2, <3>1, BlankConcat, BlankOfOne, Zenon
    <2>10. ASSUME z[1] \notin White PROVE ~Blank(FirstLine(z))
      <3>1. CASE x = "nl"
        <4>1. FirstLine(z) = IF d = << >> THEN l ELSE d[1]
          BY <2>3, <2>8, <3>1, Zenon DEF FirstLine
        <4>2. u # << >>
          BY <2>6, <2>10, <3>1 DEF White
        <4> QED
          BY <2>4, <2>6, <2>7, <2>10, <4>1, <4>2
      <3>2. CASE x # "nl" /\ d = << >>
        <4>1. FirstLine(z) = Append(l, x)
          BY <2>3, <3>2 DEF FirstLine
        <4> QED
          BY <2>4, <2>6, <2>7, <2>9, <2>10, <3>2, <4>1
      <3>3. CASE x # "nl" /\ d # << >>
        <4>1. FirstLine(z) = d[1] /\ u # << >>
          BY <2>3, <2>5, <3>3 DEF FirstLine
        <4> QED
          BY <2>4, <2>6, <2>7, <2>10, <3>3, <4>1
      <3> QED
        BY <3>1, <3>2, <3>3
    <2> QED
      BY <2>1, <2>10, Zenon DEF X, z
  <1>3. t \in X
    <2> HIDE DEF X
    <2> QED
      BY <1>1, <1>2, InductionOnTexts
  <1> QED
    BY <1>3

\* The lines of a tight text begin and end with one that is not empty.
LEMMA TightLines ==
  ASSUME NEW D, NEW t \in Seq(D), t # << >>, Tight(t)
  PROVE  Full(TrimmedLines(t))
  <1> DEFINE d == SplitFrom(t).done
             l == SplitFrom(t).line
             a == TrimAll(d)
             b == Trimmed(l)
  <1>1. d \in Seq(Seq(D)) /\ l \in Seq(D) /\ TrimmedLines(t) = Append(a, b)
    BY TrimmedParts
  <1>2. ~Blank(IF d = << >> THEN l ELSE d[1])
    BY SharpBegin DEF Tight, FirstLine
  <1>3. ~Blank(l)
    <2> DEFINE n == Len(t)
               u == SubSeq(t, 1, n - 1)
               x == t[n]
    <2>1. n \in Nat /\ n >= 1 /\ x \in D /\ x \notin White
      BY DEF Tight
    <2>2. u \in Seq(D) /\ t = Append(u, x)
      BY <2>1
    <2>3. x # "nl"
      BY <2>1 DEF White
    <2> HIDE DEF u, x
    <2>4. l = Append(SplitFrom(u).line, x) /\ SplitFrom(u).line \in Seq(D)
      BY <2>1, <2>2, <2>3, MoreLines, TrimmedParts, Zenon
    <2> DEFINE k == SplitFrom(u).line
    <2> HIDE DEF k, l
    <2>5. l = k \o << x >> /\ << x >> \in Seq(D) /\ k \in Seq(D)
      BY <2>1, <2>4 DEF k
    <2> QED
      BY <2>1, <2>5, BlankConcat, BlankOfOne, Zenon
  <1> HIDE DEF d, l
  <1>4. /\ a \in Seq(Seq(D)) /\ Len(a) = Len(d) /\ b \in Seq(D) /\ b # << >>
    BY <1>1, <1>3, TrimAllSteps, TrimSplit
  <1>5. d # << >> => a[1] = Trimmed(d[1]) /\ d[1] \in Seq(D)
    <2> DEFINE T == Seq(D)
    <2>1. d \in Seq(T)
      BY <1>1
    <2> HIDE DEF T
    <2>2. d # << >> => 1 \in DOMAIN d /\ d[1] \in T
      BY <2>1
    <2> QED
      BY <2>2 DEF TrimAll, T
  <1>6. d # << >> => a[1] # << >>
    BY <1>2, <1>5, TrimSplit
  <1> HIDE DEF a, b
  <1>7. /\ Append(a, b) # << >> /\ Append(a, b)[Len(Append(a, b))] = b
        /\ Append(a, b)[1] = IF a = << >> THEN b ELSE a[1]
        /\ a = << >> <=> d = << >>
    <2> DEFINE T == Seq(D)
    <2>1. a \in Seq(T) /\ b \in T /\ d \in Seq(T)
      BY <1>1, <1>4
    <2> HIDE DEF T
    <2>2. a = << >> <=> d = << >>
      BY <1>4, <2>1, EmptySeq, LenProperties
    <2>3. /\ Len(a) \in Nat /\ Append(a, b)[Len(a) + 1] = b /\ Append(a, b) # << >>
          /\ Len(Append(a, b)) = Len(a) + 1
          /\ \A i \in 1 .. Len(a) : Append(a, b)[i] = a[i]
      BY <2>1, AppendProperties
    <2>4. (a = << >> => Len(a) = 0) /\ (a # << >> => 1 \in 1 .. Len(a))
      BY <2>1
    <2> QED
      BY <2>2, <2>3, <2>4
  <1> QED
    BY <1>1, <1>4, <1>6, <1>7 DEF Full

\* Where lines stand that are between empty ones.
AllEmpty(p) == Len(p) \in Nat /\ \A i \in 1 .. Len(p) : p[i] = << >>
StandsAt(t, p, c, q) ==
  /\ t[Len(p) + 1] # << >> /\ \A i \in 1 .. Len(p) : t[i] = << >>
  /\ t[Len(p) + Len(c)] # << >> /\ \A i \in 1 .. Len(q) : t[Len(p) + Len(c) + i] = << >>
  /\ Len(t) = Len(p) + Len(c) + Len(q)
  /\ SubSeq(t, Len(p) + 1, Len(p) + Len(c)) = c

LEMMA GapAround ==
  ASSUME NEW T, NEW t, NEW p, NEW c, NEW q, Places(t, T, p, c, q), Full(c),
         Len(c) \in Nat \ {0},
         AllEmpty(p), AllEmpty(q)
  PROVE  StandsAt(t, p, c, q)
  <1>1. 1 \in 1 .. Len(c) /\ Len(c) \in 1 .. Len(c)
    OBVIOUS
  <1>2. t[Len(p) + 1] = c[1] /\ t[Len(p) + Len(c)] = c[Len(c)]
    BY <1>1 DEF Places
  <1>3. \A i \in 1 .. Len(p) : t[i] = << >>
    BY DEF Places, AllEmpty
  <1>4. \A i \in 1 .. Len(q) : t[Len(p) + Len(c) + i] = << >>
    BY DEF Places, AllEmpty
  <1> QED
    BY <1>2, <1>3, <1>4 DEF Places, Full, StandsAt

\* Lines between empty ones, that begin and end with a line that is not empty,
\* are found again, whatever is around them.
LEMMA FullIsUnique ==
  ASSUME NEW D, NEW t, NEW c, NEW e, c \in Seq(Seq(D)), e \in Seq(Seq(D)), Full(c), Full(e),
         \E p, q \in Gaps : t = p \o c \o q, \E r, s \in Gaps : t = r \o e \o s
  PROVE  c = e
  <1> DEFINE T == Seq(D)
  <1>1. Gaps \subseteq Seq(T) /\ c \in Seq(T) /\ e \in Seq(T)
    BY GapsAreLines
  <1>2. \A g \in Gaps : AllEmpty(g)
    BY DEF Gaps, AllEmpty
  <1> HIDE DEF T
  <1>3. \A p, q \in Gaps : Places(p \o c \o q, T, p, c, q) /\ Places(p \o e \o q, T, p, e, q)
    BY <1>1, ThreeTexts
  <1>4. \A p, q \in Gaps : /\ t = p \o c \o q => Places(t, T, p, c, q)
                           /\ t = p \o e \o q => Places(t, T, p, e, q)
    BY <1>3, Zenon
  <1>5. PICK p \in Gaps, q \in Gaps : Places(t, T, p, c, q)
    BY <1>4, Zenon
  <1>6. PICK r \in Gaps, s \in Gaps : Places(t, T, r, e, s)
    BY <1>4, Zenon
  <1>7. /\ Len(c) \in Nat \ {0} /\ Len(e) \in Nat \ {0}
        /\ Len(p) \in Nat /\ Len(q) \in Nat /\ Len(r) \in Nat /\ Len(s) \in Nat
    BY <1>1, <1>2, EmptySeq, LenProperties DEF Full
  <1>8. StandsAt(t, p, c, q) /\ StandsAt(t, r, e, s)
    BY <1>2, <1>5, <1>6, <1>7, GapAround
  <1>9. Len(p) + Len(c) + Len(q) = Len(r) + Len(e) + Len(s)
    BY <1>8 DEF StandsAt
  <1>10. ~(Len(p) < Len(r)) /\ ~(Len(r) < Len(p))
    <2>1. Len(p) < Len(r) => Len(p) + 1 \in 1 .. Len(r)
      BY <1>7
    <2>2. Len(r) < Len(p) => Len(r) + 1 \in 1 .. Len(p)
      BY <1>7
    <2> QED
      BY <1>8, <2>1, <2>2, Zenon DEF StandsAt
  <1>11. ~(Len(q) < Len(s))
    <2> SUFFICES ASSUME Len(q) < Len(s) PROVE FALSE
      OBVIOUS
    <2> DEFINE i == Len(p) + Len(c) - Len(r) - Len(e)
    <2>1. i \in 1 .. Len(s) /\ Len(r) + Len(e) + i = Len(p) + Len(c)
      BY <1>7, <1>9, <1>10
    <2> QED
      BY <1>8, <2>1, Zenon DEF StandsAt
  <1>12. ~(Len(s) < Len(q))
    <2> SUFFICES ASSUME Len(s) < Len(q) PROVE FALSE
      OBVIOUS
    <2> DEFINE i == Len(r) + Len(e) - Len(p) - Len(c)
    <2>1. i \in 1 .. Len(q) /\ Len(p) + Len(c) + i = Len(r) + Len(e)
      BY <1>7, <1>9, <1>10
    <2> QED
      BY <1>8, <2>1, Zenon DEF StandsAt
  <1>13. Len(p) = Len(r) /\ Len(c) = Len(e)
    <2>1. Len(p) = Len(r)
      BY <1>7, <1>10
    <2>2. Len(q) = Len(s)
      BY <1>7, <1>11, <1>12
    <2> QED
      BY <1>7, <1>9, <2>1, <2>2
  <1> QED
    BY <1>8, <1>13, Zenon DEF StandsAt

\* The lines of a text that is not white are those of what str::trim leaves of it,
\* between empty ones.
LEMMA CoreLines ==
  ASSUME NEW D, NEW t \in Seq(D), ~Blank(t)
  PROVE  /\ TrimmedLines(Trimmed(t)) \in Seq(Seq(D)) /\ Full(TrimmedLines(Trimmed(t)))
         /\ \E p, q \in Gaps : TrimmedLines(t) = p \o TrimmedLines(Trimmed(t)) \o q
  <1>1. /\ Trimmed(t) \in Seq(D) /\ Tight(Trimmed(t)) /\ Trimmed(t) # << >>
    BY TrimSplit
  <1>2. PICK v, w \in Seq(D) : Blank(v) /\ Blank(w) /\ t = v \o Trimmed(t) \o w
    BY TrimSplit, Zenon
  <1> DEFINE m == Trimmed(t)
  <1>3. m \in Seq(D) /\ t = v \o m \o w
    BY <1>1, <1>2
  <1>4. Full(TrimmedLines(m)) /\ TrimmedLines(m) \in Seq(Seq(D))
    BY <1>1, TightLines, TrimmedParts
  <1> HIDE DEF m
  <1>5. v \o m \in Seq(D)
    BY <1>3
  <1>6. PICK q \in Gaps : TrimmedLines((v \o m) \o w) = TrimmedLines(v \o m) \o q
    BY <1>2, <1>5, PadRight, Zenon
  <1>7. PICK p \in Gaps : TrimmedLines(v \o m) = p \o TrimmedLines(m)
    BY <1>2, <1>3, PadLeft, Zenon
  <1>8. TrimmedLines(t) = p \o TrimmedLines(m) \o q
    BY <1>3, <1>6, <1>7, Zenon
  <1> QED
    BY <1>4, <1>8, Zenon DEF m

\* The lines of a white text are empty.
LEMMA BlankLines ==
  ASSUME NEW D, NEW t \in Seq(D), Blank(t)
  PROVE  TrimmedLines(t) \in Gaps /\ Trimmed(t) = << >>
  <1>1. Trimmed(SplitFrom(t).line) = << >>
    <2>1. Blank(SplitFrom(t).line) /\ SplitFrom(t).line \in Seq(D)
      BY BlankSplit, TrimmedParts
    <2> QED
      BY <2>1, TrimSplit
  <1>2. TrimAll(SplitFrom(t).done) \in Gaps
    BY BlankSplit DEF Gaps
  <1>3. TrimmedLines(t) = Append(TrimAll(SplitFrom(t).done), Trimmed(SplitFrom(t).line))
    BY TrimmedParts
  <1> QED
    BY <1>1, <1>2, <1>3, GapsAreLines, TrimSplit

\* Texts whose lines agree but for the white around them agree in what str::trim
\* leaves of them, line by line.
LEMMA SameLinesSameCore ==
  ASSUME NEW D, NEW s \in Seq(D), NEW t \in Seq(D), TrimmedLines(s) = TrimmedLines(t)
  PROVE  TrimmedLines(Trimmed(s)) = TrimmedLines(Trimmed(t))
  <1>1. \A x, y \in Seq(D) : Blank(x) /\ ~Blank(y) => TrimmedLines(x) # TrimmedLines(y)
    <2> SUFFICES ASSUME NEW x \in Seq(D), NEW y \in Seq(D), Blank(x), ~Blank(y),
                        TrimmedLines(x) = TrimmedLines(y)
                 PROVE  FALSE
      OBVIOUS
    <2>1. TrimmedLines(x) \in Gaps
      BY BlankLines
    <2> DEFINE c == TrimmedLines(Trimmed(y))
               T == Seq(D)
    <2>2. c \in Seq(T) /\ Full(c) /\ \E p, q \in Gaps : TrimmedLines(y) = p \o c \o q
      BY CoreLines, Zenon
    <2>3. PICK p, q \in Gaps : TrimmedLines(y) = p \o c \o q
      BY <2>2, Zenon
    <2>4. p \in Seq(T) /\ q \in Seq(T)
      BY GapsAreLines
    <2> HIDE DEF c, T
    <2>5. Places(p \o c \o q, T, p, c, q)
      BY <2>2, <2>4, ThreeTexts
    <2> DEFINE g == TrimmedLines(x)
    <2>6. g \in Gaps /\ Places(g, T, p, c, q)
      BY <2>1, <2>3, <2>5
    <2> HIDE DEF g
    <2>7. \A i \in 1 .. Len(g) : g[i] = << >>
      BY <2>6 DEF Gaps
    <2>8. Len(c) \in Nat \ {0} /\ Len(p) \in Nat /\ Len(q) \in Nat
      BY <2>2, <2>4, EmptySeq, LenProperties DEF Full
    <2> QED
      <3>1. Len(p) + 1 \in 1 .. Len(g) /\ g[Len(p) + 1] = c[1]
        BY <2>6, <2>8 DEF Places
      <3> QED
        BY <2>2, <2>7, <3>1 DEF Full
  <1>2. CASE Blank(s)
    BY <1>1, <1>2, BlankLines
  <1>3. CASE ~Blank(s)
    <2>1. ~Blank(t)
      BY <1>1, <1>3
    <2> DEFINE c == TrimmedLines(Trimmed(s))
               e == TrimmedLines(Trimmed(t))
    <2>2. c \in Seq(Seq(D)) /\ Full(c) /\ \E p, q \in Gaps : TrimmedLines(s) = p \o c \o q
      BY <1>3, CoreLines, Zenon
    <2>3. e \in Seq(Seq(D)) /\ Full(e) /\ \E p, q \in Gaps : TrimmedLines(t) = p \o e \o q
      BY <2>1, CoreLines, Zenon
    <2> HIDE DEF c, e
    <2>4. \E p, q \in Gaps : TrimmedLines(t) = p \o c \o q
      BY <2>2, Zenon
    <2>7. c = e
      BY <2>2, <2>3, <2>4, FullIsUnique, Zenon
    <2> QED
      BY <2>7 DEF c, e
  <1> QED
    BY <1>2, <1>3

-----------------------------------------------------------------------------
\* The lines of joined lines are those lines.
LEMMA LinesOfJoined ==
  ASSUME NEW D, "nl" \in D, NEW s \in Seq(Seq(D \ {"nl"})), s # << >>
  PROVE  TrimmedLines(JoinLines(s)) = TrimAll(s)
  BY SplitJoin DEF TrimmedLines, TrimAll

\* What indentation_prefix gives is white, and is the begin of the line.
LEMMA IndentationIsWhite ==
  ASSUME NEW D, NEW l \in Seq(D)
  PROVE  LET n == Len(IndentationPrefix(l)) IN
         /\ n \in 0 .. Len(l) /\ IndentationPrefix(l) = SubSeq(l, 1, n)
         /\ \A i \in 1 .. n : l[i] \in White
         /\ IndentationPrefix(l) \in Seq(D) /\ Blank(IndentationPrefix(l))
  <1> DEFINE ink == {i \in DOMAIN l : l[i] \notin White}
             e == IndentationPrefix(l)
  <1>1. \E n \in 0 .. Len(l) : e = SubSeq(l, 1, n) /\ \A i \in 1 .. n : l[i] \in White
    <2>1. CASE ink = {}
      <3>1. e = l
        BY <2>1 DEF IndentationPrefix
      <3>2. SubSeq(l, 1, Len(l)) = l /\ Len(l) \in 0 .. Len(l)
        OBVIOUS
      <3>3. \A i \in 1 .. Len(l) : l[i] \in White
        BY <2>1
      <3> QED
        BY <3>1, <3>2, <3>3, Zenon
    <2>2. CASE ink # {}
      <3>1. ink \subseteq Nat
        OBVIOUS
      <3>2. Min(ink) \in ink /\ \A y \in ink : Min(ink) <= y
        BY <2>2, <3>1, MinOfSome
      <3>3. e = SubSeq(l, 1, Min(ink) - 1)
        BY <2>2, Zenon DEF IndentationPrefix
      <3>4. Min(ink) \in 1 .. Len(l)
        BY <3>2
      <3>5. Min(ink) - 1 \in 0 .. Len(l) /\ \A i \in 1 .. (Min(ink) - 1) : i \in DOMAIN l /\ i \notin ink
        <4> DEFINE k == Min(ink)
        <4>1. k \in 1 .. Len(l) /\ \A y \in ink : k <= y
          BY <3>2, <3>4
        <4> HIDE DEF k, ink
        <4> QED
          BY <4>1 DEF k
      <3> QED
        BY <3>3, <3>5, Zenon
    <2> QED
      BY <2>1, <2>2
  <1> HIDE DEF e
  <1>2. PICK n \in 0 .. Len(l) : e = SubSeq(l, 1, n) /\ \A i \in 1 .. n : l[i] \in White
    BY <1>1
  <1>3. e \in Seq(D) /\ Len(e) = n /\ \A i \in 1 .. n : e[i] = l[i]
    BY <1>2
  <1>4. Blank(e)
    BY <1>2, <1>3, BlankAt, Zenon
  <1> QED
    BY <1>2, <1>3, <1>4 DEF e

\* A line without some of its indentation, behind another indentation, is the same
\* line but for the white in front.
LEMMA ReindentedLine ==
  ASSUME NEW D, NEW l \in Seq(D), NEW base \in Seq(D), Blank(base),
         NEW k \in 0 .. Len(IndentationPrefix(l))
  PROVE  /\ base \o SubSeq(l, k + 1, Len(l)) \in Seq(D)
         /\ Trimmed(base \o SubSeq(l, k + 1, Len(l))) = Trimmed(l)
  <1> DEFINE p == SubSeq(l, 1, k)
             s == SubSeq(l, k + 1, Len(l))
             n == Len(IndentationPrefix(l))
  <1>1. n \in 0 .. Len(l) /\ \A i \in 1 .. n : l[i] \in White
    BY IndentationIsWhite
  <1>2. k \in 0 .. n
    OBVIOUS
  <1> HIDE DEF n
  <1>3. k \in 0 .. Len(l) /\ \A i \in 1 .. k : l[i] \in White
    BY <1>1, <1>2
  <1>4. p \in Seq(D) /\ Len(p) = k /\ \A i \in 1 .. k : p[i] = l[i]
    BY <1>3
  <1>5. s \in Seq(D) /\ l = p \o s
    <2>1. k + 1 \in 1 .. (Len(l) + 1) /\ Len(l) \in ((k + 1) - 1) .. Len(l)
      BY <1>3
    <2>2. /\ s \in Seq(D) /\ Len(s) = Len(l) - k
          /\ \A i \in 1 .. (Len(l) - k) : s[i] = l[k + i]
      BY <1>3, <2>1, PartAt
    <2> HIDE DEF p, s
    <2>3. /\ p \o s \in Seq(D) /\ Len(p \o s) = Len(p) + Len(s)
          /\ \A i \in 1 .. Len(p) + Len(s) :
               (p \o s)[i] = IF i <= Len(p) THEN p[i] ELSE s[i - Len(p)]
      BY <1>4, <2>2, ConcatProperties
    <2> DEFINE t == p \o s
               m == Len(l)
    <2>4. m \in Nat /\ k \in 0 .. m /\ Len(p) = k /\ Len(s) = m - k
      BY <1>3, <1>4, <2>2
    <2>5. t \in Seq(D) /\ Len(t) = Len(p) + Len(s)
      BY <2>3
    <2>6. \A i \in 1 .. Len(p) + Len(s) : t[i] = IF i <= Len(p) THEN p[i] ELSE s[i - Len(p)]
      BY <2>3
    <2>7. /\ \A i \in 1 .. k : p[i] = l[i]
          /\ \A i \in 1 .. (m - k) : s[i] = l[k + i]
      BY <1>4, <2>2
    <2> HIDE DEF t, m
    <2>8. Len(t) = m
      BY <2>4, <2>5
    <2>9. \A i \in 1 .. m : t[i] = l[i]
      <3> SUFFICES ASSUME NEW i \in 1 .. m PROVE t[i] = l[i]
        OBVIOUS
      <3>1. CASE i <= k
        BY <2>4, <2>6, <2>7, <3>1
      <3>2. CASE ~(i <= k)
        <4>1. i - k \in 1 .. (m - k) /\ k + (i - k) = i /\ i \in 1 .. Len(p) + Len(s)
          BY <2>4, <3>2
        <4> QED
          BY <2>4, <2>6, <2>7, <3>2, <4>1
      <3> QED
        BY <3>1, <3>2
    <2>10. t = l
      BY <2>5, <2>8, <2>9, EqualTexts DEF m
    <2> QED
      BY <2>2, <2>10 DEF t
  <1> HIDE DEF p, s
  <1>6. Blank(p)
    BY <1>3, <1>4, BlankAt
  <1>7. Trimmed(p \o s) = Trimmed(s) /\ Trimmed(base \o s) = Trimmed(s)
    BY <1>4, <1>5, <1>6, TrimSides
  <1>8. base \o s \in Seq(D)
    BY <1>5
  <1> QED
    BY <1>5, <1>7, <1>8, Zenon DEF s

\* reindent_replacement changes nothing but the white at the begin of the lines.
LEMMA ReindentKeepsLines ==
  ASSUME NEW D, NEW new \in Seq(D), NEW base \in Seq(D \ {"nl"}), Blank(base)
  PROVE  /\ ReindentReplacement(new, base) \in Seq(Seq(D \ {"nl"}))
         /\ ReindentReplacement(new, base) # << >>
         /\ TrimAll(ReindentReplacement(new, base)) = TrimmedLines(new)
  <1> DEFINE E == D \ {"nl"}
             T == Seq(E)
             lines == SplitLines(new)
             n == Len(lines)
             widths == {Len(IndentationPrefix(lines[i])) : i \in {j \in DOMAIN lines : ~Blank(lines[j])}}
             cut == IF widths = {} THEN 0 ELSE Min(widths)
             r == ReindentReplacement(new, base)
  <1>1. lines \in Seq(T) /\ n >= 1
    BY SplitText, Zenon
  <1>2. r = [i \in DOMAIN lines |->
               IF Blank(lines[i]) THEN << >> ELSE base \o SubSeq(lines[i], cut + 1, Len(lines[i]))]
    BY DEF ReindentReplacement
  <1>3. << >> \in T
    OBVIOUS
  <1> HIDE DEF lines, r
  <1>4. n \in Nat /\ DOMAIN lines = 1 .. n /\ \A i \in 1 .. n : lines[i] \in T
    <2> HIDE DEF T
    <2> QED
      BY <1>1
  <1>5. \A i \in 1 .. n : ~Blank(lines[i]) => cut \in 0 .. Len(IndentationPrefix(lines[i]))
    <2> SUFFICES ASSUME NEW i \in 1 .. n, ~Blank(lines[i])
                 PROVE  cut \in 0 .. Len(IndentationPrefix(lines[i]))
      BY Zenon
    <2>1. widths \subseteq Nat
      <3>1. \A l \in T : Len(IndentationPrefix(l)) \in Nat
        BY IndentationIsWhite
      <3> HIDE DEF T
      <3> QED
        BY <1>4, <3>1
    <2>2. Len(IndentationPrefix(lines[i])) \in widths
      BY <1>4, Zenon
    <2> HIDE DEF widths
    <2>3. Min(widths) \in widths /\ \A y \in widths : Min(widths) <= y
      BY <2>1, <2>2, MinOfSome, Zenon
    <2> DEFINE m == Len(IndentationPrefix(lines[i]))
    <2> HIDE DEF m
    <2>4. cut = Min(widths) /\ m \in widths /\ m \in Nat /\ Min(widths) \in Nat
      BY <2>1, <2>2, <2>3, Zenon DEF m
    <2>5. Min(widths) <= m
      BY <2>3, <2>4
    <2> HIDE DEF cut
    <2>6. cut \in 0 .. m
      BY <2>4, <2>5
    <2> QED
      BY <2>6 DEF m
  <1> HIDE DEF cut, n
  <1>6. \A i \in 1 .. n : r[i] \in T /\ Trimmed(r[i]) = Trimmed(lines[i])
    <2> SUFFICES ASSUME NEW i \in 1 .. n PROVE r[i] \in T /\ Trimmed(r[i]) = Trimmed(lines[i])
      OBVIOUS
    <2> DEFINE l == lines[i]
    <2>1. l \in T /\ r[i] = IF Blank(l) THEN << >> ELSE base \o SubSeq(l, cut + 1, Len(l))
      BY <1>2, <1>4
    <2>2. ~Blank(l) => cut \in 0 .. Len(IndentationPrefix(l))
      BY <1>5
    <2> HIDE DEF l
    <2>3. CASE Blank(l)
      <3>1. Trimmed(l) = << >> /\ Trimmed(<< >>) = << >>
        BY <2>1, <2>3, TrimSplit, TrimSides
      <3> QED
        BY <1>3, <2>1, <2>3, <3>1 DEF l
    <2>4. CASE ~Blank(l)
      <3>1. base \in Seq(E) /\ l \in Seq(E)
        BY <2>1
      <3> HIDE DEF E
      <3>2. /\ base \o SubSeq(l, cut + 1, Len(l)) \in Seq(E)
            /\ Trimmed(base \o SubSeq(l, cut + 1, Len(l))) = Trimmed(l)
        BY <2>2, <2>4, <3>1, ReindentedLine
      <3> QED
        BY <2>1, <2>4, <3>2 DEF l
    <2> QED
      BY <2>3, <2>4
  <1>7. DOMAIN r = 1 .. n
    BY <1>2, <1>4
  <1>8. r \in Seq(T)
    <2> HIDE DEF T
    <2>1. r = [i \in 1 .. n |-> r[i]]
      BY <1>2, <1>4
    <2>2. r \in [1 .. n -> T]
      BY <1>6, <2>1
    <2> QED
      BY <1>4, <2>2
  <1>9. r # << >>
    BY <1>1, <1>4, <1>7 DEF n
  <1>10. TrimAll(r) = TrimmedLines(new)
    <2>1. TrimmedLines(new) = [i \in DOMAIN lines |-> Trimmed(lines[i])]
      BY DEF TrimmedLines, lines
    <2>2. TrimAll(r) = [i \in 1 .. n |-> Trimmed(r[i])]
      BY <1>7 DEF TrimAll
    <2> QED
      BY <1>4, <1>6, <2>1, <2>2
  <1> QED
    BY <1>8, <1>9, <1>10 DEF r

-----------------------------------------------------------------------------
\* A text is its three parts, wherever it is cut.
LEMMA CutInThree ==
  ASSUME NEW D, NEW t \in Seq(D), NEW i \in 0 .. Len(t), NEW k \in i .. Len(t)
  PROVE  /\ SubSeq(t, 1, i) \in Seq(D) /\ SubSeq(t, i + 1, k) \in Seq(D) /\ SubSeq(t, k + 1, Len(t)) \in Seq(D)
         /\ t = SubSeq(t, 1, i) \o SubSeq(t, i + 1, k) \o SubSeq(t, k + 1, Len(t))
  <1>1. Len(t) \in Nat
    OBVIOUS
  <1>2. /\ SubSeq(t, 1, i) \in Seq(D) /\ SubSeq(t, i + 1, k) \in Seq(D) /\ SubSeq(t, k + 1, Len(t)) \in Seq(D)
    BY <1>1, PartOfText
  <1>3. /\ 1 \in 1 .. (Len(t) + 1) /\ i \in (1 - 1) .. Len(t) /\ k \in i .. Len(t)
        /\ k \in (1 - 1) .. Len(t) /\ Len(t) \in k .. Len(t)
    BY <1>1
  <1>4. SubSeq(t, 1, i) \o SubSeq(t, i + 1, k) = SubSeq(t, 1, k)
    BY <1>3, ConcatAdjacentSubSeq
  <1>5. SubSeq(t, 1, k) \o SubSeq(t, k + 1, Len(t)) = SubSeq(t, 1, Len(t))
    BY <1>3, ConcatAdjacentSubSeq, Zenon
  <1> QED
    BY <1>2, <1>4, <1>5, SubSeqFull, Zenon

\* Joined lines are the joined block in their middle, between two texts that do not
\* depend on the block.
Above(p) == IF p = << >> THEN << >> ELSE JoinLines(p) \o << "nl" >>
Below(q) == IF q = << >> THEN << >> ELSE << "nl" >> \o JoinLines(q)

LEMMA JoinAbove ==
  ASSUME NEW D, "nl" \in D, NEW p \in Seq(Seq(D)), NEW m \in Seq(Seq(D)), m # << >>
  PROVE  /\ Above(p) \in Seq(D) /\ JoinLines(m) \in Seq(D) /\ p \o m \in Seq(Seq(D)) /\ p \o m # << >>
         /\ JoinLines(p \o m) = Above(p) \o JoinLines(m)
  <1> DEFINE T == Seq(D)
             j == JoinLines(m)
  <1>1. j \in T
    BY JoinedText
  <1>2. p \o m \in Seq(T) /\ p \o m # << >> /\ << >> \o m = m
    <2> HIDE DEF T
    <2>1. p \in Seq(T) /\ m \in Seq(T)
      BY DEF T
    <2> QED
      BY <2>1
  <1>3. CASE p = << >>
    <2>1. << >> \o j = j /\ << >> \in T
      BY <1>1
    <2> QED
      BY <1>1, <1>2, <1>3, <2>1 DEF Above
  <1>4. CASE p # << >>
    <2>1. JoinLines(p) \in T /\ JoinLines(p \o m) = Linked(JoinLines(p), j)
      BY <1>4, JoinConcat
    <2>2. Linked(JoinLines(p), j) = (JoinLines(p) \o << "nl" >>) \o j
      BY DEF Linked
    <2>3. Above(p) = JoinLines(p) \o << "nl" >>
      BY <1>4 DEF Above
    <2>4. JoinLines(p) \o << "nl" >> \in T
      BY <2>1
    <2> QED
      BY <1>1, <1>2, <2>1, <2>2, <2>3, <2>4
  <1> QED
    BY <1>3, <1>4

LEMMA JoinBelow ==
  ASSUME NEW D, "nl" \in D, NEW q \in Seq(Seq(D)), NEW m \in Seq(Seq(D)), m # << >>
  PROVE  Below(q) \in Seq(D) /\ JoinLines(m \o q) = JoinLines(m) \o Below(q)
  <1> DEFINE T == Seq(D)
             j == JoinLines(m)
             k == JoinLines(q)
             n == << "nl" >>
  <1>1. j \in T /\ k \in T /\ n \in T
    BY JoinedText
  <1>2. CASE q = << >>
    <2>1. m \o << >> = m
      <3> HIDE DEF T
      <3>1. m \in Seq(T)
        BY DEF T
      <3> QED
        BY <3>1
    <2>2. j \o << >> = j /\ << >> \in T
      BY <1>1
    <2> QED
      BY <1>2, <2>1, <2>2 DEF Below
  <1>3. CASE q # << >>
    <2>1. JoinLines(m \o q) = Linked(j, k)
      BY <1>3, JoinConcat
    <2>2. Linked(j, k) = (j \o n) \o k
      BY DEF Linked
    <2>3. Below(q) = n \o k
      BY <1>3 DEF Below
    <2> HIDE DEF j, k, n
    <2>4. n \o k \in T /\ (j \o n) \o k = j \o (n \o k)
      BY <1>1
    <2>5. JoinLines(m \o q) = j \o Below(q)
      BY <2>1, <2>2, <2>3, <2>4
    <2> QED
      BY <2>3, <2>4, <2>5 DEF j
  <1> QED
    BY <1>2, <1>3

LEMMA JoinAround ==
  ASSUME NEW D, "nl" \in D, NEW p \in Seq(Seq(D)), NEW q \in Seq(Seq(D)), NEW m \in Seq(Seq(D)), m # << >>
  PROVE  /\ Above(p) \in Seq(D) /\ JoinLines(m) \in Seq(D) /\ Below(q) \in Seq(D)
         /\ JoinLines(p \o m \o q) = Above(p) \o JoinLines(m) \o Below(q)
  <1> DEFINE w == p \o m
  <1>1. /\ Above(p) \in Seq(D) /\ JoinLines(m) \in Seq(D) /\ w \in Seq(Seq(D)) /\ w # << >>
        /\ JoinLines(w) = Above(p) \o JoinLines(m)
    BY JoinAbove
  <1> HIDE DEF w
  <1>2. Below(q) \in Seq(D) /\ JoinLines(w \o q) = JoinLines(w) \o Below(q)
    BY <1>1, JoinBelow, Zenon
  <1> QED
    BY <1>1, <1>2 DEF w

-----------------------------------------------------------------------------
\* What an edit puts in the place of a block: what is left of both, line by line,
\* without the white around them, is x and y.
Core(t) == TrimmedLines(Trimmed(t))

Swapped(D, b, a, x, y) ==
  \E p, m, n, s \in Seq(D) : b = p \o m \o s /\ a = p \o n \o s /\ Core(m) = x /\ Core(n) = y

\* The fourth level replaces one block of lines.
LEMMA ByLineSwaps ==
  ASSUME NEW D, "nl" \in D, NEW whole \in Seq(D), NEW old \in Seq(D), NEW new \in Seq(D),
         LineByLineReplace(whole, old, new).kind = "edited"
  PROVE  LET t == LineByLineReplace(whole, old, new).text IN
         t \in Seq(D) /\ Swapped(D, whole, t, Core(old), Core(new))
  <1> DEFINE E == D \ {"nl"}
             T == Seq(E)
             lines == SplitLines(whole)
             wanted == TrimmedLines(Trimmed(old))
             starts == {s \in 1 .. (Len(lines) + 1 - Len(wanted)) :
                          \A k \in DOMAIN wanted : Trimmed(lines[s + k - 1]) = wanted[k]}
             first == Min(starts)
             last == MatchEnd(first, Len(wanted))
             block == SubSeq(lines, first, first + Len(wanted) - 1)
             r == ReindentReplacement(new, BaseIndentation(block))
             before == SubSeq(lines, 1, first - 1)
             after == SubSeq(lines, last + 1, Len(lines))
             t == LineByLineReplace(whole, old, new).text
  <1>1. starts # {} /\ t = JoinLines(before \o r \o after)
    BY Zenon DEF LineByLineReplace, Refused, Replaced
  <1>2. lines \in Seq(T) /\ Len(lines) \in Nat
    BY SplitText
  <1>3. Trimmed(old) \in Seq(D) /\ wanted \in Seq(Seq(D)) /\ wanted # << >>
    BY TrimSplit, TrimmedParts, Zenon
  <1>4. Len(wanted) \in Nat \ {0} /\ DOMAIN wanted = 1 .. Len(wanted)
    BY <1>3, EmptySeq, LenProperties
  <1>5. starts \subseteq Nat
    BY <1>2, <1>4
  <1>6. first \in starts
    <2> HIDE DEF starts
    <2> QED
      BY <1>1, <1>5, MinOfSome, Zenon
  <1>7. /\ first \in 1 .. (Len(lines) + 1 - Len(wanted))
        /\ \A k \in DOMAIN wanted : Trimmed(lines[first + k - 1]) = wanted[k]
    BY <1>6
  <1> HIDE DEF first, starts
  <1> DEFINE i == first - 1
             k == first + Len(wanted) - 1
  <1>8. /\ i \in 0 .. Len(lines) /\ k \in i .. Len(lines) /\ i + 1 = first /\ last = k
        /\ k - i = Len(wanted)
    BY <1>2, <1>4, <1>7 DEF MatchEnd
  <1>9. before = SubSeq(lines, 1, i) /\ block = SubSeq(lines, i + 1, k) /\ after = SubSeq(lines, k + 1, Len(lines))
    BY <1>8, Zenon
  <1> HIDE DEF i, k, lines, last, wanted
  <1>10. before \in Seq(T) /\ block \in Seq(T) /\ after \in Seq(T) /\ lines = before \o block \o after
    <2> HIDE DEF T
    <2>1. /\ SubSeq(lines, 1, i) \in Seq(T) /\ SubSeq(lines, i + 1, k) \in Seq(T) /\ SubSeq(lines, k + 1, Len(lines)) \in Seq(T)
          /\ lines = SubSeq(lines, 1, i) \o SubSeq(lines, i + 1, k) \o SubSeq(lines, k + 1, Len(lines))
      BY <1>2, <1>8, CutInThree, Zenon
    <2> HIDE DEF before, block, after
    <2> QED
      BY <1>9, <2>1, Zenon
  <1>11. Len(block) = Len(wanted) /\ \A j \in 1 .. Len(wanted) : Trimmed(block[j]) = wanted[j]
    <2> HIDE DEF T
    <2>1. i + 1 \in 1 .. (Len(lines) + 1) /\ k \in ((i + 1) - 1) .. Len(lines)
      BY <1>2, <1>8
    <2>2. /\ Len(SubSeq(lines, i + 1, k)) = k - (i + 1) + 1
          /\ \A j \in 1 .. (k - (i + 1) + 1) : SubSeq(lines, i + 1, k)[j] = lines[(i + 1) - 1 + j]
      BY <1>2, <2>1, PartAt
    <2> HIDE DEF block
    <2>3. k - (i + 1) + 1 = Len(wanted)
      BY <1>2, <1>8
    <2>4. Len(block) = Len(wanted) /\ \A j \in 1 .. Len(wanted) : block[j] = lines[(i + 1) - 1 + j]
      BY <1>9, <2>2, <2>3, Zenon
    <2>5. \A j \in 1 .. Len(wanted) : (i + 1) - 1 + j = first + j - 1
      BY <1>2, <1>4, <1>7, <1>8
    <2> QED
      BY <1>4, <1>7, <2>4, <2>5, Zenon
  <1> HIDE DEF before, after, t
  <1>12. BaseIndentation(block) \in T /\ Blank(BaseIndentation(block))
    <2> DEFINE full == {j \in DOMAIN block : ~Blank(block[j])}
    <2>1. CASE full = {}
      BY <2>1, BlankOfOne DEF BaseIndentation
    <2>2. CASE full # {}
      <3>1. full \subseteq Nat /\ full \subseteq DOMAIN block
        BY <1>10
      <3>2. Min(full) \in full
        BY <2>2, <3>1, MinOfSome, Zenon
      <3>3. BaseIndentation(block) = IndentationPrefix(block[Min(full)])
        BY <2>2, Zenon DEF BaseIndentation
      <3> DEFINE l == block[Min(full)]
      <3>4. l \in T
        <4> HIDE DEF T, block, full
        <4>1. Min(full) \in DOMAIN block
          BY <3>1, <3>2, Zenon
        <4> QED
          BY <1>10, <4>1, ElementOfSeq, LenProperties
      <3> HIDE DEF l
      <3>5. IndentationPrefix(l) \in T /\ Blank(IndentationPrefix(l))
        BY <3>4, IndentationIsWhite
      <3> QED
        BY <3>3, <3>5, Zenon DEF l
    <2> QED
      BY <2>1, <2>2, Zenon
  <1> HIDE DEF block
  <1>13. r \in Seq(T) /\ r # << >> /\ TrimAll(r) = TrimmedLines(new)
    BY <1>12, ReindentKeepsLines, Zenon
  <1> HIDE DEF r
  <1>14. TrimAll(block) = wanted /\ block # << >>
    <2>1. DOMAIN block = 1 .. Len(wanted)
      BY <1>10, <1>11, LenProperties
    <2>2. TrimAll(block) = [j \in 1 .. Len(wanted) |-> Trimmed(block[j])]
      BY <2>1 DEF TrimAll
    <2>3. wanted = [j \in 1 .. Len(wanted) |-> wanted[j]]
      BY <1>3, <1>4
    <2>4. TrimAll(block) = wanted
      BY <1>11, <2>2, <2>3
    <2> QED
      BY <1>4, <1>11, <2>4
  <1>15. T \subseteq Seq(D) /\ Seq(T) \subseteq Seq(Seq(D))
    <2>1. T \subseteq Seq(D)
      BY SeqMonotonic
    <2> HIDE DEF T
    <2> QED
      BY <2>1, SeqMonotonic
  <1>16. before \in Seq(Seq(D)) /\ after \in Seq(Seq(D)) /\ block \in Seq(Seq(D)) /\ r \in Seq(Seq(D))
    <2> HIDE DEF T
    <2> QED
      BY <1>10, <1>13, <1>15
  <1> DEFINE m == JoinLines(block)
             n == JoinLines(r)
             a == Above(before)
             c == Below(after)
  <1>17. /\ a \in Seq(D) /\ c \in Seq(D) /\ m \in Seq(D) /\ n \in Seq(D)
         /\ whole = a \o m \o c /\ t = a \o n \o c
    <2>1. whole = JoinLines(lines)
      BY JoinSplit DEF lines
    <2>2. a \in Seq(D) /\ m \in Seq(D) /\ c \in Seq(D) /\ JoinLines(before \o block \o after) = a \o m \o c
      BY <1>14, <1>16, JoinAround, Zenon
    <2>3. n \in Seq(D) /\ JoinLines(before \o r \o after) = a \o n \o c
      BY <1>13, <1>16, JoinAround, Zenon
    <2> QED
      BY <1>1, <1>10, <2>1, <2>2, <2>3
  <1>18. TrimmedLines(m) = wanted /\ TrimmedLines(n) = TrimmedLines(new)
    BY <1>10, <1>13, <1>14, LinesOfJoined, Zenon
  <1> HIDE DEF m, n, a, c
  <1>19. Core(n) = Core(new)
    BY <1>17, <1>18, SameLinesSameCore DEF Core
  <1>20. Core(m) = Core(old)
    <2>1. TrimmedLines(Trimmed(m)) = TrimmedLines(Trimmed(Trimmed(old)))
      BY <1>3, <1>17, <1>18, SameLinesSameCore DEF wanted
    <2> QED
      BY <2>1, TrimSides DEF Core
  <1>21. t \in Seq(D)
    BY <1>17
  <1> QED
    BY <1>17, <1>19, <1>20, <1>21, Zenon DEF Swapped, t

-----------------------------------------------------------------------------
\* normalize_newlines from any place of a text on: behind a "cr", or not.
Kinds == {"cr", "other"}
NormAfter(k, t) == FoldLeft(AddNormalized, [text |-> << >>, cr |-> (k = "cr")], t)
TextAfter(k, t) == NormAfter(k, t).text
KindAfter(k, t) == IF NormAfter(k, t).cr THEN "cr" ELSE "other"
NormChar(x) == IF x = "cr" THEN "nl" ELSE x
NormNext(k, t, x) ==
  /\ KindAfter(k, Append(t, x)) = IF x = "cr" THEN "cr" ELSE "other"
  /\ TextAfter(k, Append(t, x)) =
       IF x = "nl" /\ KindAfter(k, t) = "cr" THEN TextAfter(k, t) ELSE Append(TextAfter(k, t), NormChar(x))

LEMMA NormStep ==
  ASSUME NEW b, NEW x
  PROVE  /\ AddNormalized(b, x).cr <=> x = "cr"
         /\ x = "nl" /\ b.cr => AddNormalized(b, x).text = b.text
         /\ ~(x = "nl" /\ b.cr) => AddNormalized(b, x).text = Append(b.text, NormChar(x))
  <1>1. AddNormalized(b, x).cr <=> x = "cr"
    BY Zenon DEF AddNormalized
  <1>2. AddNormalized(b, x).text = IF x = "nl" /\ b.cr THEN b.text ELSE Append(b.text, NormChar(x))
    BY DEF AddNormalized, NormChar
  <1> QED
    BY <1>1, <1>2, Zenon

LEMMA NormSteps ==
  ASSUME NEW D, "nl" \in D, NEW t \in Seq(D), NEW k \in Kinds
  PROVE  /\ TextAfter(k, t) \in Seq(D \ {"cr"}) /\ KindAfter(k, t) \in Kinds
         /\ TextAfter(k, << >>) = << >> /\ KindAfter(k, << >>) = k
         /\ \A x \in D : NormNext(k, t, x)
         /\ NormalizeNewlines(t) = TextAfter("other", t)
  <1> DEFINE L == Seq(D \ {"cr"})
             start == [text |-> << >>, cr |-> (k = "cr")]
             X == {u \in Seq(D) : TextAfter(k, u) \in L}
  <1>1. \A u : NormAfter(k, u) = Norm!Fold(start, u)
    BY FileFolds DEF NormAfter
  <1>2. NormAfter(k, << >>) = start
    BY <1>1, Norm!FoldEmpty
  <1>3. \A u \in Seq(D), x \in D : NormAfter(k, Append(u, x)) = AddNormalized(NormAfter(k, u), x)
    <2>1. \A u \in Seq(D), x \in D : Norm!Fold(start, Append(u, x)) = AddNormalized(Norm!Fold(start, u), x)
      <3> HIDE DEF start
      <3> QED
        BY Norm!FoldAppend
    <2> HIDE DEF start
    <2> QED
      BY <1>1, <2>1
  <1>4. TextAfter(k, << >>) = << >>
    BY <1>2 DEF TextAfter
  <1>5. KindAfter(k, << >>) = k
    <2>1. start.cr <=> k = "cr"
      BY Zenon
    <2> HIDE DEF start
    <2>2. NormAfter(k, << >>).cr <=> k = "cr"
      BY <1>2, <2>1, Zenon
    <2> QED
      BY <2>2 DEF KindAfter, Kinds
  <1>6. \A u \in Seq(D), x \in D : KindAfter(k, Append(u, x)) = IF x = "cr" THEN "cr" ELSE "other"
    <2> TAKE u \in Seq(D), x \in D
    <2>1. NormAfter(k, Append(u, x)).cr <=> x = "cr"
      BY <1>3, NormStep, Zenon
    <2> QED
      BY <2>1 DEF KindAfter
  <1>7. \A u \in Seq(D), x \in D :
          TextAfter(k, Append(u, x)) =
            IF x = "nl" /\ KindAfter(k, u) = "cr" THEN TextAfter(k, u) ELSE Append(TextAfter(k, u), NormChar(x))
    <2> TAKE u \in Seq(D), x \in D
    <2> DEFINE b == NormAfter(k, u)
    <2>1. NormAfter(k, Append(u, x)) = AddNormalized(b, x)
      BY <1>3
    <2>2. KindAfter(k, u) = "cr" <=> b.cr
      BY DEF KindAfter
    <2> HIDE DEF b
    <2>3. CASE x = "nl" /\ b.cr
      <3>1. AddNormalized(b, x).text = b.text
        BY <2>3, NormStep, Zenon
      <3> QED
        BY <2>1, <2>2, <2>3, <3>1 DEF TextAfter, b
    <2>4. CASE ~(x = "nl" /\ b.cr)
      <3>1. AddNormalized(b, x).text = Append(b.text, NormChar(x))
        BY <2>4, NormStep, Zenon
      <3> QED
        BY <2>1, <2>2, <2>4, <3>1 DEF TextAfter, b
    <2> QED
      BY <2>3, <2>4
  <1>8. << >> \in X
    <2>1. << >> \in L /\ << >> \in Seq(D)
      OBVIOUS
    <2> QED
      BY <1>4, <2>1, Zenon
  <1>9. ASSUME NEW u \in Seq(D), NEW x \in D, u \in X PROVE Append(u, x) \in X
    <2>1. NormChar(x) \in D \ {"cr"}
      BY DEF NormChar
    <2>2. TextAfter(k, u) \in L /\ Append(u, x) \in Seq(D)
      BY <1>9
    <2> DEFINE v == TextAfter(k, u)
               y == NormChar(x)
    <2>3. TextAfter(k, Append(u, x)) = v \/ TextAfter(k, Append(u, x)) = Append(v, y)
      BY <1>7
    <2> HIDE DEF v, y
    <2>4. v \in L /\ Append(v, y) \in L
      BY <2>1, <2>2 DEF v, y
    <2> QED
      BY <2>2, <2>3, <2>4, Zenon
  <1>10. t \in X
    <2>1. Seq(D) \subseteq X
      <3> HIDE DEF X
      <3> QED
        BY <1>8, <1>9, InductionOnTexts
    <2> QED
      BY <2>1
  <1>11. NormalizeNewlines(t) = TextAfter("other", t)
    <2>1. ("other" = "cr") = FALSE
      OBVIOUS
    <2> QED
      BY <2>1, Zenon DEF NormalizeNewlines, TextAfter, NormAfter
  <1>12. KindAfter(k, t) \in Kinds
    BY DEF KindAfter, Kinds
  <1>13. \A x \in D : NormNext(k, t, x)
    BY <1>6, <1>7 DEF NormNext
  <1> QED
    BY <1>4, <1>5, <1>10, <1>11, <1>12, <1>13

AppendsOnto(a, b, x) == Append(a \o b, x) = a \o Append(b, x)
LEMMA AppendOnto ==
  ASSUME NEW D, NEW a \in Seq(D), NEW b \in Seq(D), NEW x \in D
  PROVE  AppendsOnto(a, b, x)
  BY SMTT(60) DEF AppendsOnto

\* Two texts are normalized one after the other.
LEMMA NormOnto ==
  ASSUME NEW D, "nl" \in D, NEW p \in Seq(D), NEW q \in Seq(D), NEW k \in Kinds
  PROVE  /\ TextAfter(k, p \o q) = TextAfter(k, p) \o TextAfter(KindAfter(k, p), q)
         /\ KindAfter(k, p \o q) = KindAfter(KindAfter(k, p), q)
  <1> DEFINE a == TextAfter(k, p)
             d == KindAfter(k, p)
             X == {u \in Seq(D) : /\ TextAfter(k, p \o u) = a \o TextAfter(d, u)
                                  /\ KindAfter(k, p \o u) = KindAfter(d, u)}
  <1>1. a \in Seq(D) /\ d \in Kinds
    <2>1. TextAfter(k, p) \in Seq(D \ {"cr"}) /\ KindAfter(k, p) \in Kinds
      BY NormSteps, Zenon
    <2> QED
      BY <2>1
  <1> HIDE DEF a, d
  <1>2. << >> \in X
    <2>1. p \o << >> = p /\ a \o << >> = a /\ << >> \in Seq(D)
      BY <1>1
    <2>2. TextAfter(d, << >>) = << >> /\ KindAfter(d, << >>) = d
      BY <1>1, <2>1, NormSteps, Zenon
    <2> QED
      BY <2>1, <2>2, Zenon DEF a, d
  <1>3. ASSUME NEW u \in Seq(D), NEW x \in D, u \in X PROVE Append(u, x) \in X
    <2> DEFINE pu == p \o u
               b == TextAfter(d, u)
               y == NormChar(x)
    <2>1. pu \in Seq(D) /\ p \o Append(u, x) = Append(pu, x) /\ Append(u, x) \in Seq(D)
      BY Regrouped
    <2>2. TextAfter(k, pu) = a \o b /\ KindAfter(k, pu) = KindAfter(d, u)
      BY <1>3
    <2> HIDE DEF pu
    <2>3. /\ KindAfter(k, Append(pu, x)) = KindAfter(d, Append(u, x))
          /\ TextAfter(k, Append(pu, x)) = IF x = "nl" /\ KindAfter(d, u) = "cr" THEN a \o b ELSE Append(a \o b, y)
          /\ TextAfter(d, Append(u, x)) = IF x = "nl" /\ KindAfter(d, u) = "cr" THEN b ELSE Append(b, y)
      <3>1. NormNext(k, pu, x)
        BY <2>1, NormSteps, Zenon
      <3>2. NormNext(d, u, x)
        BY <1>1, NormSteps, Zenon
      <3> QED
        BY <2>2, <3>1, <3>2 DEF NormNext
    <2>4. b \in Seq(D) /\ y \in D
      <3>1. b \in Seq(D \ {"cr"})
        BY <1>1, NormSteps
      <3> QED
        BY <3>1 DEF NormChar
    <2> HIDE DEF b, y
    <2>5. Append(a \o b, y) = a \o Append(b, y)
      <3>1. AppendsOnto(a, b, y)
        BY <1>1, <2>4, AppendOnto
      <3> QED
        BY <3>1, Zenon DEF AppendsOnto
    <2>6. TextAfter(k, Append(pu, x)) = a \o TextAfter(d, Append(u, x))
      BY <2>3, <2>5
    <2> QED
      BY <2>1, <2>3, <2>6, Zenon
  <1>4. Seq(D) \subseteq X
    <2> HIDE DEF X
    <2> QED
      BY <1>2, <1>3, InductionOnTexts
  <1> QED
    BY <1>4 DEF a, d

\* What is behind a "cr" may lose a newline that it would have had, and nothing else.
LEMMA NormBegin ==
  ASSUME NEW D, "nl" \in D, NEW t \in Seq(D), NEW k \in Kinds
  PROVE  \E o \in Seq(D \ {"cr"}) : Blank(o) /\ TextAfter(k, t) = o \o TextAfter("cr", t)
  <1> DEFINE L == Seq(D \ {"cr"})
  <1>1. "cr" \in Kinds /\ "other" \in Kinds
    BY DEF Kinds
  <1>2. TextAfter("cr", t) \in L /\ TextAfter(k, t) \in L
    BY <1>1, NormSteps
  <1>3. << >> \in L /\ Blank(<< >>) /\ << "nl" >> \in L /\ Blank(<< "nl" >>)
    BY BlankOfOne DEF White
  <1>4. CASE TextAfter(k, t) = TextAfter("cr", t)
    <2>1. << >> \o TextAfter("cr", t) = TextAfter("cr", t)
      BY <1>2
    <2> QED
      BY <1>3, <1>4, <2>1, Zenon
  <1>5. CASE k = "other" /\ t # << >>
    <2> DEFINE h == Head(t)
               r == SubSeq(t, 2, Len(t))
               u == << h >>
    <2>1. h \in D /\ r \in Seq(D) /\ t = u \o r /\ u = Append(<< >>, h) /\ << >> \in Seq(D) /\ u \in Seq(D)
      BY <1>5
    <2> HIDE DEF h, r, u
    <2>2. \A d \in Kinds : /\ TextAfter(d, t) = TextAfter(d, u) \o TextAfter(KindAfter(d, u), r)
                           /\ KindAfter(d, u) = IF h = "cr" THEN "cr" ELSE "other"
                           /\ TextAfter(d, u) = IF h = "nl" /\ d = "cr" THEN << >> ELSE << NormChar(h) >>
      <3> SUFFICES ASSUME NEW d \in Kinds
                   PROVE  /\ TextAfter(d, t) = TextAfter(d, u) \o TextAfter(KindAfter(d, u), r)
                          /\ KindAfter(d, u) = IF h = "cr" THEN "cr" ELSE "other"
                          /\ TextAfter(d, u) = IF h = "nl" /\ d = "cr" THEN << >> ELSE << NormChar(h) >>
        OBVIOUS
      <3>1. TextAfter(d, t) = TextAfter(d, u) \o TextAfter(KindAfter(d, u), r)
        BY <2>1, NormOnto, Zenon
      <3>2. TextAfter(d, << >>) = << >> /\ KindAfter(d, << >>) = d
        BY <2>1, NormSteps, Zenon
      <3>3. NormNext(d, << >>, h)
        BY <2>1, NormSteps, Zenon
      <3>4. Append(<< >>, NormChar(h)) = << NormChar(h) >>
        OBVIOUS
      <3> QED
        BY <2>1, <3>1, <3>2, <3>3, <3>4, Zenon DEF NormNext
    <2>3. CASE h = "nl"
      <3> DEFINE z == TextAfter("other", r)
      <3>1. z \in L
        BY <1>1, <2>1, NormSteps
      <3>2. TextAfter("other", t) = << "nl" >> \o z /\ TextAfter("cr", t) = << >> \o z
        BY <1>1, <2>2, <2>3, Zenon DEF NormChar
      <3> HIDE DEF z
      <3>3. << >> \o z = z
        BY <3>1
      <3> QED
        BY <1>3, <1>5, <3>2, <3>3, Zenon
    <2>4. CASE h # "nl"
      <3>1. TextAfter("other", t) = TextAfter("cr", t)
        BY <1>1, <2>2, <2>4, Zenon
      <3> QED
        BY <1>4, <1>5, <3>1
    <2> QED
      BY <2>3, <2>4, Zenon
  <1>6. CASE t = << >>
    <2>1. \A d \in Kinds : TextAfter(d, << >>) = << >>
      BY <1>6, NormSteps, Zenon
    <2> QED
      BY <1>1, <1>4, <1>6, <2>1
  <1>7. CASE k = "cr"
    BY <1>4, <1>7
  <1> QED
    BY <1>5, <1>6, <1>7, Zenon DEF Kinds

\* A text without a "cr" stays as it is.
LEMMA NormPlain ==
  ASSUME NEW D, "nl" \in D, NEW t \in Seq(D \ {"cr"})
  PROVE  TextAfter("other", t) = t /\ KindAfter("other", t) = "other" /\ NormalizeNewlines(t) = t
  <1> DEFINE E == D \ {"cr"}
             X == {u \in Seq(E) : TextAfter("other", u) = u /\ KindAfter("other", u) = "other"}
  <1>1. "nl" \in E /\ << >> \in Seq(E) /\ "other" \in Kinds
    BY DEF Kinds
  <1>2. << >> \in X
    <2> HIDE DEF E
    <2> QED
      BY <1>1, NormSteps
  <1>3. ASSUME NEW u \in Seq(E), NEW x \in E, u \in X PROVE Append(u, x) \in X
    <2>1. Append(u, x) \in Seq(E) /\ x # "cr" /\ NormChar(x) = x
      BY DEF NormChar
    <2> HIDE DEF E
    <2>2. NormNext("other", u, x)
      BY <1>1, NormSteps, Zenon
    <2> QED
      BY <1>3, <2>1, <2>2 DEF NormNext
  <1>4. t \in X
    <2>1. Seq(E) \subseteq X
      <3> HIDE DEF X, E
      <3> QED
        BY <1>2, <1>3, InductionOnTexts
    <2> QED
      BY <2>1
  <1>5. NormalizeNewlines(t) = TextAfter("other", t)
    <2> HIDE DEF E
    <2>1. t \in Seq(E)
      BY DEF E
    <2> QED
      BY <1>1, <2>1, NormSteps
  <1> QED
    BY <1>4, <1>5

\* A text gets its newlines back when the style of the file is restored.
LEMMA NormRestored ==
  ASSUME NEW D, "nl" \in D, "cr" \in D, NEW base, NEW t \in Seq(D \ {"cr"})
  PROVE  Restored(base, t) \in Seq(D) /\ NormalizeNewlines(Restored(base, t)) = t
  <1> DEFINE E == D \ {"cr"}
             R(u) == FoldLeft(AddRestored, << >>, u)
             X == {u \in Seq(E) : /\ R(u) \in Seq(D)
                                  /\ TextAfter("other", R(u)) = u /\ KindAfter("other", R(u)) = "other"}
  <1>1. \A u : R(u) = Crlf!Fold(<< >>, u)
    BY FileFolds
  <1>2. R(<< >>) = << >>
    BY <1>1, Crlf!FoldEmpty
  <1>3. \A u \in Seq(E), x \in E : R(Append(u, x)) = AddRestored(R(u), x)
    <2> HIDE DEF E
    <2>1. \A u \in Seq(E), x \in E : Crlf!Fold(<< >>, Append(u, x)) = AddRestored(Crlf!Fold(<< >>, u), x)
      BY Crlf!FoldAppend
    <2> QED
      BY <1>1, <2>1, Zenon
  <1> HIDE DEF R
  <1>4. /\ "other" \in Kinds /\ << >> \in Seq(E) /\ << >> \in Seq(D)
        /\ TextAfter("other", << >>) = << >> /\ KindAfter("other", << >>) = "other"
    <2>1. "other" \in Kinds /\ << >> \in Seq(D) /\ << >> \in Seq(E)
      BY DEF Kinds
    <2> QED
      BY <2>1, NormSteps
  <1>5. << >> \in X
    BY <1>2, <1>4, Zenon
  <1>6. ASSUME NEW u \in Seq(E), NEW x \in E, u \in X PROVE Append(u, x) \in X
    <2> DEFINE w == R(u)
               y == IF x = "nl" THEN << "cr", "nl" >> ELSE << x >>
    <2>1. w \in Seq(D) /\ TextAfter("other", w) = u /\ KindAfter("other", w) = "other"
      BY <1>6
    <2>2. y \in Seq(D) /\ R(Append(u, x)) = w \o y
      BY <1>3 DEF AddRestored
    <2>3. TextAfter("other", y) = << x >> /\ KindAfter("other", y) = "other"
      <3>1. CASE x = "nl"
        <4> DEFINE c == << "cr" >>
        <4>1. c \in Seq(D) /\ c = Append(<< >>, "cr") /\ y = Append(c, "nl")
          BY <3>1
        <4> HIDE DEF c, y
        <4>2. NormNext("other", << >>, "cr")
          BY <1>4, NormSteps, Zenon
        <4>3. KindAfter("other", c) = "cr" /\ TextAfter("other", c) = << "nl" >>
          BY <1>4, <4>1, <4>2 DEF NormChar, NormNext
        <4>4. NormNext("other", c, "nl")
          BY <1>4, <4>1, NormSteps, Zenon
        <4> QED
          BY <3>1, <4>1, <4>3, <4>4 DEF NormNext
      <3>2. CASE x # "nl"
        <4>1. y = << x >> /\ y \in Seq(E)
          BY <3>2
        <4> HIDE DEF y
        <4> QED
          BY <4>1, NormPlain, Zenon
      <3> QED
        BY <3>1, <3>2
    <2> HIDE DEF w, y
    <2>4. /\ TextAfter("other", w \o y) = TextAfter("other", w) \o TextAfter(KindAfter("other", w), y)
          /\ KindAfter("other", w \o y) = KindAfter(KindAfter("other", w), y)
      BY <1>4, <2>1, <2>2, NormOnto, Zenon
    <2>5. Append(u, x) = u \o << x >> /\ Append(u, x) \in Seq(E)
      OBVIOUS
    <2>6. w \o y \in Seq(D)
      BY <2>1, <2>2
    <2> HIDE DEF E
    <2> QED
      BY <2>1, <2>2, <2>3, <2>4, <2>5, <2>6, Zenon
  <1>7. t \in X
    <2>1. Seq(E) \subseteq X
      <3> HIDE DEF X, E
      <3> QED
        BY <1>5, <1>6, InductionOnTexts
    <2> QED
      BY <2>1
  <1>8. CASE IsCrlf(base)
    <2>1. Restored(base, t) = R(t)
      BY <1>8 DEF Restored, R
    <2>2. R(t) \in Seq(D) /\ TextAfter("other", R(t)) = t
      BY <1>7
    <2>3. NormalizeNewlines(R(t)) = TextAfter("other", R(t))
      BY <1>4, <2>2, NormSteps
    <2> QED
      BY <2>1, <2>2, <2>3
  <1>9. CASE ~IsCrlf(base)
    <2>1. t \in Seq(D)
      OBVIOUS
    <2> QED
      BY <1>9, <2>1, NormPlain DEF Restored
  <1> QED
    BY <1>8, <1>9

-----------------------------------------------------------------------------
\* What is white at an end of a text is not of its core.
LEMMA CoreSides ==
  ASSUME NEW D, NEW o \in Seq(D), NEW t \in Seq(D), Blank(o)
  PROVE  Core(o \o t) = Core(t) /\ Core(t \o o) = Core(t) /\ Core(Trimmed(t)) = Core(t)
  BY TrimSides DEF Core

\* Texts one after the other, however they are grouped.
FourGrouped(e, f, g, h) == (e \o f) \o (g \o h) = e \o (f \o g) \o h

LEMMA FourTexts ==
  ASSUME NEW D, NEW e \in Seq(D), NEW f \in Seq(D), NEW g \in Seq(D), NEW h \in Seq(D)
  PROVE  FourGrouped(e, f, g, h)
  BY SMTT(60) DEF FourGrouped

LEMMA NormType ==
  ASSUME NEW D, "nl" \in D, NEW t \in Seq(D)
  PROVE  NormalizeNewlines(t) \in Seq(D \ {"cr"}) /\ TextAfter("cr", t) \in Seq(D \ {"cr"})
  <1>1. "cr" \in Kinds /\ "other" \in Kinds
    BY DEF Kinds
  <1>2. TextAfter("cr", t) \in Seq(D \ {"cr"})
    BY <1>1, NormSteps
  <1>3. TextAfter("other", t) \in Seq(D \ {"cr"}) /\ NormalizeNewlines(t) = TextAfter("other", t)
    BY <1>1, NormSteps, Zenon
  <1> QED
    BY <1>2, <1>3

\* A text that is normalized between two others has the core that it has alone.
Between(D, t, p, m, s) ==
  \E b \in Seq(D \ {"cr"}) :
    /\ IsParts(NormalizeNewlines(t), NormalizeNewlines(p), b, TextAfter("cr", s))
    /\ Core(b) = Core(NormalizeNewlines(m))

LEMMA NormBetween ==
  ASSUME NEW D, "nl" \in D, "cr" \in D, NEW p \in Seq(D), NEW m \in Seq(D), NEW s \in Seq(D),
         NEW t, IsParts(t, p, m, s)
  PROVE  Between(D, t, p, m, s)
  <1> DEFINE L == Seq(D \ {"cr"})
             x == NormalizeNewlines(p)
             k == KindAfter("other", p)
             y == TextAfter(k, m)
             j == KindAfter(k, m)
             z == TextAfter("cr", s)
             c == TextAfter("cr", m)
             pm == p \o m
  <1>1. "cr" \in Kinds /\ "other" \in Kinds
    BY DEF Kinds
  <1>2. x \in L /\ k \in Kinds /\ x = TextAfter("other", p)
    BY <1>1, NormSteps, Zenon
  <1>3. pm \in Seq(D) /\ pm \o s \in Seq(D)
    OBVIOUS
  <1> HIDE DEF x, k
  <1>4. y \in L /\ j \in Kinds /\ z \in L /\ c \in L
    BY <1>1, <1>2, NormSteps, Zenon
  <1>5. TextAfter("other", pm) = x \o y /\ KindAfter("other", pm) = j
    BY <1>1, <1>2, NormOnto, Zenon DEF k
  <1> HIDE DEF pm, y, j
  <1>6. TextAfter("other", pm \o s) = (x \o y) \o TextAfter(j, s)
    BY <1>1, <1>3, <1>5, NormOnto, Zenon
  <1>7. NormalizeNewlines(pm \o s) = TextAfter("other", pm \o s)
    BY <1>1, <1>3, NormSteps, Zenon
  <1>8. PICK o \in L : Blank(o) /\ TextAfter(j, s) = o \o z
    BY <1>4, NormBegin, Zenon
  <1> HIDE DEF z
  <1> DEFINE b == y \o o
  <1>9. b \in L
    BY <1>4, <1>8
  <1>10. (x \o y) \o (o \o z) = x \o b \o z
    <2>1. FourGrouped(x, y, o, z)
      BY <1>2, <1>4, <1>8, FourTexts
    <2> QED
      BY <2>1, Zenon DEF FourGrouped
  <1>11. Core(b) = Core(y)
    <2> HIDE DEF b
    <2>1. Core(y \o o) = Core(y)
      BY <1>4, <1>8, CoreSides
    <2> QED
      BY <2>1 DEF b
  <1>12. Core(y) = Core(c)
    <2>1. PICK v \in L : Blank(v) /\ y = v \o c
      BY <1>2, NormBegin, Zenon DEF y
    <2> HIDE DEF c
    <2>2. Core(v \o c) = Core(c)
      BY <1>4, <2>1, CoreSides
    <2> QED
      BY <2>1, <2>2
  <1>13. Core(NormalizeNewlines(m)) = Core(c)
    <2>1. NormalizeNewlines(m) = TextAfter("other", m)
      BY <1>1, NormSteps
    <2>2. PICK v \in L : Blank(v) /\ TextAfter("other", m) = v \o c
      BY <1>1, NormBegin, Zenon
    <2> HIDE DEF c
    <2>3. Core(v \o c) = Core(c)
      BY <1>4, <2>2, CoreSides
    <2> QED
      BY <2>1, <2>2, <2>3, Zenon
  <1>14. t = pm \o s
    BY DEF IsParts, pm
  <1> HIDE DEF b
  <1>15. IsParts(NormalizeNewlines(t), x, b, z)
    BY <1>6, <1>7, <1>8, <1>10, <1>14, Zenon DEF IsParts
  <1>16. Core(b) = Core(NormalizeNewlines(m))
    BY <1>11, <1>12, <1>13
  <1> QED
    BY <1>9, <1>15, <1>16, Zenon DEF x, z, Between

\* The first level, with the bytes of the file as they are.
LEMMA ExactSwaps ==
  ASSUME NEW D, "nl" \in D, "cr" \in D, NEW base \in Seq(D), NEW old \in Seq(D), NEW new \in Seq(D),
         CountMatches(base, old) > 0
  PROVE  /\ ReplaceFirst(base, old, new) \in Seq(D)
         /\ Swapped(D \ {"cr"}, NormalizeNewlines(base), NormalizeNewlines(ReplaceFirst(base, old, new)),
                    Core(NormalizeNewlines(old)), Core(NormalizeNewlines(new)))
  <1> DEFINE r == ReplaceFirst(base, old, new)
  <1>1. PICK p \in Seq(D), s \in Seq(D) : IsParts(base, p, old, s) /\ IsParts(r, p, new, s)
    BY ReplacedText
  <1> HIDE DEF r
  <1>2. \A u \in Seq(D) : \A t : IsParts(t, p, u, s) => Between(D, t, p, u, s)
    BY NormBetween
  <1>3. /\ Between(D, base, p, old, s)
        /\ Between(D, r, p, new, s)
    BY <1>1, <1>2
  <1>4. NormalizeNewlines(p) \in Seq(D \ {"cr"}) /\ TextAfter("cr", s) \in Seq(D \ {"cr"})
    BY NormType, Zenon
  <1>5. r \in Seq(D)
    BY <1>1 DEF IsParts
  <1>6. Swapped(D \ {"cr"}, NormalizeNewlines(base), NormalizeNewlines(r), Core(NormalizeNewlines(old)), Core(NormalizeNewlines(new)))
    BY <1>3, <1>4, Zenon DEF Swapped, IsParts, Between
  <1> QED
    BY <1>5, <1>6 DEF r

\* The second and the third level, with the newlines normalized.
LEMMA NormalizedSwaps ==
  ASSUME NEW D, "nl" \in D, "cr" \in D, NEW base \in Seq(D), NEW old \in Seq(D \ {"cr"}),
         NEW new \in Seq(D \ {"cr"}), CountMatches(NormalizeNewlines(base), old) > 0
  PROVE  LET r == Restored(base, ReplaceFirst(NormalizeNewlines(base), old, new)) IN
         /\ r \in Seq(D)
         /\ Swapped(D \ {"cr"}, NormalizeNewlines(base), NormalizeNewlines(r), Core(old), Core(new))
  <1> DEFINE E == D \ {"cr"}
             b == NormalizeNewlines(base)
             t == ReplaceFirst(b, old, new)
  <1>1. b \in Seq(E)
    BY NormType, Zenon
  <1> HIDE DEF b
  <1>2. PICK p \in Seq(E), s \in Seq(E) : IsParts(b, p, old, s) /\ IsParts(t, p, new, s)
    <2>1. CountMatches(b, old) > 0
      BY DEF b
    <2> HIDE DEF E, t
    <2>2. old \in Seq(E) /\ new \in Seq(E)
      BY DEF E
    <2> QED
      BY <1>1, <2>1, <2>2, ReplacedText DEF t
  <1> HIDE DEF t
  <1>3. t \in Seq(E)
    <2> HIDE DEF E
    <2> QED
      BY <1>2 DEF IsParts, E
  <1>4. Restored(base, t) \in Seq(D) /\ NormalizeNewlines(Restored(base, t)) = t
    BY <1>3, NormRestored, Zenon
  <1>5. Swapped(E, b, t, Core(old), Core(new))
    BY <1>2, Zenon DEF Swapped, IsParts
  <1> QED
    BY <1>4, <1>5 DEF b, t

\* Whichever level decides, one block is replaced.
LEMMA FuzzySwaps ==
  ASSUME NEW D, "nl" \in D, "cr" \in D, NEW base \in Seq(D), NEW old \in Seq(D), NEW new \in Seq(D),
         FuzzyReplace(base, old, new).kind = "edited"
  PROVE  LET r == FuzzyReplace(base, old, new).text IN
         /\ r \in Seq(D)
         /\ Swapped(D \ {"cr"}, NormalizeNewlines(base), NormalizeNewlines(r),
                    Core(NormalizeNewlines(old)), Core(NormalizeNewlines(new)))
  <1> DEFINE E == D \ {"cr"}
             whole == NormalizeNewlines(base)
             older == NormalizeNewlines(old)
             newer == NormalizeNewlines(new)
             trimmed == Trimmed(older)
             found == << CountMatches(base, old), CountMatches(whole, older), CountMatches(whole, trimmed) >>
             levels == {n \in DOMAIN found : found[n] > 0}
             decides == Min(levels)
             byLine == LineByLineReplace(whole, older, newer)
             answer == FuzzyReplace(base, old, new)
             r == answer.text
  <1>1. whole \in Seq(E) /\ older \in Seq(E) /\ newer \in Seq(E) /\ "nl" \in E
    BY NormType
  <1>2. trimmed \in Seq(E) /\ Core(trimmed) = Core(older)
    <2> HIDE DEF E, older
    <2>1. trimmed \in Seq(E)
      BY <1>1, TrimSplit
    <2>2. << >> \in Seq(E) /\ Blank(<< >>)
      BY BlankOfOne, EmptySeq
    <2> QED
      BY <1>1, <2>1, <2>2, CoreSides, Zenon
  <1>3. answer = IF levels = {} THEN [byLine EXCEPT !.text = Restored(base, @)]
                 ELSE IF found[decides] > 1 THEN Refused("ambiguous")
                 ELSE CASE decides = 1 -> Replaced(ReplaceFirst(base, old, new))
                        [] decides = 2 -> Replaced(Restored(base, ReplaceFirst(whole, older, newer)))
                        [] decides = 3 -> Replaced(Restored(base, ReplaceFirst(whole, trimmed, newer)))
    BY DEF FuzzyReplace, NormalizedOldText
  <1>4. answer.kind = "edited"
    OBVIOUS
  <1>5. DOMAIN found = 1 .. 3
    OBVIOUS
  <1>6. levels \subseteq 1 .. 3 /\ levels \subseteq Nat
    BY <1>5
  <1> HIDE DEF answer
  <1>7. CASE levels = {}
    <2>1. answer = [byLine EXCEPT !.text = Restored(base, @)]
      BY <1>3, <1>7
    <2>2. byLine.kind = "edited" /\ answer.text = Restored(base, byLine.text)
      <3>1. byLine = [kind |-> byLine.kind, text |-> byLine.text]
        BY Zenon DEF LineByLineReplace, Refused, Replaced
      <3> HIDE DEF byLine
      <3>2. answer = [kind |-> byLine.kind, text |-> Restored(base, byLine.text)]
        BY <2>1, <3>1
      <3> QED
        BY <1>4, <3>2
    <2>3. byLine.text \in Seq(E) /\ Swapped(E, whole, byLine.text, Core(older), Core(newer))
      <3> HIDE DEF E, whole, older, newer
      <3> QED
        BY <1>1, <2>2, ByLineSwaps
    <2> HIDE DEF byLine, whole, older, newer
    <2>4. Restored(base, byLine.text) \in Seq(D) /\ NormalizeNewlines(Restored(base, byLine.text)) = byLine.text
      BY <2>3, NormRestored
    <2> QED
      BY <2>2, <2>3, <2>4, Zenon DEF answer, whole, older, newer
  <1>8. CASE levels # {}
    <2>1. decides \in levels
      <3> HIDE DEF levels
      <3> QED
        BY <1>6, <1>8, MinOfSome, Zenon
    <2>2. decides \in 1 .. 3 /\ found[decides] > 0
      BY <2>1, <1>5
    <2> HIDE DEF decides, levels
    <2>3. ~(found[decides] > 1)
      BY <1>3, <1>4, <1>8 DEF Refused
    <2>4. CASE decides = 1
      <3>1. answer = Replaced(ReplaceFirst(base, old, new)) /\ CountMatches(base, old) > 0
        BY <1>3, <1>8, <2>2, <2>3, <2>4
      <3>2. answer.text = ReplaceFirst(base, old, new)
        BY <3>1 DEF Replaced
      <3> QED
        BY <3>1, <3>2, ExactSwaps, Zenon DEF answer
    <2>5. CASE decides = 2
      <3>1. answer = Replaced(Restored(base, ReplaceFirst(whole, older, newer))) /\ CountMatches(whole, older) > 0
        BY <1>3, <1>8, <2>2, <2>3, <2>5
      <3>2. answer.text = Restored(base, ReplaceFirst(whole, older, newer))
        BY <3>1 DEF Replaced
      <3> HIDE DEF older, newer
      <3>3. /\ Restored(base, ReplaceFirst(whole, older, newer)) \in Seq(D)
            /\ Swapped(E, whole, NormalizeNewlines(Restored(base, ReplaceFirst(whole, older, newer))), Core(older), Core(newer))
        BY <1>1, <3>1, NormalizedSwaps
      <3> QED
        BY <3>2, <3>3 DEF answer, older, newer
    <2>6. CASE decides = 3
      <3>1. answer = Replaced(Restored(base, ReplaceFirst(whole, trimmed, newer))) /\ CountMatches(whole, trimmed) > 0
        BY <1>3, <1>8, <2>2, <2>3, <2>6
      <3>2. answer.text = Restored(base, ReplaceFirst(whole, trimmed, newer))
        BY <3>1 DEF Replaced
      <3> HIDE DEF trimmed, newer
      <3>3. /\ Restored(base, ReplaceFirst(whole, trimmed, newer)) \in Seq(D)
            /\ Swapped(E, whole, NormalizeNewlines(Restored(base, ReplaceFirst(whole, trimmed, newer))), Core(trimmed), Core(newer))
        BY <1>1, <1>2, <3>1, NormalizedSwaps, Zenon
      <3> QED
        BY <1>2, <3>2, <3>3 DEF answer, newer
    <2> QED
      BY <2>2, <2>4, <2>5, <2>6
  <1> QED
    BY <1>7, <1>8

-----------------------------------------------------------------------------
\* What EditsOneBlock says of a text, its edit and what the block and what is put there read like.
OneBlock(before, after, x, y) ==
  \E i \in 0 .. Len(before) : \E k \in i .. Len(before) :
    LET rest == Len(before) - k
        put == Len(after) - rest
    IN /\ Essence(SubSeq(before, i + 1, k)) = x
       /\ put >= i
       /\ SubSeq(after, 1, i) = SubSeq(before, 1, i)
       /\ SubSeq(after, put + 1, Len(after)) = SubSeq(before, k + 1, Len(before))
       /\ Essence(SubSeq(after, i + 1, put)) = y

LEMMA SwappedIsOneBlock ==
  ASSUME NEW D, "nl" \in D, NEW b, NEW a, NEW x, NEW y, Swapped(D \ {"cr"}, b, a, x, y)
  PROVE  OneBlock(b, a, x, y)
  <1> DEFINE E == D \ {"cr"}
  <1>1. PICK p \in Seq(E), m \in Seq(E), n \in Seq(E), s \in Seq(E) :
          b = p \o m \o s /\ a = p \o n \o s /\ Core(m) = x /\ Core(n) = y
    BY Zenon DEF Swapped
  <1>2. Places(b, E, p, m, s) /\ Places(a, E, p, n, s)
    BY <1>1, ThreeTexts
  <1>3. Essence(m) = x /\ Essence(n) = y
    <2>1. NormalizeNewlines(m) = m /\ NormalizeNewlines(n) = n
      BY NormPlain, Zenon
    <2> QED
      BY <1>1, <2>1 DEF Essence, Core
  <1>4. Len(p) \in Nat /\ Len(m) \in Nat /\ Len(n) \in Nat /\ Len(s) \in Nat
    OBVIOUS
  <1>5. /\ Len(b) = Len(p) + Len(m) + Len(s) /\ Len(a) = Len(p) + Len(n) + Len(s)
        /\ SubSeq(b, 1, Len(p)) = p /\ SubSeq(a, 1, Len(p)) = p
        /\ SubSeq(b, Len(p) + 1, Len(p) + Len(m)) = m /\ SubSeq(a, Len(p) + 1, Len(p) + Len(n)) = n
        /\ SubSeq(b, Len(p) + Len(m) + 1, Len(b)) = s /\ SubSeq(a, Len(p) + Len(n) + 1, Len(a)) = s
    BY <1>2, Zenon DEF Places
  <1> DEFINE i == Len(p)
             k == Len(p) + Len(m)
             put == Len(a) - (Len(b) - k)
  <1>6. i \in 0 .. Len(b) /\ k \in i .. Len(b) /\ put = Len(p) + Len(n) /\ put >= i
    BY <1>4, <1>5
  <1>7. /\ Essence(SubSeq(b, i + 1, k)) = x
        /\ SubSeq(a, 1, i) = SubSeq(b, 1, i)
        /\ SubSeq(a, put + 1, Len(a)) = SubSeq(b, k + 1, Len(b))
        /\ Essence(SubSeq(a, i + 1, put)) = y
    BY <1>3, <1>5, <1>6, Zenon
  <1> HIDE DEF i, k
  <1> QED
    BY <1>6, <1>7, Zenon DEF OneBlock

\* edit_file, whatever the file, old_text and new_text.
LEMMA EditedIsOneBlock ==
  ASSUME NEW base \in FileTexts, NEW old \in FileTexts, NEW new \in FileTexts,
         FuzzyReplace(base, old, new).kind = "edited"
  PROVE  /\ FuzzyReplace(base, old, new).text \in FileTexts
         /\ OneBlock(NormalizeNewlines(base), NormalizeNewlines(FuzzyReplace(base, old, new).text),
                     Essence(old), Essence(new))
  <1> DEFINE D == White \cup Words
             r == FuzzyReplace(base, old, new).text
  <1>1. "nl" \in D /\ "cr" \in D /\ FileTexts = Seq(D)
    BY DEF White, FileTexts
  <1>2. base \in Seq(D) /\ old \in Seq(D) /\ new \in Seq(D)
    BY <1>1
  <1> HIDE DEF D
  <1>3. /\ r \in Seq(D)
        /\ Swapped(D \ {"cr"}, NormalizeNewlines(base), NormalizeNewlines(r),
                   Core(NormalizeNewlines(old)), Core(NormalizeNewlines(new)))
    BY <1>1, <1>2, FuzzySwaps, Zenon
  <1> HIDE DEF r
  <1>4. OneBlock(NormalizeNewlines(base), NormalizeNewlines(r), Core(NormalizeNewlines(old)), Core(NormalizeNewlines(new)))
    BY <1>1, <1>3, SwappedIsOneBlock
  <1> QED
    BY <1>1, <1>3, <1>4 DEF Essence, Core, r

-----------------------------------------------------------------------------
\* str::lines gives texts.
LEMMA LinesOfText ==
  ASSUME NEW t \in FileTexts
  PROVE  Lines(t) \in Seq(FileTexts)
  <1> DEFINE T == White \cup Words
             split == SplitLines(t)
             Line(i) == IF i < Len(split) /\ split[i] # << >> /\ Last(split[i]) = "cr"
                          THEN Front(split[i]) ELSE split[i]
             kept == IF Last(split) = << >> THEN Len(split) - 1 ELSE Len(split)
  <1>1. split \in Seq(FileTexts) /\ Len(split) >= 1
    <2>1. split \in Seq(Seq(T \ {"nl"})) /\ Len(split) >= 1
      BY SplitText, Zenon DEF FileTexts
    <2>2. Seq(T \ {"nl"}) \subseteq FileTexts
      BY SeqMonotonic DEF FileTexts
    <2> HIDE DEF split
    <2> QED
      BY <2>1, <2>2, SeqMonotonic
  <1> HIDE DEF split
  <1>2. kept \in Nat /\ kept <= Len(split)
    BY <1>1
  <1>3. ASSUME NEW i \in 1 .. kept PROVE Line(i) \in FileTexts
    <2>1. split[i] \in Seq(T) /\ Len(split[i]) \in Nat
      BY <1>1, <1>2 DEF FileTexts
    <2>2. Front(split[i]) = SubSeq(split[i], 1, Len(split[i]) - 1)
      BY DEF Front
    <2> HIDE DEF T
    <2>3. SubSeq(split[i], 1, Len(split[i]) - 1) \in Seq(T)
      BY <2>1, PartOfText
    <2> QED
      BY <2>1, <2>2, <2>3 DEF FileTexts, T
  <1>4. Lines(t) = [i \in 1 .. kept |-> Line(i)]
    BY DEF Lines, split
  <1> HIDE DEF kept, Line
  <1>5. [i \in 1 .. kept |-> Line(i)] \in [1 .. kept -> FileTexts]
    BY <1>3
  <1>6. \A g \in [1 .. kept -> FileTexts] : g \in Seq(FileTexts)
    BY <1>2
  <1> QED
    BY <1>4, <1>5, <1>6

\* Pages that follow each other are one part of the lines.
LEMMA PartsMeet ==
  ASSUME NEW T, NEW s \in Seq(T), NEW i \in 0 .. Len(s), NEW j \in i .. Len(s)
  PROVE  /\ SubSeq(s, 1, i) \o SubSeq(s, i + 1, j) = SubSeq(s, 1, j)
         /\ SubSeq(s, 1, Len(s)) = s
         /\ << >> \o SubSeq(s, 1, j) = SubSeq(s, 1, j)
  <1>1. Len(s) \in Nat /\ DOMAIN s = 1 .. Len(s)
    OBVIOUS
  <1>2. SubSeq(s, 1, i) \in Seq(T) /\ SubSeq(s, i + 1, j) \in Seq(T) /\ SubSeq(s, 1, j) \in Seq(T)
    BY <1>1, PartOfText
  <1>3. Len(SubSeq(s, 1, i)) = i /\ Len(SubSeq(s, i + 1, j)) = j - i /\ Len(SubSeq(s, 1, j)) = j
    BY <1>1
  <1> QED
    BY <1>1, <1>2, <1>3

\* format_range_output: a page is the lines from its start on to where the next begins.
LEMMA PageFacts ==
  ASSUME NEW t \in FileTexts, NEW start \in Nat \ {0}, start <= Len(Lines(t)) + 1, NEW count \in LineCounts
  PROVE  \E last \in (start - 1) .. Len(Lines(t)) :
           /\ Page(t, start, count) = [lines |-> SubSeq(Lines(t), start, last), next |-> ContinuesAt(last, Len(Lines(t)))]
           /\ SubSeq(Lines(t), start, last) \in Seq(FileTexts)
           /\ ContinuesAt(last, Len(Lines(t))) \in 0 .. Len(Lines(t))
           /\ ContinuesAt(last, Len(Lines(t))) = (IF last = Len(Lines(t)) THEN 0 ELSE last + 1)
  <1> DEFINE L == Lines(t)
             total == Len(L)
             m == Min({count, MaxLineCount})
             last == Min({start - 1 + m, total})
  <1>1. L \in Seq(FileTexts) /\ total \in Nat
    BY LinesOfText
  <1>2. m \in Nat
    <2>1. count \in Nat /\ MaxLineCount \in Nat /\ {count, MaxLineCount} \subseteq Nat /\ {count, MaxLineCount} # {}
      BY FileToolsAssumption
    <2> QED
      BY <2>1, MinOfSome, Zenon
  <1> HIDE DEF m, L
  <1>3. last \in (start - 1) .. total
    <2>1. {start - 1 + m, total} \subseteq Nat /\ {start - 1 + m, total} # {}
      BY <1>1, <1>2
    <2>2. last \in {start - 1 + m, total} /\ last <= total
      BY <2>1, MinOfSome, Zenon
    <2> HIDE DEF last
    <2> QED
      BY <1>1, <1>2, <2>2 DEF L
  <1>4. Page(t, start, count) = [lines |-> SubSeq(L, start, last), next |-> ContinuesAt(last, total)]
    BY DEF Page, m, L
  <1> HIDE DEF last
  <1>5. SubSeq(L, start, last) \in Seq(FileTexts)
    BY <1>1, <1>3, PartOfText
  <1>6. ContinuesAt(last, total) \in 0 .. total /\ ContinuesAt(last, total) = IF last = total THEN 0 ELSE last + 1
    BY <1>1, <1>3 DEF ContinuesAt
  <1> QED
    BY <1>3, <1>4, <1>5, <1>6, Zenon DEF L

-----------------------------------------------------------------------------
\* A function of each line.
Mapped(f, s) == [i \in DOMAIN s |-> f[s[i]]]

LEMMA MappedType ==
  ASSUME NEW S, NEW f \in [S -> S], NEW s \in Seq(S)
  PROVE  /\ Mapped(f, s) \in Seq(S) /\ Len(Mapped(f, s)) = Len(s)
         /\ \A i \in 1 .. Len(s) : Mapped(f, s)[i] = f[s[i]]
         /\ Mapped(f, s) = << >> <=> s = << >>
  <1> DEFINE n == Len(s)
             m == Mapped(f, s)
  <1>1. n \in Nat /\ DOMAIN s = 1 .. n /\ \A i \in 1 .. n : s[i] \in S
    BY LenProperties, ElementOfSeq
  <1> HIDE DEF n
  <1>2. m = [i \in 1 .. n |-> f[s[i]]]
    BY <1>1 DEF Mapped
  <1>3. m \in [1 .. n -> S] /\ \A i \in 1 .. n : m[i] = f[s[i]]
    BY <1>1, <1>2
  <1> HIDE DEF m
  <1>4. m \in Seq(S) /\ DOMAIN m = 1 .. n
    BY <1>1, <1>3
  <1>5. Len(m) = n
    BY <1>1, <1>4, LenProperties
  <1>6. m = << >> <=> s = << >>
    BY <1>4, <1>5, EmptySeq DEF n
  <1> QED
    BY <1>3, <1>4, <1>5, <1>6 DEF m, n

LEMMA MappedConcat ==
  ASSUME NEW S, NEW f \in [S -> S], NEW s \in Seq(S), NEW u \in Seq(S)
  PROVE  Mapped(f, s \o u) = Mapped(f, s) \o Mapped(f, u)
  <1> DEFINE v == s \o u
             a == Mapped(f, s)
             b == Mapped(f, u)
             m == Mapped(f, v)
             c == a \o b
  <1>1. /\ v \in Seq(S) /\ Len(v) = Len(s) + Len(u) /\ Len(s) \in Nat /\ Len(u) \in Nat
        /\ \A i \in 1 .. Len(s) + Len(u) : v[i] = IF i <= Len(s) THEN s[i] ELSE u[i - Len(s)]
    BY ConcatProperties, LenProperties
  <1> HIDE DEF v
  <1>2. /\ m \in Seq(S) /\ Len(m) = Len(v) /\ \A i \in 1 .. Len(v) : m[i] = f[v[i]]
    BY <1>1, MappedType
  <1>3. /\ a \in Seq(S) /\ Len(a) = Len(s) /\ \A i \in 1 .. Len(s) : a[i] = f[s[i]]
    BY MappedType
  <1>4. /\ b \in Seq(S) /\ Len(b) = Len(u) /\ \A i \in 1 .. Len(u) : b[i] = f[u[i]]
    BY MappedType
  <1> HIDE DEF a, b, m
  <1>5. /\ c \in Seq(S) /\ Len(c) = Len(a) + Len(b)
        /\ \A i \in 1 .. Len(a) + Len(b) : c[i] = IF i <= Len(a) THEN a[i] ELSE b[i - Len(a)]
    BY <1>3, <1>4, ConcatProperties, Zenon
  <1> HIDE DEF c
  <1>6. ASSUME NEW i \in 1 .. Len(c) PROVE m[i] = c[i]
    <2>1. CASE i <= Len(s)
      <3>1. i \in 1 .. Len(s) /\ i \in 1 .. Len(v) /\ i \in 1 .. Len(a) + Len(b) /\ i \in 1 .. Len(s) + Len(u)
        BY <1>1, <1>3, <1>4, <1>5, <1>6, <2>1
      <3>2. v[i] = s[i] /\ c[i] = a[i]
        BY <1>1, <1>3, <1>5, <2>1, <3>1
      <3> QED
        BY <1>2, <1>3, <3>1, <3>2
    <2>2. CASE ~(i <= Len(s))
      <3> DEFINE j == i - Len(s)
      <3>1. j \in 1 .. Len(u) /\ i \in 1 .. Len(v) /\ i \in 1 .. Len(a) + Len(b) /\ i \in 1 .. Len(s) + Len(u)
        BY <1>1, <1>3, <1>4, <1>5, <1>6, <2>2
      <3>2. v[i] = u[j] /\ c[i] = b[j]
        BY <1>1, <1>3, <1>5, <2>2, <3>1
      <3> HIDE DEF j
      <3> QED
        BY <1>2, <1>4, <3>1, <3>2
    <2> QED
      BY <2>1, <2>2
  <1>7. Len(m) = Len(c)
    BY <1>1, <1>2, <1>3, <1>4, <1>5
  <1>8. m = c
    BY <1>2, <1>5, <1>6, <1>7, EqualTexts
  <1> QED
    BY <1>8 DEF m, c, a, b, v

LEMMA MappedAppend ==
  ASSUME NEW S, NEW f \in [S -> S], NEW s \in Seq(S), NEW x \in S
  PROVE  Mapped(f, Append(s, x)) = Append(Mapped(f, s), f[x])
  <1>1. << x >> \in Seq(S) /\ Append(s, x) = s \o << x >>
    OBVIOUS
  <1>2. Mapped(f, << x >>) = << f[x] >>
    BY DEF Mapped
  <1> DEFINE m == Mapped(f, s)
             y == f[x]
  <1>3. m \in Seq(S) /\ y \in S
    BY MappedType
  <1>4. Mapped(f, s \o << x >>) = m \o << y >>
    <2>1. Mapped(f, s \o << x >>) = Mapped(f, s) \o Mapped(f, << x >>)
      BY <1>1, MappedConcat, Zenon
    <2> QED
      BY <1>2, <2>1, Zenon
  <1> HIDE DEF m, y
  <1>5. m \o << y >> = Append(m, y)
    BY <1>3
  <1> QED
    BY <1>1, <1>4, <1>5 DEF m, y

-----------------------------------------------------------------------------
\* A line of str::lines: the "cr" before its newline is not of it.
Strip(t) == IF t # << >> /\ Last(t) = "cr" THEN Front(t) ELSE t

LEMMA StripAppend ==
  ASSUME NEW D, NEW t \in Seq(D), NEW x \in D
  PROVE  Strip(Append(t, x)) = IF x = "cr" THEN t ELSE Append(t, x)
  <1> DEFINE u == Append(t, x)
  <1>1. u \in Seq(D) /\ u # << >> /\ Len(u) = Len(t) + 1 /\ u[Len(t) + 1] = x
    OBVIOUS
  <1>2. Last(u) = x
    BY <1>1 DEF Last
  <1>3. Front(u) = t
    <2>1. Front(u) = SubSeq(u, 1, Len(u) - 1)
      BY DEF Front
    <2> QED
      BY <2>1, <1>1
  <1> QED
    BY <1>1, <1>2, <1>3 DEF Strip

LEMMA StripText ==
  ASSUME NEW D, NEW t \in Seq(D)
  PROVE  /\ Strip(t) \in Seq(D) /\ Strip(<< >>) = << >>
         /\ Strip(t) # t => t = Append(Strip(t), "cr") /\ "cr" \in D
  <1>1. Strip(<< >>) = << >>
    BY DEF Strip
  <1>2. CASE t # << >>
    <2>1. PICK u \in Seq(D), x \in D : t = Append(u, x)
      BY <1>2, SequenceEmptyOrAppend
    <2>2. Strip(t) = IF x = "cr" THEN u ELSE t
      BY <2>1, StripAppend
    <2> QED
      BY <1>1, <2>1, <2>2
  <1> QED
    BY <1>1, <1>2

LEMMA StripLinked ==
  ASSUME NEW D, "nl" \in D, NEW t \in Seq(D), NEW l \in Seq(D)
  PROVE  Strip(Linked(t, l)) = Linked(t, Strip(l))
  <1>1. CASE l = << >>
    <2>1. Linked(t, << >>) = Append(t, "nl")
      BY LinkedTexts, EmptySeq, Zenon
    <2>2. Strip(Append(t, "nl")) = Append(t, "nl")
      BY StripAppend
    <2> QED
      BY <1>1, <2>1, <2>2, StripText
  <1>2. CASE l # << >>
    <2>1. PICK u \in Seq(D), x \in D : l = Append(u, x)
      BY <1>2, SequenceEmptyOrAppend
    <2> DEFINE k == Linked(t, u)
    <2>2. k \in Seq(D) /\ Linked(t, Append(u, x)) = Append(k, x)
      BY <2>1, LinkedTexts
    <2> HIDE DEF k
    <2>3. Strip(Append(k, x)) = IF x = "cr" THEN k ELSE Append(k, x)
      BY <2>1, <2>2, StripAppend
    <2>4. Strip(l) = IF x = "cr" THEN u ELSE l
      BY <2>1, StripAppend
    <2> QED
      BY <2>1, <2>2, <2>3, <2>4, Zenon DEF k
  <1> QED
    BY <1>1, <1>2

LinkedOnto(a, b) == Append(a, "nl") \o b = Linked(a, b)
LEMMA LinkedIs ==
  ASSUME NEW D, "nl" \in D, NEW a \in Seq(D), NEW b \in Seq(D)
  PROVE  LinkedOnto(a, b)
  <1> DEFINE c == << "nl" >>
  <1>1. c \in Seq(D) /\ Append(a, "nl") = a \o c
    OBVIOUS
  <1> HIDE DEF c
  <1>2. (a \o c) \o b = a \o c \o b
    OBVIOUS
  <1> QED
    BY <1>1, <1>2, Zenon DEF LinkedOnto, Linked, c

\* Normalized, a line that ends in "cr" and "nl" ends as one that ends in "nl".
LEMMA NormLinked ==
  ASSUME NEW D, "nl" \in D, NEW t \in Seq(D), NEW l \in Seq(D)
  PROVE  NormalizeNewlines(Linked(t, l)) = Linked(NormalizeNewlines(Strip(t)), NormalizeNewlines(l))
  <1> DEFINE v == Append(t, "nl")
             k == Linked(t, l)
             N(u) == NormalizeNewlines(u)
  <1>1. v \in Seq(D) /\ k \in Seq(D) /\ k = v \o l /\ "other" \in Kinds /\ Strip(t) \in Seq(D)
    <2>1. v \in Seq(D) /\ "other" \in Kinds
      BY DEF Kinds
    <2>2. k \in Seq(D)
      BY LinkedTexts
    <2>3. LinkedOnto(t, l)
      BY LinkedIs
    <2>4. Strip(t) \in Seq(D)
      BY StripText
    <2> QED
      BY <2>1, <2>2, <2>3, <2>4, Zenon DEF LinkedOnto
  <1>2. \A u \in Seq(D) : N(u) = TextAfter("other", u) /\ N(u) \in Seq(D)
    <2> SUFFICES ASSUME NEW u \in Seq(D) PROVE N(u) = TextAfter("other", u) /\ N(u) \in Seq(D)
      OBVIOUS
    <2>1. N(u) = TextAfter("other", u)
      BY <1>1, NormSteps, Zenon
    <2>2. N(u) \in Seq(D \ {"cr"})
      BY NormType, Zenon
    <2> QED
      BY <2>1, <2>2
  <1> HIDE DEF k
  <1>3. NormNext("other", t, "nl")
    BY <1>1, NormSteps, Zenon
  <1>4. KindAfter("other", v) = "other"
    BY <1>3 DEF NormNext
  <1>5. TextAfter("other", v) = Append(N(Strip(t)), "nl")
    <2>1. CASE Strip(t) = t
      <3>1. KindAfter("other", t) = "other"
        <4>1. CASE t = << >>
          BY <1>1, <4>1, NormSteps, Zenon
        <4>2. CASE t # << >>
          <5>1. PICK u \in Seq(D), x \in D : t = Append(u, x)
            BY <4>2, SequenceEmptyOrAppend
          <5>2. x # "cr"
            <6>1. SUFFICES ASSUME x = "cr" PROVE FALSE
              OBVIOUS
            <6>2. u = Append(u, x)
              BY <2>1, <5>1, <6>1, StripAppend
            <6>3. Len(Append(u, x)) = Len(u) + 1 /\ Len(u) \in Nat
              BY <5>1, AppendProperties, LenProperties
            <6> QED
              BY <6>2, <6>3
          <5>3. NormNext("other", u, x)
            BY <1>1, <5>1, NormSteps, Zenon
          <5> QED
            BY <5>1, <5>2, <5>3 DEF NormNext
        <4> QED
          BY <4>1, <4>2
      <3> QED
        BY <1>2, <1>3, <2>1, <3>1 DEF NormNext, NormChar
    <2>2. CASE Strip(t) # t
      <3> DEFINE u == Strip(t)
      <3>1. u \in Seq(D) /\ t = Append(u, "cr") /\ "cr" \in D
        BY <2>2, StripText
      <3> HIDE DEF u
      <3>2. NormNext("other", u, "cr")
        BY <1>1, <3>1, NormSteps, Zenon
      <3>3. KindAfter("other", t) = "cr" /\ TextAfter("other", t) = Append(TextAfter("other", u), "nl")
        BY <3>1, <3>2 DEF NormNext, NormChar
      <3>4. TextAfter("other", v) = TextAfter("other", t)
        BY <1>3, <3>3 DEF NormNext
      <3> QED
        BY <1>2, <3>1, <3>3, <3>4 DEF u
    <2> QED
      BY <2>1, <2>2
  <1> HIDE DEF v, N
  <1>6. N(k) = TextAfter("other", v) \o TextAfter("other", l)
    <2>1. TextAfter("other", v \o l) = TextAfter("other", v) \o TextAfter(KindAfter("other", v), l)
      BY <1>1, NormOnto, Zenon
    <2> QED
      BY <1>1, <1>2, <1>4, <2>1, Zenon
  <1> DEFINE a == N(Strip(t))
             b == N(l)
  <1>7. a \in Seq(D) /\ b \in Seq(D) /\ b = TextAfter("other", l)
    BY <1>1, <1>2
  <1>8. Append(a, "nl") \o b = Linked(a, b)
    <2> HIDE DEF a, b
    <2> QED
      BY <1>7, LinkedIs, Zenon DEF LinkedOnto
  <1> QED
    BY <1>5, <1>6, <1>7, <1>8, Zenon DEF k, N

-----------------------------------------------------------------------------
\* What becomes of a line: stripped, normalized, or both.
StripOf(D) == [t \in Seq(D) |-> Strip(t)]
NormOf(D) == [t \in Seq(D) |-> NormalizeNewlines(t)]
NormStripOf(D) == [t \in Seq(D) |-> NormalizeNewlines(Strip(t))]

LEMMA LineFunctions ==
  ASSUME NEW D, "nl" \in D
  PROVE  /\ StripOf(D) \in [Seq(D) -> Seq(D)] /\ NormOf(D) \in [Seq(D) -> Seq(D)]
         /\ NormStripOf(D) \in [Seq(D) -> Seq(D)]
         /\ \A t \in Seq(D) : /\ StripOf(D)[t] = Strip(t) /\ NormOf(D)[t] = NormalizeNewlines(t)
                              /\ NormStripOf(D)[t] = NormalizeNewlines(Strip(t))
                              /\ Strip(t) \in Seq(D) /\ NormalizeNewlines(t) \in Seq(D)
  <1>1. \A t \in Seq(D) : Strip(t) \in Seq(D)
    BY StripText
  <1>2. \A t \in Seq(D) : NormalizeNewlines(t) \in Seq(D)
    <2> SUFFICES ASSUME NEW t \in Seq(D) PROVE NormalizeNewlines(t) \in Seq(D)
      OBVIOUS
    <2>1. NormalizeNewlines(t) \in Seq(D \ {"cr"})
      BY NormType
    <2> QED
      BY <2>1
  <1> DEFINE T == Seq(D)
  <1> HIDE DEF T
  <1>3. \A t \in T : Strip(t) \in T /\ NormalizeNewlines(t) \in T /\ NormalizeNewlines(Strip(t)) \in T
    BY <1>1, <1>2, Zenon DEF T
  <1>4. /\ [t \in T |-> Strip(t)] \in [T -> T] /\ [t \in T |-> NormalizeNewlines(t)] \in [T -> T]
        /\ [t \in T |-> NormalizeNewlines(Strip(t))] \in [T -> T]
    BY <1>3, Zenon
  <1>5. /\ StripOf(D) = [t \in T |-> Strip(t)] /\ NormOf(D) = [t \in T |-> NormalizeNewlines(t)]
        /\ NormStripOf(D) = [t \in T |-> NormalizeNewlines(Strip(t))]
    BY Zenon DEF T, StripOf, NormOf, NormStripOf
  <1> QED
    BY <1>3, <1>4, <1>5, Zenon DEF T

LEMMA StripJoined ==
  ASSUME NEW D, "nl" \in D, NEW s \in Seq(Seq(D)), NEW l \in Seq(D)
  PROVE  Strip(JoinLines(Append(s, l))) = JoinLines(Append(s, Strip(l)))
  <1> DEFINE j == JoinLines(s)
             m == Strip(l)
  <1>1. j \in Seq(D) /\ m \in Seq(D)
    BY JoinedText, StripText
  <1>2. JoinLines(Append(s, l)) = IF s = << >> THEN l ELSE Linked(j, l)
    BY JoinAppend
  <1> HIDE DEF j
  <1>3. JoinLines(Append(s, m)) = IF s = << >> THEN m ELSE Linked(j, m)
    <2> HIDE DEF m
    <2> QED
      BY <1>1, JoinAppend DEF j
  <1>4. Strip(Linked(j, l)) = Linked(j, m)
    BY <1>1, StripLinked
  <1> QED
    BY <1>2, <1>3, <1>4, Zenon

\* Normalizing is line by line.
NormJoins(D, s, l) ==
  NormalizeNewlines(JoinLines(Append(s, l))) = JoinLines(Append(Mapped(NormStripOf(D), s), NormalizeNewlines(l)))

LEMMA NormJoined ==
  ASSUME NEW D, "nl" \in D
  PROVE  \A s \in Seq(Seq(D)) : \A l \in Seq(D) : NormJoins(D, s, l)
  <1> DEFINE T == Seq(D)
             f == NormStripOf(D)
             X == {s \in Seq(T) : \A l \in T : NormJoins(D, s, l)}
  <1>1. f \in [T -> T] /\ \A t \in T : f[t] = NormalizeNewlines(Strip(t)) /\ Strip(t) \in T /\ NormalizeNewlines(t) \in T
    BY LineFunctions
  <1>2. << >> \in Seq(T)
    OBVIOUS
  <1>3. Mapped(f, << >>) = << >>
    <2> HIDE DEF T, f
    <2> QED
      BY <1>1, <1>2, MappedType, Zenon
  <1>4. \A s \in Seq(T), l \in T : JoinLines(Append(s, l)) = IF s = << >> THEN l ELSE Linked(JoinLines(s), l)
    BY JoinAppend
  <1>5. \A s \in Seq(T) : JoinLines(s) \in T
    BY JoinedText
  <1>6. \A s \in Seq(T), l \in T : Strip(JoinLines(Append(s, l))) = JoinLines(Append(s, Strip(l)))
    BY StripJoined
  <1>7. \A t, l \in T : NormalizeNewlines(Linked(t, l)) = Linked(NormalizeNewlines(Strip(t)), NormalizeNewlines(l))
    BY NormLinked
  <1>8. \A s \in Seq(T), x \in T : /\ Append(s, x) \in Seq(T) /\ Append(s, x) # << >>
    <2> HIDE DEF T
    <2> QED
      BY AppendProperties
  <1>9. \A s \in Seq(T), x \in T : Mapped(f, Append(s, x)) = Append(Mapped(f, s), f[x]) /\ Mapped(f, s) \in Seq(T)
    <2> HIDE DEF T, f
    <2> QED
      BY <1>1, MappedType, MappedAppend
  <1>10. \A l \in T : NormJoins(D, << >>, l)
    BY <1>1, <1>2, <1>3, <1>4, Zenon DEF NormJoins
  <1>11. ASSUME NEW s \in Seq(T), NEW x \in T, s \in X PROVE Append(s, x) \in X
    <2> DEFINE u == Append(s, x)
    <2>1. u \in Seq(T) /\ u # << >> /\ JoinLines(u) \in T
      BY <1>5, <1>8, Zenon
    <2>2. Mapped(f, u) = Append(Mapped(f, s), f[x]) /\ Mapped(f, u) \in Seq(T) /\ Mapped(f, u) # << >>
      <3> DEFINE m == Mapped(f, s)
                 y == f[x]
      <3> HIDE DEF T, f
      <3>1. m \in Seq(T) /\ y \in T /\ Mapped(f, u) = Append(m, y)
        BY <1>1, <1>9
      <3> HIDE DEF m, y
      <3>2. Append(m, y) \in Seq(T) /\ Append(m, y) # << >>
        BY <1>8, <3>1
      <3> QED
        BY <3>1, <3>2, Zenon DEF m, y
    <2>3. NormalizeNewlines(Strip(JoinLines(u))) = JoinLines(Mapped(f, u))
      <3>1. NormJoins(D, s, Strip(x))
        BY <1>1, <1>11
      <3> QED
        BY <3>1, <1>1, <1>6, <2>2, Zenon DEF NormJoins
    <2>4. ASSUME NEW l \in T PROVE NormJoins(D, u, l)
      <3>1. JoinLines(Append(u, l)) = Linked(JoinLines(u), l)
        BY <1>4, <2>1, Zenon
      <3>2. NormalizeNewlines(Linked(JoinLines(u), l)) = Linked(NormalizeNewlines(Strip(JoinLines(u))), NormalizeNewlines(l))
        BY <1>7, <2>1, Zenon
      <3>3. JoinLines(Append(Mapped(f, u), NormalizeNewlines(l))) = Linked(JoinLines(Mapped(f, u)), NormalizeNewlines(l))
        BY <1>1, <1>4, <2>2, Zenon
      <3> QED
        BY <2>3, <3>1, <3>2, <3>3, Zenon DEF NormJoins
    <2> QED
      BY <2>1, <2>4, Zenon DEF X, u
  <1> HIDE DEF X
  <1>12. << >> \in X
    BY <1>2, <1>10, Zenon DEF X
  <1>13. Seq(T) \subseteq X
    <2> HIDE DEF T
    <2> QED
      BY <1>11, <1>12, InductionOnTexts
  <1> QED
    BY <1>13, Zenon DEF X

\* No line but perhaps the last one ends in "cr".
EndsInCr(l) == Strip(l) # l

LEMMA NormPage ==
  ASSUME NEW D, "nl" \in D, NEW u \in Seq(Seq(D)), u # << >>, \A i \in 1 .. (Len(u) - 1) : ~EndsInCr(u[i])
  PROVE  NormalizeNewlines(JoinLines(u)) = JoinLines(Mapped(NormOf(D), u))
  <1> DEFINE T == Seq(D)
             f == NormStripOf(D)
             g == NormOf(D)
  <1>1. /\ f \in [T -> T] /\ g \in [T -> T]
        /\ \A t \in T : f[t] = NormalizeNewlines(Strip(t)) /\ g[t] = NormalizeNewlines(t)
    BY LineFunctions, Zenon
  <1>2. \A s \in Seq(T), l \in T : NormJoins(D, s, l)
    BY NormJoined
  <1> HIDE DEF T, f, g
  <1>3. PICK s \in Seq(T), l \in T : u = Append(s, l)
    BY SequenceEmptyOrAppend DEF T
  <1>4. Len(u) = Len(s) + 1 /\ Len(s) \in Nat /\ \A i \in 1 .. Len(s) : u[i] = s[i] /\ s[i] \in T
    BY <1>3, AppendProperties, LenProperties, ElementOfSeq
  <1>5. \A i \in 1 .. Len(s) : f[s[i]] = g[s[i]]
    BY <1>1, <1>4 DEF EndsInCr
  <1>6. Mapped(f, s) = Mapped(g, s)
    <2> DEFINE a == Mapped(f, s)
               b == Mapped(g, s)
    <2>1. a \in Seq(T) /\ Len(a) = Len(s) /\ \A i \in 1 .. Len(s) : a[i] = f[s[i]]
      BY <1>1, MappedType
    <2>2. b \in Seq(T) /\ Len(b) = Len(s) /\ \A i \in 1 .. Len(s) : b[i] = g[s[i]]
      BY <1>1, MappedType
    <2> HIDE DEF a, b
    <2>3. \A i \in 1 .. Len(b) : a[i] = b[i]
      BY <1>5, <2>1, <2>2, Zenon
    <2>4. a = b
      BY <2>1, <2>2, <2>3, EqualTexts
    <2> QED
      BY <2>4 DEF a, b
  <1>7. Mapped(g, u) = Append(Mapped(g, s), g[l])
    BY <1>1, <1>3, MappedAppend, Zenon
  <1>8. NormJoins(D, s, l)
    BY <1>2, <1>3
  <1> QED
    BY <1>1, <1>3, <1>6, <1>7, <1>8, Zenon DEF NormJoins, f, g

-----------------------------------------------------------------------------
\* What is there is found.
LEMMA PartIsFound ==
  ASSUME NEW D, NEW p \in Seq(D), NEW m \in Seq(D), NEW s \in Seq(D), m # << >>, NEW h, IsParts(h, p, m, s)
  PROVE  CountMatches(h, m) > 0
  <1> DEFINE k == Len(h) + 1 - Len(m)
             q == Len(p) + 1
             w == Windows(h, m)
             W == {w[i] : i \in 1 .. k}
             f == FoldLeft(AddMatch, << >>, w)
  <1>1. Places(h, D, p, m, s)
    BY ThreeTexts DEF IsParts
  <1>2. /\ Len(h) = Len(p) + Len(m) + Len(s) /\ Len(p) \in Nat /\ Len(m) \in Nat \ {0} /\ Len(s) \in Nat
        /\ SubSeq(h, Len(p) + 1, Len(p) + Len(m)) = m
    <2>1. Len(p) \in Nat /\ Len(m) \in Nat /\ Len(s) \in Nat /\ Len(m) # 0
      BY EmptySeq, LenProperties
    <2> QED
      BY <1>1, <2>1 DEF Places
  <1>3. q \in 1 .. k /\ k \in Nat /\ ~(Len(m) > Len(h))
    BY <1>2
  <1>4. At(h, m, q)
    <2>1. Len(p) + 1 + Len(m) - 1 = Len(p) + Len(m)
      BY <1>2
    <2>2. SubSeq(h, q, q + Len(m) - 1) = m
      BY <1>2, <2>1
    <2> QED
      BY <2>2 DEF At
  <1>5. DOMAIN w = 1 .. k /\ w[q].hit
    <2>1. w = [i \in 1 .. k |-> [from |-> i, to |-> i + Len(m), hit |-> At(h, m, i)]]
      BY DEF Windows
    <2> HIDE DEF w, k, q
    <2> QED
      BY <1>3, <1>4, <2>1
  <1>6. CountMatches(h, m) = Len(f)
    BY <1>3 DEF CountMatches, Matches
  <1>7. f = Hits!Fold(<< >>, w)
    BY FileFolds
  <1>8. \A i \in 1 .. k : w[i] \in W
    OBVIOUS
  <1> DEFINE I == {x \in Nat \X Seq(W) : x[1] >= q => x[2] # << >>}
  <1> HIDE DEF w, W, k, f
  <1>9. << 0, << >> >> \in I
    <2>1. ASSUME NEW e \in Seq(W) PROVE << 0, e >> \in I
      BY <1>2, <2>1 DEF I
    <2>2. << >> \in Seq(W)
      OBVIOUS
    <2> QED
      BY <2>1, <2>2, Zenon
  <1>10. ASSUME NEW i \in 0 .. (k - 1), NEW a, << i, a >> \in I
         PROVE  << i + 1, AddMatch(a, w[i + 1]) >> \in I
    <2>1. a \in Seq(W) /\ w[i + 1] \in W /\ i + 1 \in Nat /\ (i >= q => a # << >>)
      BY <1>3, <1>8, <1>10
    <2> DEFINE x == w[i + 1]
    <2>2. Append(a, x) \in Seq(W) /\ Append(a, x) # << >>
      <3> HIDE DEF I, x
      <3>1. x \in W
        BY <2>1 DEF x
      <3> QED
        BY <2>1, <3>1, AppendProperties
    <2>3. AddMatch(a, x) = a \/ AddMatch(a, x) = Append(a, x)
      BY DEF AddMatch
    <2>4. i + 1 >= q => AddMatch(a, x) # << >>
      <3>1. CASE i >= q
        BY <2>1, <2>2, <2>3, <3>1
      <3>2. CASE i + 1 = q
        <4>1. a = << >> => AddMatch(a, x) = Append(a, x)
          BY <1>5, <3>2 DEF AddMatch
        <4> QED
          BY <2>2, <2>3, <4>1
      <3> QED
        BY <1>2, <3>1, <3>2
    <2> QED
      BY <2>1, <2>2, <2>3, <2>4, Zenon
  <1> HIDE DEF I
  <1>11. << k, Hits!Fold(<< >>, w) >> \in I
    BY <1>3, <1>5, <1>9, <1>10, Hits!FoldInvariant
  <1>12. f \in Seq(W) /\ f # << >>
    BY <1>3, <1>7, <1>11 DEF I
  <1>13. Len(f) \in Nat /\ Len(f) # 0
    BY <1>12, EmptySeq, LenProperties
  <1> QED
    BY <1>6, <1>13

\* Normalizing empties no text.
LEMMA NormOfSome ==
  ASSUME NEW D, "nl" \in D, NEW t \in Seq(D), t # << >>
  PROVE  NormalizeNewlines(t) # << >>
  <1>1. "other" \in Kinds
    BY DEF Kinds
  <1> DEFINE X == {u \in Seq(D) : u # << >> => /\ TextAfter("other", u) # << >>}
  <1>2. << >> \in X
    OBVIOUS
  <1>3. ASSUME NEW u \in Seq(D), NEW x \in D, u \in X PROVE Append(u, x) \in X
    <2>1. /\ TextAfter("other", u) \in Seq(D \ {"cr"}) /\ NormNext("other", u, x)
          /\ TextAfter("other", << >>) = << >> /\ KindAfter("other", << >>) = "other"
      BY <1>1, NormSteps, Zenon
    <2> DEFINE v == TextAfter("other", u)
               c == NormChar(x)
    <2>2. Append(v, c) # << >>
      <3> HIDE DEF v, c
      <3>1. v \in Seq(D \ {"cr"})
        BY <2>1 DEF v
      <3>2. v \in Seq((D \ {"cr"}) \cup {c}) /\ c \in (D \ {"cr"}) \cup {c}
        BY <3>1
      <3> QED
        BY <3>2, AppendProperties
    <2>3. x = "nl" /\ KindAfter("other", u) = "cr" => v # << >>
      <3>1. SUFFICES ASSUME KindAfter("other", u) = "cr" PROVE v # << >>
        OBVIOUS
      <3>2. u # << >>
        BY <2>1, <3>1
      <3> QED
        BY <1>3, <3>2
    <2>4. TextAfter("other", Append(u, x)) # << >>
      BY <2>1, <2>2, <2>3 DEF NormNext
    <2>5. Append(u, x) \in Seq(D)
      OBVIOUS
    <2> QED
      BY <2>4, <2>5
  <1> HIDE DEF X
  <1>4. t \in X
    BY <1>2, <1>3, InductionOnTexts
  <1>5. NormalizeNewlines(t) = TextAfter("other", t)
    BY <1>1, NormSteps, Zenon
  <1> QED
    BY <1>4, <1>5 DEF X

-----------------------------------------------------------------------------
\* str::lines by the lines of split('\n').
LinesShape(D, t) ==
  LET done == SplitFrom(t).done
      line == SplitFrom(t).line
      stripped == Mapped(StripOf(D), done)
  IN Lines(t) = IF line = << >> THEN stripped ELSE Append(stripped, line)

LEMMA LinesAre ==
  ASSUME NEW D, "nl" \in D, NEW t \in Seq(D)
  PROVE  /\ SplitFrom(t).done \in Seq(Seq(D)) /\ SplitFrom(t).line \in Seq(D)
         /\ LinesShape(D, t)
  <1> DEFINE T == Seq(D)
             d == SplitFrom(t).done
             l == SplitFrom(t).line
             f == StripOf(D)
             m == Mapped(f, d)
             a == Append(m, l)
             split == SplitLines(t)
             Line(i) == IF i < Len(split) /\ split[i] # << >> /\ Last(split[i]) = "cr"
                          THEN Front(split[i]) ELSE split[i]
             kept == IF Last(split) = << >> THEN Len(split) - 1 ELSE Len(split)
  <1>1. d \in Seq(T) /\ l \in T /\ split = Append(d, l)
    BY TrimmedParts, SplitSteps
  <1>2. f \in [T -> T] /\ \A x \in T : f[x] = Strip(x) /\ Strip(x) \in T
    BY LineFunctions, Zenon
  <1>3. Lines(t) = [i \in 1 .. kept |-> Line(i)]
    BY DEF Lines
  <1> HIDE DEF T, d, l, f
  <1>4. /\ Len(split) = Len(d) + 1 /\ Len(d) \in Nat /\ split[Len(d) + 1] = l
        /\ \A i \in 1 .. Len(d) : split[i] = d[i] /\ d[i] \in T
    <2> HIDE DEF split
    <2> QED
      BY <1>1, AppendProperties, LenProperties, ElementOfSeq
  <1>5. Last(split) = l
    BY <1>4 DEF Last
  <1> HIDE DEF split
  <1>6. ASSUME NEW i \in 1 .. Len(d) PROVE Line(i) = Strip(d[i])
    BY <1>4 DEF Strip
  <1>7. Line(Len(d) + 1) = l
    BY <1>4
  <1>8. m \in Seq(T) /\ Len(m) = Len(d) /\ \A i \in 1 .. Len(d) : m[i] = Strip(d[i])
    BY <1>1, <1>2, <1>4, MappedType
  <1> HIDE DEF m, Line
  <1>9. CASE l = << >>
    <2>1. kept = Len(d)
      BY <1>4, <1>5, <1>9
    <2>2. m = [i \in 1 .. Len(d) |-> m[i]]
      BY <1>8
    <2> HIDE DEF kept
    <2>3. \A i \in 1 .. Len(d) : m[i] = Line(i)
      BY <1>6, <1>8
    <2>4. Lines(t) = m
      BY <1>3, <2>1, <2>2, <2>3
    <2> QED
      BY <1>1, <1>9, <2>4 DEF LinesShape, T, d, l, m, f
  <1>10. CASE l # << >>
    <2>1. kept = Len(d) + 1
      BY <1>4, <1>5, <1>10
    <2> HIDE DEF kept
    <2>2. /\ a \in Seq(T) /\ Len(a) = Len(d) + 1 /\ a[Len(d) + 1] = l
          /\ \A i \in 1 .. Len(d) : a[i] = m[i]
      BY <1>1, <1>8, AppendProperties
    <2> HIDE DEF a
    <2>3. a = [i \in 1 .. (Len(d) + 1) |-> a[i]]
      BY <2>2
    <2>4. \A i \in 1 .. (Len(d) + 1) : a[i] = Line(i)
      <3> SUFFICES ASSUME NEW i \in 1 .. (Len(d) + 1) PROVE a[i] = Line(i)
        OBVIOUS
      <3>1. i \in 1 .. Len(d) \/ i = Len(d) + 1
        BY <1>4
      <3> QED
        BY <1>6, <1>7, <1>8, <2>2, <3>1
    <2>5. Lines(t) = a
      BY <1>3, <2>1, <2>3, <2>4
    <2> QED
      BY <1>1, <1>10, <2>5 DEF LinesShape, T, d, l, m, f, a
  <1> QED
    BY <1>9, <1>10

\* A "cr" before the "cr" before a newline: its line still ends in one.
Doubled == << "cr", "cr", "nl" >>

ThreeMore(e, x, y, z, b) == Append(Append(Append(e, x), y), z) \o b = e \o << x, y, z >> \o b
LEMMA AppendThree ==
  ASSUME NEW D, NEW e \in Seq(D), NEW x \in D, NEW y \in D, NEW z \in D, NEW b \in Seq(D)
  PROVE  ThreeMore(e, x, y, z, b)
  BY DEF ThreeMore

LEMMA LineEndsInCr ==
  ASSUME NEW D, "nl" \in D, "cr" \in D, NEW s \in Seq(Seq(D)), NEW i \in 1 .. (Len(s) - 1), EndsInCr(Strip(s[i])),
         EndsInCr(s[i])
  PROVE  CountMatches(JoinLines(s), Doubled) > 0
  <1> DEFINE T == Seq(D)
             above == SubSeq(s, 1, i - 1)
             upto == SubSeq(s, 1, i)
             below == SubSeq(s, i + 1, Len(s))
             x == s[i]
  <1>1. Len(s) \in Nat /\ x \in T
    <2> HIDE DEF T
    <2>1. s \in Seq(T)
      BY DEF T
    <2> QED
      BY <2>1, ElementOfSeq, LenProperties
  <1>2. PICK r \in T : x = Append(Append(r, "cr"), "cr")
    <2> DEFINE y == Strip(x)
    <2>1. y \in T /\ x = Append(y, "cr")
      BY <1>1, StripText, Zenon DEF EndsInCr
    <2> HIDE DEF y
    <2>2. Strip(y) \in T /\ y = Append(Strip(y), "cr")
      <3>1. EndsInCr(y)
        BY DEF y
      <3> QED
        BY <2>1, <3>1, StripText DEF EndsInCr
    <2> QED
      BY <2>1, <2>2, Zenon
  <1>3. above \in Seq(T) /\ upto \in Seq(T) /\ below \in Seq(T) /\ upto # << >> /\ below # << >>
        /\ upto = Append(above, x) /\ s = upto \o below
    <2> HIDE DEF T
    <2>1. s \in Seq(T) /\ i \in 1 .. Len(s)
      BY <1>1 DEF T
    <2>2. above \in Seq(T) /\ upto \in Seq(T) /\ below \in Seq(T)
      BY <1>1, <2>1, PartOfText
    <2>3. Len(upto) = i /\ Len(below) = Len(s) - i /\ Len(above) = i - 1
      BY <1>1, <2>1
    <2>4. upto = Append(above, x)
      BY <1>1, <2>1, <2>2, <2>3
    <2>5. s = upto \o below
      BY <1>1, <2>1, <2>2, <2>3
    <2> HIDE DEF above, upto, below, x
    <2>6. Len(upto) # 0 /\ Len(below) # 0
      BY <1>1, <2>3
    <2>7. Len(<< >>) = 0
      OBVIOUS
    <2>8. upto # << >> /\ below # << >>
      BY <2>6, <2>7, Zenon
    <2> QED
      BY <2>2, <2>4, <2>5, <2>8
  <1> DEFINE j == JoinLines(above)
             e == IF above = << >> THEN r ELSE Linked(j, r)
             b == JoinLines(below)
             u == JoinLines(upto)
  <1>4. j \in T /\ b \in T /\ u \in T /\ JoinLines(s) = Linked(u, b)
    <2>1. j \in T
      BY <1>3, JoinedText, Zenon
    <2>2. u \in T /\ b \in T /\ JoinLines(upto \o below) = Linked(u, b)
      <3> HIDE DEF upto, below
      <3> QED
        BY <1>3, JoinConcat, Zenon
    <2> QED
      BY <1>3, <2>1, <2>2, Zenon
  <1>5. u = IF above = << >> THEN x ELSE Linked(j, x)
    <2> HIDE DEF above, x, upto
    <2> QED
      BY <1>1, <1>3, JoinAppend
  <1> HIDE DEF above, upto, below, j, b, u
  <1>6. e \in T /\ u = Append(Append(e, "cr"), "cr")
    <2>1. CASE above = << >>
      BY <1>2, <1>5, <2>1
    <2>2. CASE above # << >>
      <3> DEFINE v == Append(r, "cr")
                 w == Linked(j, r)
                 k == Linked(j, v)
      <3>4. \A a, c \in T : Linked(a, c) \in T /\ \A y \in D : Append(Linked(a, c), y) = Linked(a, Append(c, y))
        BY LinkedTexts
      <3>1. v \in T /\ x = Append(v, "cr")
        BY <1>2
      <3> HIDE DEF T
      <3>2. w \in T /\ Append(w, "cr") = k
        BY <1>4, <3>4, Zenon
      <3> HIDE DEF v
      <3>3. k \in T /\ Append(k, "cr") = Linked(j, Append(v, "cr"))
        BY <1>4, <3>1, <3>4, Zenon
      <3> QED
        BY <1>5, <2>2, <3>1, <3>2, <3>3, Zenon
    <2> QED
      BY <2>1, <2>2, Zenon
  <1> HIDE DEF e
  <1>7. IsParts(JoinLines(s), e, Doubled, b)
    <2>1. LinkedOnto(u, b)
      BY <1>4, LinkedIs
    <2>2. ThreeMore(e, "cr", "cr", "nl", b)
      BY <1>4, <1>6, AppendThree
    <2> QED
      BY <1>4, <1>6, <2>1, <2>2, Zenon DEF LinkedOnto, ThreeMore, IsParts, Doubled
  <1>8. Doubled \in Seq(D) /\ Doubled # << >>
    BY DEF Doubled
  <1> QED
    BY <1>4, <1>6, <1>7, <1>8, PartIsFound

-----------------------------------------------------------------------------
\* No stripped line ends in "cr", unless the text has a doubled one.
LEMMA StrippedLines ==
  ASSUME NEW D, "nl" \in D, "cr" \in D, NEW t \in Seq(D), ~(CountMatches(t, Doubled) > 0)
  PROVE  \A i \in 1 .. Len(SplitFrom(t).done) : ~EndsInCr(Strip(SplitFrom(t).done[i]))
  <1> DEFINE T == Seq(D)
             d == SplitFrom(t).done
             l == SplitFrom(t).line
             s == Append(d, l)
  <1>1. d \in Seq(T) /\ l \in T /\ SplitLines(t) = s
    BY TrimmedParts, SplitSteps
  <1>2. JoinLines(s) = t
    BY <1>1, JoinSplit, Zenon
  <1>3. /\ s \in Seq(T) /\ Len(s) = Len(d) + 1 /\ Len(d) \in Nat
        /\ \A i \in 1 .. Len(d) : s[i] = d[i] /\ d[i] \in T
    <2> HIDE DEF T, d, l
    <2> QED
      BY <1>1, AppendProperties, LenProperties, ElementOfSeq
  <1> HIDE DEF s
  <1> SUFFICES ASSUME NEW i \in 1 .. Len(d), EndsInCr(Strip(d[i])) PROVE FALSE
    OBVIOUS
  <1>4. EndsInCr(s[i]) /\ EndsInCr(Strip(s[i])) /\ i \in 1 .. (Len(s) - 1)
    <2> HIDE DEF d
    <2>1. s[i] = d[i] /\ i \in 1 .. (Len(s) - 1)
      BY <1>3
    <2>2. Strip(d[i]) = d[i] => Strip(Strip(d[i])) = Strip(d[i])
      OBVIOUS
    <2> QED
      BY <2>1, <2>2, Zenon DEF EndsInCr, d
  <1>5. CountMatches(JoinLines(s), Doubled) > 0
    BY <1>3, <1>4, LineEndsInCr
  <1> QED
    BY <1>2, <1>5

\* A text is normalized line by line, but for the empty line that its last newline opens.
LEMMA NormLines ==
  ASSUME NEW D, "nl" \in D, NEW t \in Seq(D)
  PROVE  /\ Lines(t) \in Seq(Seq(D))
         /\ Len(Lines(t)) \in Nat /\ Len(Lines(t)) <= Len(SplitFrom(t).done) + 1
         /\ \A i \in 1 .. (Len(Lines(t)) - 1) : Lines(t)[i] = Strip(SplitFrom(t).done[i])
         /\ \E e \in Seq(Seq(D)) : NormalizeNewlines(t) = JoinLines(Mapped(NormOf(D), Lines(t)) \o e)
  <1> DEFINE T == Seq(D)
             d == SplitFrom(t).done
             l == SplitFrom(t).line
             f == NormStripOf(D)
             g == NormOf(D)
             h == StripOf(D)
             m == Mapped(h, d)
             n == Mapped(f, d)
             L == Lines(t)
             y == NormalizeNewlines(l)
  <1>1. d \in Seq(T) /\ l \in T /\ L = IF l = << >> THEN m ELSE Append(m, l)
    BY LinesAre DEF LinesShape
  <1>2. t = JoinLines(Append(d, l))
    BY JoinSplit, SplitSteps, Zenon
  <1>3. /\ f \in [T -> T] /\ g \in [T -> T] /\ h \in [T -> T]
        /\ \A x \in T : /\ f[x] = NormalizeNewlines(Strip(x)) /\ g[x] = NormalizeNewlines(x) /\ h[x] = Strip(x)
                        /\ Strip(x) \in T
    BY LineFunctions, Zenon
  <1>4. y \in T /\ y = g[l]
    BY <1>1, <1>3, LineFunctions, Zenon
  <1>5. NormalizeNewlines(t) = JoinLines(Append(n, y))
    <2>1. NormJoins(D, d, l)
      BY <1>1, NormJoined
    <2> QED
      BY <1>2, <2>1, Zenon DEF NormJoins
  <1> HIDE DEF T, d, l, f, g, h, L, y
  <1>6. /\ m \in Seq(T) /\ Len(m) = Len(d) /\ Len(d) \in Nat
        /\ \A i \in 1 .. Len(d) : m[i] = h[d[i]] /\ d[i] \in T
    BY <1>1, <1>3, MappedType, LenProperties, ElementOfSeq
  <1>7. n \in Seq(T) /\ Len(n) = Len(d) /\ \A i \in 1 .. Len(d) : n[i] = f[d[i]]
    BY <1>1, <1>3, MappedType
  <1> HIDE DEF m, n
  <1>8. n = Mapped(g, m)
    <2> DEFINE k == Mapped(g, m)
    <2>1. k \in Seq(T) /\ Len(k) = Len(d) /\ \A i \in 1 .. Len(d) : k[i] = g[m[i]]
      BY <1>3, <1>6, MappedType
    <2> HIDE DEF k
    <2>2. \A i \in 1 .. Len(k) : n[i] = k[i]
      BY <1>3, <1>6, <1>7, <2>1
    <2>3. n = k
      BY <1>7, <2>1, <2>2, EqualTexts
    <2> QED
      BY <2>3 DEF k
  <1>9. L \in Seq(T) /\ Len(L) \in Nat /\ Len(L) <= Len(d) + 1
        /\ \A i \in 1 .. (Len(L) - 1) : L[i] = Strip(d[i])
    <2>1. CASE l = << >>
      BY <1>1, <1>3, <1>6, <2>1
    <2>2. CASE l # << >>
      <3>1. /\ L \in Seq(T) /\ Len(L) = Len(d) + 1 /\ \A i \in 1 .. Len(d) : L[i] = m[i]
        BY <1>1, <1>6, <2>2, AppendProperties
      <3> QED
        BY <1>3, <1>6, <3>1
    <2> QED
      BY <2>1, <2>2
  <1>10. \E e \in Seq(T) : Append(n, y) = Mapped(g, L) \o e
    <2>1. CASE l = << >>
      <3>1. << y >> \in Seq(T) /\ Append(n, y) = n \o << y >>
        BY <1>4, <1>7
      <3>2. Mapped(g, L) = n
        BY <1>1, <1>8, <2>1
      <3> QED
        BY <3>1, <3>2, Zenon
    <2>2. CASE l # << >>
      <3>1. Mapped(g, L) = Append(Mapped(g, m), g[l])
        <4>1. L = Append(m, l)
          BY <1>1, <2>2
        <4>2. \A s \in Seq(T), x \in T : Mapped(g, Append(s, x)) = Append(Mapped(g, s), g[x])
          BY <1>3, MappedAppend
        <4> QED
          BY <1>1, <1>6, <4>1, <4>2, Zenon
      <3>2. Mapped(g, L) = Append(n, y)
        BY <1>4, <1>8, <3>1, Zenon
      <3> DEFINE a == Append(n, y)
      <3>3. a \in Seq(T)
        BY <1>4, <1>7
      <3> HIDE DEF a
      <3>4. a \o << >> = a /\ << >> \in Seq(T)
        BY <3>3
      <3> QED
        BY <3>2, <3>4, Zenon DEF a
    <2> QED
      BY <2>1, <2>2, Zenon
  <1> QED
    BY <1>5, <1>9, <1>10, Zenon DEF T, L, d, g

\* The lines of a page stand in the text that it was read from.
PageOf(D, base, text) == \E p, u, q \in Seq(Seq(D)) : IsParts(Lines(base), p, u, q) /\ text = JoinLines(u)

Regroups(p, u, q, e) == (p \o u \o q) \o e = p \o u \o (q \o e)
LEMMA FourParts ==
  ASSUME NEW T, NEW p \in Seq(T), NEW u \in Seq(T), NEW q \in Seq(T), NEW e \in Seq(T)
  PROVE  Regroups(p, u, q, e) /\ q \o e \in Seq(T)
  BY DEF Regroups

LEMMA PageIsFound ==
  ASSUME NEW D, "nl" \in D, "cr" \in D, NEW base \in Seq(D), NEW text, PageOf(D, base, text), text # << >>,
         ~(CountMatches(base, Doubled) > 0)
  PROVE  CountMatches(NormalizeNewlines(base), NormalizeNewlines(text)) > 0
  <1> DEFINE T == Seq(D)
             L == Lines(base)
             d == SplitFrom(base).done
             g == NormOf(D)
             whole == NormalizeNewlines(base)
  <1>1. PICK p \in Seq(T), u \in Seq(T), q \in Seq(T) : IsParts(L, p, u, q) /\ text = JoinLines(u)
    BY DEF PageOf
  <1>2. /\ L \in Seq(T) /\ Len(L) \in Nat /\ Len(L) <= Len(d) + 1
        /\ \A i \in 1 .. (Len(L) - 1) : L[i] = Strip(d[i])
        /\ \E e \in Seq(T) : whole = JoinLines(Mapped(g, L) \o e)
    BY NormLines
  <1>3. PICK e \in Seq(T) : whole = JoinLines(Mapped(g, L) \o e)
    BY <1>2
  <1>4. d \in Seq(T) /\ \A i \in 1 .. Len(d) : ~EndsInCr(Strip(d[i]))
    BY StrippedLines, TrimmedParts
  <1>5. g \in [T -> T]
    BY LineFunctions
  <1>6. u # << >>
    <2>1. JoinLines(<< >>) = << >>
      BY DEF JoinLines
    <2> QED
      BY <1>1, <2>1
  <1>7. text \in T
    BY <1>1, JoinedText
  <1> HIDE DEF T, L, d, g, whole
  <1>8. Places(L, T, p, u, q)
    BY <1>1, ThreeTexts DEF IsParts
  <1>9. \A i \in 1 .. (Len(u) - 1) : ~EndsInCr(u[i])
    <2> SUFFICES ASSUME NEW i \in 1 .. (Len(u) - 1) PROVE ~EndsInCr(u[i])
      OBVIOUS
    <2>1. Len(p) \in Nat /\ Len(u) \in Nat /\ Len(q) \in Nat /\ Len(d) \in Nat
      BY <1>4, LenProperties
    <2>2. /\ Len(L) = Len(p) + Len(u) + Len(q) /\ L[Len(p) + i] = u[i]
      BY <1>8, <2>1 DEF Places
    <2>3. Len(p) + i \in 1 .. (Len(L) - 1) /\ Len(p) + i \in 1 .. Len(d)
      BY <1>2, <2>1, <2>2
    <2> QED
      BY <1>2, <1>4, <2>2, <2>3
  <1> DEFINE a == Mapped(g, p)
             m == Mapped(g, u)
             b == Mapped(g, q)
             c == b \o e
  <1>10. NormalizeNewlines(text) = JoinLines(m)
    BY <1>1, <1>6, <1>9, NormPage DEF T, g
  <1>11. a \in Seq(T) /\ m \in Seq(T) /\ b \in Seq(T) /\ m # << >>
    BY <1>5, <1>6, MappedType, Zenon
  <1>12. Mapped(g, L) = a \o m \o b
    <2>1. p \o u \in Seq(T)
      OBVIOUS
    <2>2. Mapped(g, (p \o u) \o q) = Mapped(g, p \o u) \o Mapped(g, q)
      BY <1>5, <2>1, MappedConcat, Zenon
    <2>3. Mapped(g, p \o u) = Mapped(g, p) \o Mapped(g, u)
      BY <1>5, MappedConcat, Zenon
    <2> QED
      BY <1>1, <2>2, <2>3, Zenon DEF IsParts
  <1> HIDE DEF a, m, b
  <1>13. whole = JoinLines(a \o m \o c) /\ c \in Seq(T)
    <2>1. Regroups(a, m, b, e) /\ b \o e \in Seq(T)
      BY <1>11, FourParts
    <2> QED
      BY <1>3, <1>12, <2>1, Zenon DEF Regroups
  <1> HIDE DEF c
  <1>14. /\ Above(a) \in T /\ JoinLines(m) \in T /\ Below(c) \in T
         /\ IsParts(whole, Above(a), JoinLines(m), Below(c))
    <2>1. /\ Above(a) \in T /\ JoinLines(m) \in T /\ Below(c) \in T
          /\ JoinLines(a \o m \o c) = Above(a) \o JoinLines(m) \o Below(c)
      BY <1>11, <1>13, JoinAround, Zenon DEF T
    <2> QED
      BY <1>13, <2>1, Zenon DEF IsParts
  <1>15. JoinLines(m) # << >>
    BY <1>7, <1>10, NormOfSome DEF T
  <1> QED
    BY <1>10, <1>14, <1>15, PartIsFound DEF whole, T

\* What stands in the file up to newlines is found.
LEMMA FuzzyFinds ==
  ASSUME NEW base, NEW old, NEW new, CountMatches(NormalizeNewlines(base), NormalizeNewlines(old)) > 0
  PROVE  FuzzyReplace(base, old, new).kind \in {"edited", "ambiguous"}
  <1> DEFINE whole == NormalizeNewlines(base)
             older == NormalizeNewlines(old)
             newer == NormalizeNewlines(new)
             trimmed == Trimmed(older)
             found == << CountMatches(base, old), CountMatches(whole, older), CountMatches(whole, trimmed) >>
             levels == {n \in DOMAIN found : found[n] > 0}
             decides == Min(levels)
             byLine == LineByLineReplace(whole, older, newer)
             answer == FuzzyReplace(base, old, new)
  <1>1. answer = IF levels = {} THEN [byLine EXCEPT !.text = Restored(base, @)]
                 ELSE IF found[decides] > 1 THEN Refused("ambiguous")
                 ELSE CASE decides = 1 -> Replaced(ReplaceFirst(base, old, new))
                        [] decides = 2 -> Replaced(Restored(base, ReplaceFirst(whole, older, newer)))
                        [] decides = 3 -> Replaced(Restored(base, ReplaceFirst(whole, trimmed, newer)))
    BY DEF FuzzyReplace, NormalizedOldText
  <1>2. DOMAIN found = 1 .. 3 /\ found[2] > 0
    OBVIOUS
  <1>3. 2 \in levels /\ levels \subseteq Nat
    BY <1>2
  <1> HIDE DEF answer, byLine, found
  <1>4. decides \in 1 .. 3
    BY <1>2, <1>3, MinOfSome
  <1> HIDE DEF decides, levels
  <1>5. \A t : Replaced(t).kind = "edited" /\ Refused("ambiguous").kind = "ambiguous"
    BY DEF Replaced, Refused
  <1>6. CASE decides = 1
    BY <1>1, <1>3, <1>5, <1>6 DEF answer
  <1>7. CASE decides = 2
    BY <1>1, <1>3, <1>5, <1>7 DEF answer
  <1>8. CASE decides = 3
    BY <1>1, <1>3, <1>5, <1>8 DEF answer
  <1> QED
    BY <1>4, <1>6, <1>7, <1>8

-----------------------------------------------------------------------------
\* The last edit is one of one block.
EditIsOneBlock ==
  Edited => OneBlock(NormalizeNewlines(lastCall.base), NormalizeNewlines(lastCall.edited),
                     Essence(lastCall.old), Essence(lastCall.new))

\* The page that was shown last, and the edit that is under way, are of texts.
FilesInv ==
  /\ file = Missing \/ file \in FileTexts
  /\ lastCall.tool \in {"none", "read_file", "write_file", "edit_file", "grep", "refused"}
  /\ lastCall.tool = "read_file" =>
       /\ lastCall.base \in FileTexts /\ lastCall.text \in FileTexts
       /\ lastCall.next \in 0 .. Len(Lines(lastCall.base))
       /\ PageOf(White \cup Words, lastCall.base, lastCall.text)
  /\ Edited => lastCall.base # Missing /\ lastCall.edited \in FileTexts
  /\ writing => Edited
  /\ PagesCoverFile
  /\ EditIsOneBlock
  /\ ShownTextIsEditable

\* read_file shows the page that follows, and the lines up to it are all shown.
LEMMA ReadFileKeeps ==
  ASSUME FilesInv, NEW count \in LineCounts, NEW start \in 1 .. MaxLine, ReadFile(start, count)
  PROVE  FilesInv'
  <1> DEFINE page == Page(file, start, count)
             before == IF start = 1 THEN << >> ELSE lastCall.pages
             L == Lines(file)
             call == [tool |-> "read_file", base |-> file, text |-> JoinLines(page.lines),
                      pages |-> before \o page.lines, next |-> page.next]
  <1>1. UNCHANGED << file, writing >> /\ ~writing /\ lastCall' = call
    BY DEF ReadFile, Answers
  <1>2. file \in FileTexts
    BY DEF ReadFile, Resolves, FilesInv
  <1>3. start \in Nat \ {0}
    BY FileToolsAssumption
  <1>4. L \in Seq(FileTexts) /\ Len(L) \in Nat
    BY <1>2, LinesOfText
  <1>5. start # 1 => start \in 1 .. Len(L) /\ before = SubSeq(L, 1, start - 1)
    <2>1. start # 1 => lastCall.tool = "read_file" /\ lastCall.base = file /\ start = lastCall.next
      BY DEF ReadFile, Shown
    <2>2. start # 1 => lastCall.next \in 0 .. Len(L) /\ lastCall.pages = SubSeq(L, 1, lastCall.next - 1)
      BY <1>3, <2>1, Zenon DEF FilesInv, PagesCoverFile
    <2> QED
      BY <1>3, <1>4, <2>1, <2>2
  <1>6. start <= Len(L) + 1
    BY <1>3, <1>4, <1>5
  <1>7. PICK last \in (start - 1) .. Len(L) :
           /\ page = [lines |-> SubSeq(L, start, last), next |-> ContinuesAt(last, Len(L))]
           /\ SubSeq(L, start, last) \in Seq(FileTexts)
           /\ ContinuesAt(last, Len(L)) \in 0 .. Len(L)
           /\ ContinuesAt(last, Len(L)) = (IF last = Len(L) THEN 0 ELSE last + 1)
    BY <1>2, <1>3, <1>6, PageFacts, Zenon
  <1> HIDE DEF page, L
  <1>8. page.lines = SubSeq(L, start, last) /\ page.next = ContinuesAt(last, Len(L))
        /\ JoinLines(page.lines) \in FileTexts
    <2>1. page.lines = SubSeq(L, start, last) /\ page.next = ContinuesAt(last, Len(L))
      BY <1>7
    <2>2. "nl" \in White \cup Words /\ FileTexts = Seq(White \cup Words)
      BY DEF White, FileTexts
    <2>3. \A u \in Seq(FileTexts) : JoinLines(u) \in FileTexts
      BY <2>2, JoinedText
    <2> QED
      BY <1>7, <2>1, <2>3, Zenon
  <1>9. before \o page.lines = SubSeq(L, 1, last)
    <2>1. CASE start = 1
      BY <1>4, <1>7, <1>8, <2>1, PartsMeet
    <2>2. CASE start # 1
      <3>1. start - 1 \in 0 .. Len(L) /\ last \in (start - 1) .. Len(L) /\ (start - 1) + 1 = start
        BY <1>3, <1>4, <1>5, <1>7, <2>2
      <3>2. SubSeq(L, 1, start - 1) \o SubSeq(L, (start - 1) + 1, last) = SubSeq(L, 1, last)
        BY <1>4, <3>1, PartsMeet
      <3> QED
        BY <1>5, <1>8, <2>2, <3>1, <3>2, Zenon
    <2> QED
      BY <2>1, <2>2, Zenon
  <1>10. SubSeq(L, 1, Len(L)) = L
    BY <1>4, PartsMeet
  <1>11. call.pages = IF call.next = 0 THEN L ELSE SubSeq(L, 1, call.next - 1)
    <2>1. call.pages = before \o page.lines /\ call.next = page.next
      BY Zenon
    <2>2. last # Len(L) => last + 1 # 0 /\ (last + 1) - 1 = last
      BY <1>3, <1>4
    <2> HIDE DEF before, call
    <2> QED
      BY <1>7, <1>8, <1>9, <1>10, <2>1, <2>2, Zenon
  <1>12. call.next \in 0 .. Len(L)
    BY <1>7, <1>8
  <1>13. call.tool = "read_file" /\ call.base = file /\ call.text = JoinLines(page.lines)
    OBVIOUS
  <1> HIDE DEF call
  <1>14. PageOf(White \cup Words, file, JoinLines(page.lines))
    <2> DEFINE T == FileTexts
               i == start - 1
    <2>1. T = Seq(White \cup Words)
      BY DEF FileTexts
    <2> HIDE DEF T
    <2>2. i \in 0 .. Len(L) /\ last \in i .. Len(L) /\ i + 1 = start
      BY <1>3, <1>4, <1>6, <1>7
    <2> HIDE DEF i
    <2>3. L \in Seq(T)
      BY <1>4 DEF T
    <2>4. /\ SubSeq(L, 1, i) \in Seq(T) /\ SubSeq(L, i + 1, last) \in Seq(T) /\ SubSeq(L, last + 1, Len(L)) \in Seq(T)
          /\ L = SubSeq(L, 1, i) \o SubSeq(L, i + 1, last) \o SubSeq(L, last + 1, Len(L))
      BY <2>2, <2>3, CutInThree, Zenon
    <2>5. IsParts(L, SubSeq(L, 1, i), page.lines, SubSeq(L, last + 1, Len(L))) /\ page.lines \in Seq(T)
      BY <1>8, <2>2, <2>4, Zenon DEF IsParts
    <2> QED
      BY <2>1, <2>4, <2>5, Zenon DEF PageOf, L
  <1> QED
    BY <1>1, <1>2, <1>8, <1>11, <1>12, <1>13, <1>14 DEF FilesInv, PagesCoverFile, EditIsOneBlock, Edited, ShownTextIsEditable, L

\* fuzzy_replace is asked with texts: old_text is an argument or what was shown.
LEMMA EditReadKeeps ==
  ASSUME FilesInv, NEW old \in FileTexts, NEW new \in NewTexts, EditRead(old, new)
  PROVE  FilesInv'
  <1> DEFINE answer == FuzzyReplace(file, old, new)
  <1>1. file \in FileTexts /\ file # Missing /\ new \in FileTexts
    BY FileToolsAssumption DEF EditRead, Editable
  <1>2. answer.kind = "edited" =>
          /\ answer.text \in FileTexts
          /\ OneBlock(NormalizeNewlines(file), NormalizeNewlines(answer.text), Essence(old), Essence(new))
    BY <1>1, EditedIsOneBlock
  <1> HIDE DEF answer
  <1>3. lastCall' = [tool |-> "edit_file", kind |-> answer.kind, base |-> file, old |-> old, new |-> new,
                     edited |-> answer.text, shown |-> Shown /\ old = lastCall.text]
    BY DEF EditRead, Answers, answer
  <1>4. writing' = (answer.kind = "edited") /\ UNCHANGED file
    BY DEF EditRead, answer
  <1>5. Shown /\ old = lastCall.text /\ ~Blank(old) /\ ~(CountMatches(file, Doubled) > 0)
          => answer.kind \in {"edited", "ambiguous"}
    <2> SUFFICES ASSUME Shown, old = lastCall.text, ~Blank(old), ~(CountMatches(file, Doubled) > 0)
                 PROVE  answer.kind \in {"edited", "ambiguous"}
      OBVIOUS
    <2> DEFINE D == White \cup Words
    <2>1. PageOf(D, file, old)
      BY DEF Shown, FilesInv
    <2>2. "nl" \in D /\ "cr" \in D /\ file \in Seq(D)
      BY <1>1 DEF White, FileTexts
    <2>3. old # << >>
      BY BlankOfOne
    <2> HIDE DEF D
    <2>4. CountMatches(NormalizeNewlines(file), NormalizeNewlines(old)) > 0
      BY <2>1, <2>2, <2>3, PageIsFound
    <2> QED
      BY <2>4, FuzzyFinds DEF answer
  <1>6. ShownTextIsEditable'
    <2>1. /\ lastCall'.kind = answer.kind /\ lastCall'.base = file /\ lastCall'.old = old
          /\ lastCall'.shown => Shown /\ old = lastCall.text
      BY <1>3, Zenon
    <2> QED
      BY <1>5, <2>1 DEF ShownTextIsEditable, Doubled
  <1> QED
    BY <1>1, <1>2, <1>3, <1>4, <1>6, Zenon DEF FilesInv, PagesCoverFile, EditIsOneBlock, Edited

\* Every step of the tools and of other writers.
LEMMA FilesStep == FilesInv /\ [FilesNext]_fileVars => FilesInv'
  <1> SUFFICES ASSUME FilesInv, [FilesNext]_fileVars PROVE FilesInv'
    OBVIOUS
  <1>1. ASSUME NEW count \in LineCounts, NEW start \in 1 .. MaxLine, ReadFile(start, count) PROVE FilesInv'
    BY <1>1, ReadFileKeeps
  <1>2. \A t \in FileTexts : \A f : f \in AfterWriting(t) => f = file \/ f \in FileTexts
    <2>1. << >> \in FileTexts
      BY DEF FileTexts
    <2> QED
      BY <2>1 DEF AfterWriting
  <1>3. ASSUME NEW t \in NewTexts, WriteFile(t) PROVE FilesInv'
    <2>1. file' = file \/ file' \in FileTexts
      BY <1>2, <1>3, FileToolsAssumption DEF WriteFile
    <2> QED
      BY <1>3, <2>1 DEF WriteFile, Answers, FilesInv, PagesCoverFile, EditIsOneBlock, Edited, ShownTextIsEditable
  <1>4. ASSUME NEW old \in OldTexts, NEW new \in NewTexts, EditRead(old, new) PROVE FilesInv'
    BY <1>4, EditReadKeeps, FileToolsAssumption
  <1>5. ASSUME NEW new \in NewTexts, Shown, EditRead(lastCall.text, new) PROVE FilesInv'
    BY <1>5, EditReadKeeps, Zenon DEF Shown, FilesInv
  <1>6. CASE EditWrite
    <2>1. file' = file \/ file' \in FileTexts
      BY <1>2, <1>6 DEF EditWrite, FilesInv
    <2> QED
      BY <1>6, <2>1 DEF EditWrite, FilesInv, PagesCoverFile, EditIsOneBlock, Edited, ShownTextIsEditable
  <1>7. CASE Grep
    <2>1. lastCall'.tool = "grep" /\ ~writing /\ UNCHANGED << file, writing >>
      BY <1>7 DEF Grep, Answers, SearchAnswers
    <2> QED
      BY <2>1 DEF FilesInv, PagesCoverFile, EditIsOneBlock, Edited, ShownTextIsEditable
  <1>8. CASE Refuse
    BY <1>8 DEF Refuse, Answers, FilesInv, PagesCoverFile, EditIsOneBlock, Edited, ShownTextIsEditable
  <1>9. CASE ForeignWrite
    <2>1. file' = Missing \/ file' \in FileTexts
      BY <1>9, FileToolsAssumption DEF ForeignWrite
    <2> QED
      BY <1>9, <2>1 DEF ForeignWrite, FilesInv, PagesCoverFile, EditIsOneBlock, Edited, ShownTextIsEditable
  <1>10. CASE UNCHANGED fileVars
    BY <1>10 DEF fileVars, FilesInv, PagesCoverFile, EditIsOneBlock, Edited, ShownTextIsEditable
  <1> QED
    BY <1>1, <1>3, <1>4, <1>5, <1>6, <1>7, <1>8, <1>9, <1>10 DEF FilesNext

LEMMA FilesBegin == FilesInit => FilesInv
  BY FileToolsAssumption DEF FilesInit, FilesInv, PagesCoverFile, EditIsOneBlock, Edited, ShownTextIsEditable

\* Reading on at the line that read_file names gives every line of a file once, for any
\* texts, line counts and limit (format_range_output).
THEOREM PagesAreWhole == FilesSpec => []PagesCoverFile
  <1>1. FilesInv => PagesCoverFile
    BY DEF FilesInv
  <1> QED
    BY <1>1, FilesBegin, FilesStep, PTL DEF FilesSpec

\* Every reachable state of the file tools is well typed: what the tools write, whichever
\* level of fuzzy_replace has matched, is a text again.
THEOREM FilesTypeCorrect == FilesSpec => []FilesTypeOK
  <1>1. FilesInv => FilesTypeOK
    BY DEF FilesInv, FilesTypeOK
  <1> QED
    BY <1>1, FilesBegin, FilesStep, PTL DEF FilesSpec

\* Whichever level of the fallback chain finds it, an edit puts new_text where one block
\* that reads like old_text was and leaves every other character of the file as it was,
\* for any file, old_text and new_text (fuzzy_replace, line_by_line_replace).
THEOREM OnlyOneBlockChanges == FilesSpec => []EditsOneBlock
  <1>1. FilesInv => EditsOneBlock
    BY Zenon DEF FilesInv, EditIsOneBlock, OneBlock, EditsOneBlock
  <1> QED
    BY <1>1, FilesBegin, FilesStep, PTL DEF FilesSpec

\* What read_file has shown can be edited: with a page that is not blank as its old_text,
\* edit_file finds the page in the file it was read from, for any file, page and new_text,
\* unless a \r stands before a \r\n of the file (format_range_output, fuzzy_replace).
THEOREM ShownTextIsFound == FilesSpec => []ShownTextIsEditable
  <1>1. FilesInv => ShownTextIsEditable
    BY DEF FilesInv
  <1> QED
    BY <1>1, FilesBegin, FilesStep, PTL DEF FilesSpec

-----------------------------------------------------------------------------
(***************************************************************************)
(* The four together (MCLeaves).                                           *)
(***************************************************************************)

\* Each of the four behaves as if it ran alone: a step of the run is a step of one
\* of them and leaves the others as they are.
THEOREM LeavesRunAlone == LeavesSpec => Spec /\ TokenSpec /\ SkillsSpec /\ FilesSpec
  <1>1. LeavesInit => Init /\ TokenInit /\ SkillsInit /\ FilesInit
    BY DEF LeavesInit
  <1>2. [LeavesNext]_leafVars
          => [Next]_vars /\ [TokenNext]_tokenVars /\ [SkillsNext]_skillVars /\ [FilesNext]_fileVars
    BY DEF LeavesNext, leafVars
  <1> QED
    BY <1>1, <1>2, PTL DEF LeavesSpec, Spec, TokenSpec, SkillsSpec, FilesSpec

\* Every reachable state of the four components is well typed, for any constants.
THEOREM LeavesTypeCorrect == LeavesSpec => []TypesOK
  <1>1. SkillsInv => SkillsTypeOK
    BY DEF SkillsInv
  <1>2. TypeOK /\ TokenTypeOK /\ SkillsTypeOK /\ FilesTypeOK => TypesOK
    BY DEF TypesOK
  <1> QED
    BY <1>1, <1>2, LeavesRunAlone, CallTypeCorrect, TokenTypeCorrect, SkillsInvariant, FilesTypeCorrect, PTL
=============================================================================
