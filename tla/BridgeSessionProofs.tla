------------------------ MODULE BridgeSessionProofs ------------------------
(***************************************************************************)
(* Proofs about one window session (BridgeSession), for any symbols, any   *)
(* number of stops, requests and removals, and a viewer of any slowness:   *)
(* once a stop whose handler got its own answer has been worked off, what  *)
(* is on display and in scope is of that stop.                             *)
(***************************************************************************)
EXTENDS BridgeSession, FiniteSetTheorems, FunctionTheorems, SequenceTheorems, TLAPS

IsPlot(m) == m.type = "PLOT_BUFFER_CONTENTS"
IsQuestion(m) == m.type = "GET_OBSERVED_SYMBOLS"
IsResponse(m) == m.type = "GET_OBSERVED_SYMBOLS_RESPONSE"

\* Questions and answers carry the number of a stop that was; before the first
\* nothing can be plotted.
Numbered(k, scope, out, back, stored, taken) ==
    /\ scope # {} => k > 0
    /\ \A m \in ToSet(out) : IsQuestion(m) => m.asked <= k
    /\ \A m \in ToSet(back) : IsResponse(m) => m.asked <= k
    /\ stored.asked <= k /\ taken.asked <= k

\* Stop k's question is asked once, and what was plotted before it comes before it.
Asked(k, out) ==
    /\ \A i, j \in DOMAIN out :
          out[i] = get_observed_symbols(k) /\ out[j] = get_observed_symbols(k) => i = j
    /\ \A j \in DOMAIN out :
          IsPlot(out[j]) /\ out[j].content # k =>
              \E i \in DOMAIN out : i > j /\ out[i] = get_observed_symbols(k)

\* Stop k's question was answered, and since then only what is among these names
\* is displayed as it was before stop k.
Covered(k, out, display, names) ==
    /\ get_observed_symbols(k) \notin ToSet(out)
    /\ \A n \in Symbols : display[n] \in {0, k} \/ n \in names

\* The answer to stop k's question, wherever it is.
Answered(k, out, back, stored, display) ==
    /\ \A m \in ToSet(back) :
          IsResponse(m) /\ m.asked = k => Covered(k, out, display, m.names)
    /\ stored.asked = k /\ k > 0 => Covered(k, out, display, stored.names)

\* The buffers that are still to be plotted or on their way.
Coming(scope, q, out) ==
    (Symbols \ scope) \cup ToSet(q) \cup {m.name : m \in {p \in ToSet(out) : IsPlot(p)}}

\* Once the handler took the answer, every buffer shown as it was before is coming.
Taken(k, scope, q, out, display) == Covered(k, out, display, Coming(scope, q, out))

\* The inductive invariant.
Inv ==
    /\ TypeOK
    /\ Numbered(stop, in_scope, to_window, to_bridge, stored_response, answer)
    /\ Asked(stop, to_window)
    /\ Answered(stop, to_window, to_bridge, stored_response, shown)
    /\ ~closed /\ answer = [stop |-> stop, asked |-> stop] =>
          Taken(stop, in_scope, queue, to_window, shown)
-----------------------------------------------------------------------------
(* Sequences *)

\* A concatenation, by position and by elements.
LEMMA Joined ==
    ASSUME NEW S, NEW s \in Seq(S), NEW t \in Seq(S)
    PROVE  /\ s \o t \in Seq(S) /\ ToSet(s \o t) = ToSet(s) \cup ToSet(t)
           /\ DOMAIN s = 1..Len(s) /\ DOMAIN t = 1..Len(t) /\ DOMAIN (s \o t) = 1..(Len(s) + Len(t))
           /\ Len(s) \in Nat /\ Len(t) \in Nat
           /\ \A i \in 1..Len(s) : (s \o t)[i] = s[i]
           /\ \A i \in 1..Len(t) : (s \o t)[Len(s) + i] = t[i]
<1> DEFINE r == s \o t
           m == Len(s)
           n == Len(t)
<1>1. /\ r \in Seq(S) /\ m \in Nat /\ n \in Nat
      /\ DOMAIN s = 1..m /\ DOMAIN t = 1..n /\ DOMAIN r = 1..(m + n)
      /\ \A i \in 1..(m + n) : r[i] = IF i <= m THEN s[i] ELSE t[i - m]
  BY ConcatProperties, LenProperties
<1> HIDE DEF r, m, n
<1>2. \A i \in 1..m : i \in 1..(m + n) /\ r[i] = s[i]
  BY <1>1
<1>3. \A i \in 1..n : m + i \in 1..(m + n) /\ ~(m + i <= m) /\ (m + i) - m = i
  BY <1>1
<1>4. \A i \in 1..n : r[m + i] = t[i]
  BY <1>1, <1>3
<1>5. \A i \in 1..(m + n) : i \in 1..m \/ \E k \in 1..n : i = m + k
  <2> SUFFICES ASSUME NEW i \in 1..(m + n), i \notin 1..m PROVE \E k \in 1..n : i = m + k
    OBVIOUS
  <2>1. i - m \in 1..n /\ i = m + (i - m)
    BY <1>1
  <2> QED
    BY <2>1
<1>6. /\ ToSet(s) = {s[i] : i \in 1..m} /\ ToSet(t) = {t[i] : i \in 1..n}
      /\ ToSet(r) = {r[i] : i \in 1..(m + n)}
  BY <1>1 DEF ToSet
<1>7. \A i \in 1..(m + n) : r[i] \in ToSet(s) \cup ToSet(t)
  BY <1>2, <1>4, <1>5, <1>6
<1>8. \A i \in 1..n : t[i] \in ToSet(r)
  BY <1>3, <1>4, <1>6
<1>9. ToSet(r) = ToSet(s) \cup ToSet(t)
  BY <1>2, <1>6, <1>7, <1>8
<1> QED
  BY <1>1, <1>2, <1>4, <1>9 DEF r, m, n

\* One element more.
LEMMA Appended ==
    ASSUME NEW S, NEW s \in Seq(S), NEW e \in S
    PROVE  /\ Append(s, e) \in Seq(S) /\ ToSet(Append(s, e)) = ToSet(s) \cup {e}
           /\ Append(s, e) = s \o <<e>> /\ <<e>> \in Seq(S) /\ ToSet(<<e>>) = {e}
<1>1. Append(s, e) = s \o <<e>> /\ <<e>> \in Seq(S)
  OBVIOUS
<1>2. ToSet(<<e>>) = {e}
  <2>1. DOMAIN <<e>> = {1} /\ <<e>>[1] = e
    OBVIOUS
  <2> QED
    BY <2>1 DEF ToSet
<1>3. ToSet(s \o <<e>>) = ToSet(s) \cup ToSet(<<e>>) /\ s \o <<e>> \in Seq(S)
  BY <1>1, Joined, ZenonT(30)
<1> QED
  BY <1>1, <1>2, <1>3

\* One or two elements.
LEMMA OneOrTwo ==
    ASSUME NEW S, NEW e \in S, NEW f \in S
    PROVE  /\ <<e>> \in Seq(S) /\ ToSet(<<e>>) = {e} /\ <<e>> # <<>>
           /\ Head(<<e>>) = e /\ Tail(<<e>>) = <<>>
           /\ <<e>> \o <<f>> # <<>> /\ Head(<<e>> \o <<f>>) = e /\ Tail(<<e>> \o <<f>>) = <<f>>
<1>1. <<>> \in Seq(S)
  OBVIOUS
<1>2. ToSet(<<e>>) = {e} /\ <<e>> \in Seq(S)
  BY <1>1, Appended
<1>3. <<f>> \in Seq(S)
  BY <1>1, Appended
<1>4. <<e>> # <<>> /\ Head(<<e>>) = e /\ Tail(<<e>>) = <<>>
  OBVIOUS
<1> DEFINE s == <<e>>
           t == <<f>>
           r == s \o t
<1>5. s \in Seq(S) /\ t \in Seq(S) /\ Len(s) = 1 /\ Len(t) = 1 /\ s[1] = e /\ t[1] = f
  BY <1>2, <1>3
<1> HIDE DEF s, t
<1>6. r \in Seq(S) /\ DOMAIN r = 1..2 /\ r[1] = e /\ r[2] = f /\ Len(r) = 2
  BY <1>5, ConcatProperties
<1> HIDE DEF r
<1>7. r # <<>> /\ Head(r) = e /\ Tail(r) \in Seq(S) /\ Len(Tail(r)) = 1 /\ Tail(r)[1] = f
  BY <1>6
<1>8. Tail(r) = t
  <2>1. Len(Tail(r)) = Len(t) /\ \A i \in 1..Len(Tail(r)) : Tail(r)[i] = t[i]
    BY <1>5, <1>7
  <2> QED
    BY <1>5, <1>7, <2>1, SeqEqual
<1> QED
  BY <1>2, <1>4, <1>7, <1>8 DEF r, s, t

\* The first element and the others.
LEMMA Split ==
    ASSUME NEW S, NEW s \in Seq(S), s # <<>>
    PROVE  /\ Head(s) \in S /\ Head(s) \in ToSet(s) /\ Tail(s) \in Seq(S)
           /\ ToSet(s) = {Head(s)} \cup ToSet(Tail(s))
           /\ Len(s) \in Nat \ {0} /\ DOMAIN s = 1..Len(s) /\ DOMAIN Tail(s) = 1..(Len(s) - 1)
           /\ Head(s) = s[1] /\ \A i \in 1..(Len(s) - 1) : Tail(s)[i] = s[i + 1]
<1> DEFINE r == Tail(s)
           m == Len(s)
<1>1. /\ m \in Nat \ {0} /\ DOMAIN s = 1..m /\ r \in Seq(S) /\ DOMAIN r = 1..(m - 1)
      /\ Head(s) = s[1] /\ Head(s) \in S /\ \A i \in 1..(m - 1) : r[i] = s[i + 1]
  OBVIOUS
<1> HIDE DEF r, m
<1>2. 1 \in 1..m /\ \A i \in 1..(m - 1) : i + 1 \in 1..m
  BY <1>1
<1>3. \A i \in 1..m : i = 1 \/ \E k \in 1..(m - 1) : i = k + 1
  <2> SUFFICES ASSUME NEW i \in 1..m, i # 1 PROVE \E k \in 1..(m - 1) : i = k + 1
    OBVIOUS
  <2>1. i - 1 \in 1..(m - 1) /\ i = (i - 1) + 1
    BY <1>1
  <2> QED
    BY <2>1
<1>4. ToSet(s) = {s[i] : i \in 1..m} /\ ToSet(r) = {r[i] : i \in 1..(m - 1)}
  BY <1>1 DEF ToSet
<1>5. ToSet(s) = {Head(s)} \cup ToSet(r)
  BY <1>1, <1>2, <1>3, <1>4, SMTT(20)
<1> QED
  BY <1>1, <1>5 DEF r, m

\* An empty one.
LEMMA Empty == ToSet(<<>>) = {} /\ \A S : <<>> \in Seq(S)
BY DEF ToSet

\* A finite set laid out as a sequence.
LEMMA LaidOut ==
    ASSUME NEW S, NEW T, IsFiniteSet(T), T \subseteq S
    PROVE  SetToSeq(T) \in Seq(S) /\ ToSet(SetToSeq(T)) = T
<1> DEFINE n == Cardinality(T)
           f == SetToSeq(T)
<1>1. n \in Nat
  BY FS_CardinalityType
<1>2. PICK g : g \in Bijection(1..n, T)
  BY FS_CardinalityType DEF ExistsBijection
<1>3. g \in [1..n -> T] /\ IsInjective(g)
  BY <1>2 DEF Bijection, Injection, Surjection, IsInjective
<1>4. f \in [1..n -> T] /\ IsInjective(f)
  BY <1>3 DEF SetToSeq
<1>5. Cardinality(1..n) = n /\ IsFiniteSet(1..n)
  BY <1>1, FS_Interval
<1> HIDE DEF n, f
<1>6. f \in Injection(1..n, T)
  BY <1>4 DEF Injection, IsInjective
<1>7. f \in Surjection(1..n, T)
  BY <1>5, <1>6, FS_Injection DEF n
<1>8. \A t \in T : \E i \in 1..n : f[i] = t
  BY <1>7 DEF Surjection
<1>9. ToSet(f) = T
  BY <1>4, <1>8 DEF ToSet
<1>10. f \in Seq(S)
  BY <1>1, <1>4
<1> QED
  BY <1>9, <1>10 DEF f
-----------------------------------------------------------------------------
(* The stream *)

\* The window takes a message: what is left keeps its order, and the buffers that
\* come after stop k's question are of stop k.
LEMMA AskedTail ==
    ASSUME NEW k, NEW out \in Seq(Messages), out # <<>>, Asked(k, out)
    PROVE  /\ Asked(k, Tail(out))
           /\ Head(out) = get_observed_symbols(k) => get_observed_symbols(k) \notin ToSet(Tail(out))
           /\ get_observed_symbols(k) \notin ToSet(out) /\ IsPlot(Head(out)) => Head(out).content = k
<1> DEFINE q == get_observed_symbols(k)
           r == Tail(out)
           m == Len(out)
<1>1. /\ m \in Nat \ {0} /\ DOMAIN out = 1..m /\ DOMAIN r = 1..(m - 1)
      /\ Head(out) = out[1] /\ \A i \in 1..(m - 1) : r[i] = out[i + 1]
  BY Split
<1>2. /\ \A i, j \in 1..m : out[i] = q /\ out[j] = q => i = j
      /\ \A j \in 1..m : IsPlot(out[j]) /\ out[j].content # k =>
            \E i \in 1..m : i > j /\ out[i] = q
  BY <1>1 DEF Asked
<1> HIDE DEF q, r, m
<1>3. 1 \in 1..m /\ \A i \in 1..(m - 1) : i + 1 \in 1..m /\ i + 1 # 1
  BY <1>1
<1>4. \A i, j \in 1..(m - 1) : r[i] = q /\ r[j] = q => i = j
  <2> TAKE i, j \in 1..(m - 1)
  <2> HAVE r[i] = q /\ r[j] = q
  <2>1. i + 1 = j + 1
    BY <1>1, <1>2, <1>3
  <2> QED
    BY <1>1, <2>1
<1>5. ASSUME NEW j \in 1..(m - 1), IsPlot(r[j]), r[j].content # k
      PROVE  \E i \in 1..(m - 1) : i > j /\ r[i] = q
  <2>1. PICK i \in 1..m : i > j + 1 /\ out[i] = q
    BY <1>1, <1>2, <1>3, <1>5
  <2>2. i - 1 \in 1..(m - 1) /\ i - 1 > j /\ (i - 1) + 1 = i
    BY <1>1, <2>1
  <2> QED
    BY <1>1, <2>1, <2>2
<1>6. out[1] = q => \A i \in 1..(m - 1) : r[i] # q
  BY <1>1, <1>2, <1>3
<1>7. (\A i \in 1..m : out[i] # q) /\ IsPlot(out[1]) => out[1].content = k
  BY <1>2, <1>3
<1> QED
  BY <1>1, <1>4, <1>5, <1>6, <1>7 DEF Asked, ToSet, q, r

\* The bridge sends messages other than stop k's question, the buffers among them
\* of stop k.
LEMMA AskedSend ==
    ASSUME NEW k, NEW out \in Seq(Messages), NEW ms \in Seq(Messages), Asked(k, out),
           \A m \in ToSet(ms) : m # get_observed_symbols(k) /\ (IsPlot(m) => m.content = k)
    PROVE  Asked(k, out \o ms)
<1> DEFINE q == get_observed_symbols(k)
           r == out \o ms
           a == Len(out)
           b == Len(ms)
<1>1. /\ a \in Nat /\ b \in Nat /\ DOMAIN out = 1..a /\ DOMAIN ms = 1..b /\ DOMAIN r = 1..(a + b)
      /\ \A i \in 1..a : r[i] = out[i]
      /\ \A i \in 1..b : r[a + i] = ms[i]
  BY Joined
<1>2. /\ \A i, j \in 1..a : out[i] = q /\ out[j] = q => i = j
      /\ \A j \in 1..a : IsPlot(out[j]) /\ out[j].content # k =>
            \E i \in 1..a : i > j /\ out[i] = q
  BY <1>1 DEF Asked
<1>3. \A i \in 1..b : ms[i] # q /\ (IsPlot(ms[i]) => ms[i].content = k)
  BY <1>1 DEF ToSet
<1> HIDE DEF q, r, a, b
<1>4. \A i \in 1..(a + b) : i \in 1..a \/ (i - a \in 1..b /\ i = a + (i - a))
  BY <1>1
<1>5. ASSUME NEW i \in 1..(a + b), r[i] = q
      PROVE  i \in 1..a /\ out[i] = q
  <2>1. CASE i \in 1..a
    BY <1>1, <1>5, <2>1, Zenon
  <2>2. CASE i - a \in 1..b /\ i = a + (i - a)
    <3>1. r[i] = ms[i - a]
      BY <1>1, <2>2, Zenon
    <3> QED
      BY <1>3, <1>5, <2>2, <3>1, Zenon
  <2> QED
    BY <1>4, <2>1, <2>2, Zenon
<1>6. ASSUME NEW j \in 1..(a + b), IsPlot(r[j]), r[j].content # k
      PROVE  \E i \in 1..(a + b) : i > j /\ r[i] = q
  <2>1. j \in 1..a /\ r[j] = out[j]
    <3>1. CASE j \in 1..a
      BY <1>1, <3>1, Zenon
    <3>2. CASE j - a \in 1..b /\ j = a + (j - a)
      <4>1. r[j] = ms[j - a]
        BY <1>1, <3>2, Zenon
      <4> QED
        BY <1>3, <1>6, <3>2, <4>1, Zenon
    <3> QED
      BY <1>4, <1>6, <3>1, <3>2, Zenon
  <2>2. PICK i \in 1..a : i > j /\ out[i] = q
    BY <1>2, <1>6, <2>1
  <2>3. i \in 1..(a + b) /\ r[i] = q
    BY <1>1, <2>2
  <2> QED
    BY <2>2, <2>3
<1> QED
  BY <1>1, <1>2, <1>5, <1>6 DEF Asked, q, r

\* The bridge asks for the first time at stop k: all it had sent comes before.
LEMMA AskedAnew ==
    ASSUME NEW k, NEW out \in Seq(Messages), NEW ms \in Seq(Messages), ms # <<>>,
           get_observed_symbols(k) \notin ToSet(out), Head(ms) = get_observed_symbols(k),
           \A m \in ToSet(Tail(ms)) : m # get_observed_symbols(k) /\ ~IsPlot(m)
    PROVE  Asked(k, out \o ms)
<1> DEFINE q == get_observed_symbols(k)
           r == out \o ms
           a == Len(out)
           b == Len(ms)
<1>1. /\ a \in Nat /\ DOMAIN out = 1..a /\ DOMAIN ms = 1..b /\ DOMAIN r = 1..(a + b)
      /\ \A i \in 1..a : r[i] = out[i]
      /\ \A i \in 1..b : r[a + i] = ms[i]
  BY Joined
<1>2. /\ b \in Nat \ {0} /\ ms[1] = q /\ DOMAIN Tail(ms) = 1..(b - 1)
      /\ \A i \in 1..(b - 1) : Tail(ms)[i] = ms[i + 1]
  BY Split
<1>3. \A i \in 1..a : out[i] # q
  BY <1>1 DEF ToSet
<1>4. \A i \in 1..(b - 1) : Tail(ms)[i] # q /\ ~IsPlot(Tail(ms)[i])
  BY <1>2 DEF ToSet
<1>5. ~IsPlot(q)
  BY DEF IsPlot, get_observed_symbols
<1> HIDE DEF q, r, a, b
<1>6. \A i \in 1..(a + b) :
          \/ i \in 1..a /\ r[i] = out[i]
          \/ i = a + 1 /\ r[i] = q
          \/ i > a + 1 /\ r[i] # q /\ ~IsPlot(r[i])
  <2> TAKE i \in 1..(a + b)
  <2>1. CASE i \in 1..a
    BY <1>1, <2>1
  <2>2. CASE i = a + 1
    BY <1>1, <1>2, <2>2
  <2>3. CASE i > a + 1
    <3>1. (i - a) - 1 \in 1..(b - 1) /\ i - a \in 1..b
      BY <1>1, <1>2, <2>3
    <3>2. i = a + (i - a) /\ i - a = ((i - a) - 1) + 1
      BY <1>1
    <3>3. r[i] = ms[i - a] /\ ms[i - a] = Tail(ms)[(i - a) - 1]
      BY <1>1, <1>2, <3>1, <3>2
    <3> QED
      BY <1>4, <2>3, <3>1, <3>3
  <2> QED
    BY <1>1, <2>1, <2>2, <2>3
<1>7. a + 1 \in 1..(a + b) /\ \A i \in 1..a : a + 1 > i
  BY <1>1, <1>2
<1>8. r[a + 1] = q
  BY <1>1, <1>2
<1>9. \A i \in 1..(a + b) : r[i] = q => i = a + 1
  BY <1>1, <1>3, <1>6
<1>10. \A j \in 1..(a + b) : IsPlot(r[j]) => a + 1 > j
  BY <1>1, <1>5, <1>6, <1>7
<1> QED
  BY <1>1, <1>7, <1>8, <1>9, <1>10 DEF Asked, q, r
-----------------------------------------------------------------------------
(* Messages *)

\* What the messages to the window carry.
LEMMA MessageFields ==
    ASSUME NEW m \in Messages
    PROVE  /\ IsPlot(m) => m.name \in Symbols /\ m.content \in 1..MaxStops
           /\ IsQuestion(m) => m.asked \in 1..MaxStops /\ m = get_observed_symbols(m.asked)
           /\ m.type = "SET_AVAILABLE_SYMBOLS" => m.names \subseteq Symbols
BY DEF Messages, IsPlot, IsQuestion, get_observed_symbols

\* What its answers carry.
LEMMA ReplyFields ==
    ASSUME NEW m \in Replies
    PROVE  /\ m.type = "PLOT_BUFFER_REQUEST" => m.name \in Symbols
           /\ IsResponse(m) => m.names \subseteq Symbols /\ m.asked \in 1..MaxStops
BY DEF Replies, IsResponse

\* The bridge's messages are those.
LEMMA BridgeMessages ==
    /\ \A k \in 1..MaxStops : get_observed_symbols(k) \in Messages
    /\ \A k : ~IsPlot(get_observed_symbols(k)) /\ IsQuestion(get_observed_symbols(k))
              /\ get_observed_symbols(k).asked = k
    /\ \A names \in SUBSET Symbols : set_available_symbols(names) \in Messages
    /\ \A names : ~IsPlot(set_available_symbols(names)) /\ ~IsQuestion(set_available_symbols(names))
    /\ \A n \in Symbols : stop \in 1..MaxStops => plot_buffer(n) \in Messages
    /\ \A n : /\ IsPlot(plot_buffer(n)) /\ plot_buffer(n).content = stop
              /\ ~IsQuestion(plot_buffer(n)) /\ plot_buffer(n).name = n
BY DEF Messages, IsPlot, IsQuestion, get_observed_symbols, set_available_symbols, plot_buffer

\* So are the viewer's.
LEMMA ViewerMessages ==
    /\ \A n \in Symbols : Request(n) \in Replies /\ [type |-> "BUFFER_REMOVED", name |-> n] \in Replies
    /\ \A n : ~IsResponse(Request(n)) /\ ~IsResponse([type |-> "BUFFER_REMOVED", name |-> n])
    /\ \A names \in SUBSET Symbols, k \in 1..MaxStops :
          [type |-> "GET_OBSERVED_SYMBOLS_RESPONSE", names |-> names, asked |-> k] \in Replies
BY DEF Replies, IsResponse, Request

\* One message more on its way to the bridge.
LEMMA Sent ==
    ASSUME NEW s \in Seq(Replies), NEW m \in Replies, NEW t, t = Append(s, m)
    PROVE  ToSet(t) = ToSet(s) \cup {m}
<1> DEFINE one == <<m>>
<1>1. t = s \o one
  OBVIOUS
<1>2. one \in Seq(Replies) /\ ToSet(one) = {m}
  BY OneOrTwo
<1> HIDE DEF one
<1> QED
  BY <1>1, <1>2, Joined

\* Nobody is displayed who was not.
LEMMA ObservedSymbols == Observed \subseteq Symbols
BY DEF Observed

\* Covered survives a step that asks nothing at stop k and displays only what is of
\* stop k, if who is no longer among the names is displayed as it should be.
LEMMA CoveredStays ==
    ASSUME NEW k, NEW out, NEW out2, NEW d, NEW d2, NEW names, NEW names2,
           Covered(k, out, d, names),
           get_observed_symbols(k) \notin ToSet(out2),
           \A n \in Symbols : d2[n] = d[n] \/ d2[n] \in {0, k},
           \A n \in Symbols : n \in names => n \in names2 \/ d2[n] \in {0, k}
    PROVE  Covered(k, out2, d2, names2)
<1>1. \A n \in Symbols : d[n] \in {0, k} \/ n \in names
  BY DEF Covered
<1>2. \A n \in Symbols : d2[n] \in {0, k} \/ n \in names2
  BY <1>1
<1> QED
  BY <1>2 DEF Covered

\* The answers and the handler stay as good as they were under such a step.
LEMMA AnsweredStays ==
    ASSUME NEW k, NEW out, NEW out2, NEW d, NEW d2, NEW back, NEW back2, NEW stored,
           Answered(k, out, back, stored, d),
           get_observed_symbols(k) \notin ToSet(out) => get_observed_symbols(k) \notin ToSet(out2),
           get_observed_symbols(k) \notin ToSet(out) =>
                \A n \in Symbols : d2[n] = d[n] \/ d2[n] \in {0, k},
           \A m \in ToSet(back2) : m \in ToSet(back) \/ ~IsResponse(m)
    PROVE  Answered(k, out2, back2, stored, d2)
<1>1. \A names : Covered(k, out, d, names) => Covered(k, out2, d2, names)
  BY CoveredStays DEF Covered
<1> QED
  BY <1>1 DEF Answered
-----------------------------------------------------------------------------
(* Types *)

\* A set of symbols is finite, and so are the requests for them.
LEMMA LaidOutSymbols ==
    ASSUME NEW names, names \subseteq Symbols
    PROVE  /\ SetToSeq(names) \in Seq(Symbols \cup {EventLoop}) /\ ToSet(SetToSeq(names)) = names
           /\ SetToSeq({Request(n) : n \in names}) \in Seq(Replies)
           /\ ToSet(SetToSeq({Request(n) : n \in names})) = {Request(n) : n \in names}
<1>1. IsFiniteSet(names)
  BY SessionAssumption, FS_Subset
<1>2. IsFiniteSet({Request(n) : n \in names})
  <2> DEFINE f == [n \in names |-> Request(n)]
  <2>1. f \in Surjection(names, {Request(n) : n \in names})
    BY DEF Surjection
  <2> QED
    BY <1>1, <2>1, FS_Surjection
<1>3. {Request(n) : n \in names} \subseteq Replies
  BY ViewerMessages
<1> QED
  BY <1>1, <1>2, <1>3, LaidOut

\* What the handler does with a response.
LEMMA TailOK ==
    ASSUME TypeOK, NEW response \in [names : SUBSET Symbols, asked : 0..MaxStops],
           NEW ms \in Seq(Messages), StopHandlerTail(response, ms),
           stop' \in 0..MaxStops, in_scope' \subseteq Symbols
    PROVE  /\ queue' \in Seq(Symbols \cup {EventLoop})
           /\ ToSet(queue') = ToSet(queue) \cup response.names
           /\ answer' = [stop |-> stop', asked |-> response.asked]
           /\ answer' \in [stop : 0..MaxStops, asked : 0..MaxStops]
           /\ to_window' = (IF closed THEN to_window
                            ELSE to_window \o (ms \o <<set_available_symbols(in_scope')>>))
           /\ to_window' \in Seq(Messages)
           /\ ms \o <<set_available_symbols(in_scope')>> \in Seq(Messages)
           /\ ToSet(ms \o <<set_available_symbols(in_scope')>>)
                = ToSet(ms) \cup {set_available_symbols(in_scope')}
<1>1. queue \in Seq(Symbols \cup {EventLoop}) /\ to_window \in Seq(Messages)
  BY DEF TypeOK
<1>2. response.names \subseteq Symbols /\ response.asked \in 0..MaxStops
  OBVIOUS
<1>3. set_available_symbols(in_scope') \in Messages
  BY BridgeMessages
<1>a. \A x \in Messages : ms \o <<x>> \in Seq(Messages) /\ ToSet(ms \o <<x>>) = ToSet(ms) \cup {x}
  <2> TAKE x \in Messages
  <2> DEFINE t == <<x>>
  <2>1. t \in Seq(Messages) /\ ToSet(t) = {x}
    BY Appended
  <2> HIDE DEF t
  <2>2. ms \o t \in Seq(Messages) /\ ToSet(ms \o t) = ToSet(ms) \cup ToSet(t)
    BY <2>1, Joined
  <2> QED
    BY <2>1, <2>2 DEF t
<1>4. /\ ms \o <<set_available_symbols(in_scope')>> \in Seq(Messages)
      /\ ToSet(ms \o <<set_available_symbols(in_scope')>>)
            = ToSet(ms) \cup {set_available_symbols(in_scope')}
  BY <1>3, <1>a
<1>5. to_window \o (ms \o <<set_available_symbols(in_scope')>>) \in Seq(Messages)
  BY <1>1, <1>4, Joined
<1>6. queue' = queue \o SetToSeq(response.names)
  BY DEF StopHandlerTail
<1>b. /\ SetToSeq(response.names) \in Seq(Symbols \cup {EventLoop})
      /\ ToSet(SetToSeq(response.names)) = response.names
  BY <1>2, LaidOutSymbols
<1>7. queue' \in Seq(Symbols \cup {EventLoop}) /\ ToSet(queue') = ToSet(queue) \cup response.names
  BY <1>1, <1>6, <1>b, Joined
<1>8. /\ answer' = [stop |-> stop', asked |-> response.asked]
      /\ to_window' = (IF closed THEN to_window
                       ELSE to_window \o (ms \o <<set_available_symbols(in_scope')>>))
  BY DEF StopHandlerTail, send_to_window
<1> QED
  BY <1>1, <1>2, <1>4, <1>5, <1>7, <1>8

\* The debugger's steps keep the types.
LEMMA DebuggerTypes ==
    ASSUME TypeOK, in_scope # {} => stop > 0,
           Debugger \/ \E scope \in SUBSET Symbols : stop_handler(scope)
    PROVE  TypeOK'
<1>0. /\ queue \in Seq(Symbols \cup {EventLoop}) /\ to_window \in Seq(Messages)
      /\ to_bridge \in Seq(Replies) /\ stored_request \in Symbols \cup {None}
      /\ stored_response \in [names : SUBSET Symbols, asked : 0..MaxStops]
      /\ stop \in 0..MaxStops /\ in_scope \subseteq Symbols /\ MaxStops \in Nat
  BY SessionAssumption DEF TypeOK
<1>n. NoResponse \in [names : SUBSET Symbols, asked : 0..MaxStops]
  BY <1>0 DEF NoResponse
<1>1. ASSUME NEW scope \in SUBSET Symbols, stop_handler(scope) PROVE TypeOK'
  <2>1. /\ stop' = stop + 1 /\ stop' \in 1..MaxStops /\ in_scope' = scope
        /\ in_scope' \subseteq Symbols /\ stop + 1 \in 1..MaxStops
        /\ stored_response' = NoResponse /\ UNCHANGED <<stored_request, to_bridge, viewerVars>>
    BY <1>0, <1>1 DEF stop_handler
  <2>2. get_observed_symbols(stop + 1) \in Messages
    BY <2>1, BridgeMessages
  <2>3. <<get_observed_symbols(stop + 1)>> \in Seq(Messages)
    BY <2>2, <1>0, Appended
  <2>4. CASE stored_response # NoResponse
    <3>1. /\ StopHandlerTail(stored_response, <<get_observed_symbols(stop + 1)>>)
          /\ UNCHANGED <<dpc, first>>
      BY <1>1, <2>4 DEF stop_handler
    <3>2. /\ queue' \in Seq(Symbols \cup {EventLoop}) /\ to_window' \in Seq(Messages)
          /\ answer' \in [stop : 0..MaxStops, asked : 0..MaxStops]
      <4> DEFINE ms == <<get_observed_symbols(stop + 1)>>
      <4>1. ms \in Seq(Messages) /\ StopHandlerTail(stored_response, ms) /\ stop' \in 0..MaxStops
        BY <1>0, <2>1, <2>3, <3>1
      <4> HIDE DEF ms
      <4> QED
        BY <1>0, <2>1, <4>1, TailOK
    <3> QED
      BY <1>n, <2>1, <3>1, <3>2, SMTT(20) DEF TypeOK, viewerVars
  <2>5. CASE stored_response = NoResponse
    <3>1. /\ send_to_window(<<get_observed_symbols(stop + 1)>>)
          /\ dpc' = "fetch" /\ first' = TRUE /\ UNCHANGED <<queue, answer>>
      BY <1>1, <2>5 DEF stop_handler
    <3>2. to_window' \in Seq(Messages)
      BY <1>0, <2>3, <3>1, Joined DEF send_to_window
    <3> QED
      BY <1>n, <2>1, <3>1, <3>2 DEF TypeOK, viewerVars
  <2> QED
    BY <2>4, <2>5
<1>2. ASSUME ReadMessage PROVE TypeOK'
  <2>1. /\ first' = FALSE /\ to_bridge' = Tail(to_bridge) /\ to_bridge # <<>>
        /\ UNCHANGED <<dpc, stop, in_scope, queue, answer, to_window, viewerVars>>
    BY <1>2 DEF ReadMessage
  <2>2. Head(to_bridge) \in Replies /\ Tail(to_bridge) \in Seq(Replies)
    BY <1>0, <2>1, Split
  <2>3. stored_request' \in Symbols \cup {None}
    <3>1. stored_request' = IF Head(to_bridge).type = "PLOT_BUFFER_REQUEST"
                            THEN Head(to_bridge).name ELSE stored_request
      BY <1>2 DEF ReadMessage, decode_plot_buffer_request
    <3> QED
      BY <1>0, <2>2, <3>1, ReplyFields
  <2>4. stored_response' \in [names : SUBSET Symbols, asked : 0..MaxStops]
    <3>1. stored_response' = IF IsResponse(Head(to_bridge))
                             THEN [names |-> Head(to_bridge).names, asked |-> Head(to_bridge).asked]
                             ELSE stored_response
      BY <1>2 DEF ReadMessage, decode_get_observed_symbols_response, IsResponse
    <3> QED
      BY <1>0, <2>2, <3>1, ReplyFields
  <2> QED
    BY <2>1, <2>2, <2>3, <2>4 DEF TypeOK, viewerVars
<1>3. ASSUME FetchReturns PROVE TypeOK'
  <2>1. /\ StopHandlerTail(stored_response, <<>>) /\ UNCHANGED <<stop, in_scope>>
        /\ stored_response' = NoResponse /\ dpc' = "idle" /\ first' = FALSE
        /\ UNCHANGED <<stored_request, to_bridge, viewerVars>>
    BY <1>3 DEF FetchReturns
  <2>2. <<>> \in Seq(Messages) /\ stop' \in 0..MaxStops /\ in_scope' \subseteq Symbols
    BY <1>0, <2>1, Empty
  <2>3. /\ queue' \in Seq(Symbols \cup {EventLoop}) /\ to_window' \in Seq(Messages)
        /\ answer' \in [stop : 0..MaxStops, asked : 0..MaxStops]
    BY <1>0, <2>1, <2>2, TailOK
  <2> QED
    BY <1>n, <2>1, <2>3 DEF TypeOK, viewerVars
<1>4. ASSUME run_event_loop PROVE TypeOK'
  <2>1. queue # <<>> /\ queue' = Tail(queue) /\ Tail(queue) \in Seq(Symbols \cup {EventLoop})
    BY <1>0, <1>4, Split DEF run_event_loop
  <2> QED
    BY <1>4, <2>1 DEF TypeOK, run_event_loop, viewerVars
<1>5. ASSUME EventLoopTooSoon PROVE TypeOK'
  <2>1. queue # <<>> /\ queue' = Append(Tail(queue), EventLoop)
    BY <1>5 DEF EventLoopTooSoon
  <2>2. Tail(queue) \in Seq(Symbols \cup {EventLoop}) /\ EventLoop \in Symbols \cup {EventLoop}
    BY <1>0, <2>1, Split
  <2>3. queue' \in Seq(Symbols \cup {EventLoop})
    BY <2>1, <2>2, Appended
  <2> QED
    BY <1>5, <2>3 DEF TypeOK, EventLoopTooSoon, viewerVars
<1>6. ASSUME EventLoopReturns PROVE TypeOK'
  <2> DEFINE asked == IF stored_request = None THEN <<>> ELSE <<stored_request>>
  <2>1. asked \in Seq(Symbols \cup {EventLoop})
    <3>1. stored_request # None => <<stored_request>> \in Seq(Symbols \cup {EventLoop})
      BY <1>0
    <3>2. <<>> \in Seq(Symbols \cup {EventLoop})
      BY Empty
    <3> QED
      BY <3>1, <3>2
  <2>2. queue' = queue \o asked \o <<EventLoop>> /\ <<EventLoop>> \in Seq(Symbols \cup {EventLoop})
    BY <1>6 DEF EventLoopReturns
  <2> HIDE DEF asked
  <2>3. queue' \in Seq(Symbols \cup {EventLoop})
    BY <1>0, <2>1, <2>2, Joined
  <2> QED
    BY <1>6, <2>3 DEF TypeOK, EventLoopReturns, viewerVars
<1>7. ASSUME DeferredPlot PROVE TypeOK'
  <2>1. queue # <<>> /\ queue' = Tail(queue) /\ Tail(queue) \in Seq(Symbols \cup {EventLoop})
    BY <1>0, <1>7, Split DEF DeferredPlot
  <2>2. to_window' \in Seq(Messages)
    <3>1. CASE Head(queue) \in in_scope
      <4>1. Head(queue) \in Symbols /\ stop \in 1..MaxStops
        BY <1>0, <3>1
      <4>2. <<plot_buffer(Head(queue))>> \in Seq(Messages)
        BY <1>0, <4>1, BridgeMessages, Appended
      <4> QED
        <5>1. to_window \o <<plot_buffer(Head(queue))>> \in Seq(Messages)
          BY <1>0, <4>2, Joined
        <5> QED
          BY <1>0, <1>7, <3>1, <5>1 DEF DeferredPlot, send_to_window
    <3>2. CASE Head(queue) \notin in_scope
      BY <1>0, <1>7, <3>2 DEF DeferredPlot
    <3> QED
      BY <3>1, <3>2
  <2> QED
    BY <1>7, <2>1, <2>2 DEF TypeOK, DeferredPlot, viewerVars
<1> QED
  BY <1>1, <1>2, <1>3, <1>4, <1>5, <1>6, <1>7 DEF Debugger

\* So do the viewer's, the user's and the clock's.
LEMMA ViewerTypes ==
    ASSUME TypeOK,
           \/ Viewer \/ CloseWindow \/ UNCHANGED vars
           \/ \E n \in Symbols : request_plot(n) \/ remove(n) \/ Expire(n)
    PROVE  TypeOK'
<1>0. /\ to_window \in Seq(Messages) /\ to_bridge \in Seq(Replies)
      /\ shown \in [Symbols -> 0..MaxStops] /\ MaxStops \in Nat
      /\ restore_requested \subseteq RestoreBuffers /\ expired \subseteq Expirable
      /\ RestoreBuffers \subseteq Symbols /\ Expirable \subseteq RestoreBuffers
      /\ MaxRequests \in Nat /\ MaxRemovals \in Nat /\ requests \in 0..MaxRequests
      /\ removals \in 0..MaxRemovals
  BY SessionAssumption DEF TypeOK
<1>h. ASSUME NEW t, Receive(t)
      PROVE  /\ Head(to_window) \in Messages /\ to_window' = Tail(to_window)
             /\ Tail(to_window) \in Seq(Messages) /\ Head(to_window).type = t
  BY <1>0, <1>h, Split DEF Receive
<1>1. ASSUME handle_set_available_symbols PROVE TypeOK'
  <2> DEFINE names == Head(to_window).names
  <2>1. Receive("SET_AVAILABLE_SYMBOLS")
    BY <1>1 DEF handle_set_available_symbols
  <2>2. names \subseteq Symbols /\ to_window' \in Seq(Messages)
    BY <1>h, <2>1, MessageFields
  <2>3. /\ available' = names /\ restore_requested' = restore_requested \cup ToRestore(names)
        /\ to_bridge' = to_bridge \o SetToSeq({Request(n) : n \in ToRestore(names)})
        /\ UNCHANGED <<debuggerVars, shown, expired, closed, requests, removals>>
    BY <1>1 DEF handle_set_available_symbols
  <2>4. ToRestore(names) \subseteq RestoreBuffers /\ ToRestore(names) \subseteq Symbols
    BY <1>0 DEF ToRestore
  <2>5. to_bridge' \in Seq(Replies)
    BY <1>0, <2>3, <2>4, LaidOutSymbols, Joined
  <2> HIDE DEF names
  <2> QED
    BY <1>0, <2>2, <2>3, <2>4, <2>5 DEF TypeOK, debuggerVars
<1>2. ASSUME handle_get_observed_symbols PROVE TypeOK'
  <2>1. Receive("GET_OBSERVED_SYMBOLS") /\ UNCHANGED <<debuggerVars, viewerVars>>
    BY <1>2 DEF handle_get_observed_symbols
  <2>2. Head(to_window).asked \in 1..MaxStops /\ to_window' \in Seq(Messages)
    BY <1>h, <2>1, MessageFields DEF IsQuestion
  <2>3. [type |-> "GET_OBSERVED_SYMBOLS_RESPONSE", names |-> Observed,
         asked |-> Head(to_window).asked] \in Replies
    BY <2>2, ObservedSymbols, ViewerMessages
  <2>4. to_bridge' \in Seq(Replies)
    BY <1>0, <1>2, <2>3, Appended DEF handle_get_observed_symbols
  <2> QED
    BY <2>1, <2>2, <2>4 DEF TypeOK, debuggerVars, viewerVars
<1>3. ASSUME handle_plot_buffer_contents PROVE TypeOK'
  <2>1. Receive("PLOT_BUFFER_CONTENTS")
    BY <1>3 DEF handle_plot_buffer_contents
  <2>2. /\ Head(to_window).name \in Symbols /\ Head(to_window).content \in 1..MaxStops
        /\ to_window' \in Seq(Messages)
    BY <1>h, <2>1, MessageFields DEF IsPlot
  <2>3. shown' \in [Symbols -> 0..MaxStops]
    BY <1>0, <1>3, <2>2 DEF handle_plot_buffer_contents
  <2> QED
    BY <1>3, <2>2, <2>3 DEF TypeOK, debuggerVars, handle_plot_buffer_contents
<1>4. ASSUME NEW n \in Symbols, request_plot(n) PROVE TypeOK'
  <2>1. to_bridge' \in Seq(Replies)
    BY <1>0, <1>4, ViewerMessages, Appended DEF request_plot
  <2>2. requests' \in 0..MaxRequests
    BY <1>0, <1>4 DEF request_plot
  <2> QED
    BY <1>4, <2>1, <2>2 DEF TypeOK, debuggerVars, request_plot
<1>5. ASSUME NEW n \in Symbols, remove(n) PROVE TypeOK'
  <2>1. to_bridge' \in Seq(Replies)
    BY <1>0, <1>5, ViewerMessages, Appended DEF remove
  <2>2. removals' \in 0..MaxRemovals /\ shown' \in [Symbols -> 0..MaxStops]
    BY <1>0, <1>5 DEF remove
  <2> QED
    BY <1>5, <2>1, <2>2 DEF TypeOK, debuggerVars, remove
<1>6. ASSUME NEW n \in Symbols, Expire(n) PROVE TypeOK'
  BY <1>0, <1>6 DEF TypeOK, debuggerVars, Expire
<1>7. ASSUME CloseWindow PROVE TypeOK'
  BY <1>0, <1>7, Empty DEF TypeOK, debuggerVars, CloseWindow
<1>8. ASSUME UNCHANGED vars PROVE TypeOK'
  BY <1>8 DEF TypeOK, vars, debuggerVars, viewerVars
<1> QED
  BY <1>1, <1>2, <1>3, <1>4, <1>5, <1>6, <1>7, <1>8 DEF Viewer
-----------------------------------------------------------------------------
(* The steps of the debugger *)

\* A stop: its question is new, and nobody has an answer to it.
LEMMA StopKeeps ==
    ASSUME Inv, NEW scope \in SUBSET Symbols, stop_handler(scope)
    PROVE  Inv'
<1> DEFINE k == stop + 1
           q == get_observed_symbols(k)
<1>1. /\ stop \in Nat /\ to_window \in Seq(Messages) /\ MaxStops \in Nat /\ TypeOK
      /\ stored_response \in [names : SUBSET Symbols, asked : 0..MaxStops]
      /\ to_bridge \in Seq(Replies)
  BY SessionAssumption DEF Inv, TypeOK
<1>2. /\ stop' = k /\ k \in 1..MaxStops /\ in_scope' = scope /\ ~closed /\ ~(closed')
      /\ stored_response' = NoResponse /\ to_bridge' = to_bridge /\ shown' = shown
  BY <1>1 DEF stop_handler, viewerVars
<1>3. /\ \A m \in ToSet(to_window) : IsQuestion(m) => m.asked <= stop
      /\ \A m \in ToSet(to_bridge) : IsResponse(m) => m.asked <= stop
      /\ stored_response.asked <= stop /\ answer.asked <= stop
  BY DEF Inv, Numbered
<1>4. q \in Messages /\ IsQuestion(q) /\ q.asked = k
  BY <1>2, BridgeMessages
<1>5. q \notin ToSet(to_window)
  BY <1>1, <1>3, <1>4
<1>6. \A m \in ToSet(to_bridge) : IsResponse(m) => m.asked # k
  <2> SUFFICES ASSUME NEW m \in ToSet(to_bridge), IsResponse(m) PROVE m.asked # k
    OBVIOUS
  <2>1. m \in Replies
    BY <1>1 DEF ToSet
  <2>2. m.asked \in Nat /\ m.asked <= stop
    BY <1>1, <1>3, <2>1, ReplyFields
  <2> QED
    BY <1>1, <2>2
<1>t. TypeOK'
  BY <1>1, DebuggerTypes DEF Inv, Numbered
<1> DEFINE set == set_available_symbols(in_scope')
<1>7. set \in Messages /\ ~IsPlot(set) /\ ~IsQuestion(set)
  BY <1>2, BridgeMessages
<1> HIDE DEF set, q
<1>8. PICK ms \in Seq(Messages) :
          /\ to_window' = to_window \o ms
          /\ ms # <<>> /\ Head(ms) = q /\ ToSet(ms) \subseteq {q, set}
          /\ ToSet(Tail(ms)) \subseteq {set}
          /\ answer'.asked <= stop
  <2>1. CASE stored_response = NoResponse
    <3> DEFINE ms == <<q>>
    <3>1. ms \in Seq(Messages) /\ ToSet(ms) = {q}
      BY <1>4, OneOrTwo
    <3>2. ms # <<>> /\ Head(ms) = q /\ Tail(ms) = <<>>
      BY <1>4, OneOrTwo
    <3>3. to_window' = to_window \o ms /\ answer' = answer
      BY <1>2, <2>1 DEF stop_handler, send_to_window, q
    <3> HIDE DEF ms
    <3> QED
      BY <1>3, <3>1, <3>2, <3>3, Empty
  <2>2. CASE stored_response # NoResponse
    <3> DEFINE one == <<q>>
               ms == one \o <<set>>
    <3>1. one \in Seq(Messages) /\ ToSet(one) = {q}
      BY <1>4, OneOrTwo
    <3>2. StopHandlerTail(stored_response, one)
      BY <2>2 DEF stop_handler, q
    <3> HIDE DEF one
    <3>3. /\ to_window' = to_window \o ms /\ ms \in Seq(Messages)
          /\ ToSet(ms) = ToSet(one) \cup {set} /\ answer'.asked = stored_response.asked
      <4>1. stop' \in 0..MaxStops /\ in_scope' \subseteq Symbols
        BY <1>1, <1>2
      <4>2. /\ answer' = [stop |-> stop', asked |-> stored_response.asked]
            /\ to_window' = (IF closed THEN to_window
                             ELSE to_window \o (one \o <<set_available_symbols(in_scope')>>))
            /\ one \o <<set_available_symbols(in_scope')>> \in Seq(Messages)
            /\ ToSet(one \o <<set_available_symbols(in_scope')>>)
                  = ToSet(one) \cup {set_available_symbols(in_scope')}
        BY <1>1, <3>1, <3>2, <4>1, TailOK
      <4> QED
        BY <1>2, <4>2 DEF set
    <3>5. ms # <<>> /\ Head(ms) = q /\ Tail(ms) = <<set>>
      BY <1>4, <1>7, OneOrTwo DEF one
    <3>6. ToSet(<<set>>) = {set}
      BY <1>7, OneOrTwo
    <3> HIDE DEF ms
    <3> QED
      BY <1>3, <3>1, <3>3, <3>5, <3>6
  <2> QED
    BY <2>1, <2>2
<1>9. ToSet(to_window') = ToSet(to_window) \cup ToSet(ms)
  BY <1>1, <1>8, Joined
<1>10. Asked(stop, to_window)'
  <2>1. \A m \in ToSet(Tail(ms)) : m # q /\ ~IsPlot(m)
    BY <1>4, <1>7, <1>8
  <2> QED
    BY <1>1, <1>2, <1>5, <1>8, <2>1, AskedAnew DEF q
<1>11. Numbered(stop, in_scope, to_window, to_bridge, stored_response, answer)'
  <2>1. \A m \in ToSet(to_window') : IsQuestion(m) => m.asked <= k
    <3> SUFFICES ASSUME NEW m \in ToSet(to_window'), IsQuestion(m) PROVE m.asked <= k
      OBVIOUS
    <3>1. CASE m \in ToSet(to_window)
      <4>1. m \in Messages
        BY <1>1, <3>1 DEF ToSet
      <4>2. m.asked \in Nat /\ m.asked <= stop
        BY <1>1, <1>3, <3>1, <4>1, MessageFields
      <4> QED
        BY <1>1, <4>2
    <3>2. CASE m \in {q, set}
      BY <1>1, <1>4, <1>7, <3>2
    <3> QED
      BY <1>8, <1>9, <3>1, <3>2
  <2>2. \A m \in ToSet(to_bridge) : IsResponse(m) => m.asked <= k
    <3> SUFFICES ASSUME NEW m \in ToSet(to_bridge), IsResponse(m) PROVE m.asked <= k
      OBVIOUS
    <3>1. m \in Replies
      BY <1>1 DEF ToSet
    <3>2. m.asked \in Nat /\ m.asked <= stop
      BY <1>1, <1>3, <3>1, ReplyFields
    <3> QED
      BY <1>1, <3>2
  <2>3. answer'.asked <= k
    <3>1. answer'.asked \in Nat
      BY <1>t DEF TypeOK
    <3> QED
      BY <1>1, <1>8, <3>1
  <2> QED
    BY <1>1, <1>2, <2>1, <2>2, <2>3 DEF Numbered, NoResponse
<1>12. Answered(stop, to_window, to_bridge, stored_response, shown)'
  BY <1>1, <1>2, <1>6 DEF Answered, NoResponse
<1>13. answer' # [stop |-> stop', asked |-> stop']
  <2>1. answer'.asked \in Nat /\ answer'.asked <= stop
    BY <1>8, <1>t DEF TypeOK
  <2> QED
    BY <1>1, <1>2, <2>1
<1> QED
  BY <1>t, <1>10, <1>11, <1>12, <1>13 DEF Inv

\* A step that neither sends to the window, nor displays, nor brings or takes an
\* answer, and drops no plot that is queued.
LEMMA QuietKeeps ==
    ASSUME Inv, TypeOK',
           UNCHANGED <<stop, in_scope, to_window, stored_response, answer, shown, closed>>,
           \A m \in ToSet(to_bridge') : m \in ToSet(to_bridge) \/ ~IsResponse(m),
           \A n \in Symbols : n \in ToSet(queue) => n \in ToSet(queue')
    PROVE  Inv'
<1>1. Numbered(stop, in_scope, to_window, to_bridge, stored_response, answer)'
  BY DEF Inv, Numbered
<1>2. Asked(stop, to_window)'
  BY DEF Inv
<1>3. Answered(stop, to_window, to_bridge, stored_response, shown)'
  BY DEF Inv, Answered
<1>4. Taken(stop, in_scope, queue, to_window, shown)
        => Taken(stop, in_scope, queue', to_window, shown)
  BY DEF Taken, Coming, Covered
<1> QED
  BY <1>1, <1>2, <1>3, <1>4 DEF Inv

\* The event loop keeps the plots that are queued.
LEMMA LoopKeeps ==
    ASSUME Inv, run_event_loop \/ EventLoopTooSoon \/ EventLoopReturns
    PROVE  Inv'
<1>1. /\ queue \in Seq(Symbols \cup {EventLoop}) /\ EventLoop \notin Symbols
      /\ stored_request \in Symbols \cup {None}
  BY SessionAssumption DEF Inv, TypeOK, EventLoop
<1>2. TypeOK'
  BY DebuggerTypes DEF Inv, Numbered, Debugger
<1>3. UNCHANGED <<stop, in_scope, to_window, stored_response, answer, shown, closed, to_bridge>>
  BY DEF run_event_loop, EventLoopTooSoon, EventLoopReturns, viewerVars
<1>4. ASSUME NEW n \in Symbols, n \in ToSet(queue) PROVE n \in ToSet(queue')
  <2>1. CASE run_event_loop \/ EventLoopTooSoon
    <3>1. /\ queue # <<>> /\ Head(queue) = EventLoop
          /\ queue' = Tail(queue) \/ queue' = Append(Tail(queue), EventLoop)
      BY <2>1 DEF run_event_loop, EventLoopTooSoon
    <3>2. n \in ToSet(Tail(queue)) /\ Tail(queue) \in Seq(Symbols \cup {EventLoop})
      BY <1>1, <1>4, <3>1, Split
    <3>3. n \in ToSet(Append(Tail(queue), EventLoop))
      <4> DEFINE rest == Tail(queue)
                 loop == <<EventLoop>>
      <4>1. Append(rest, EventLoop) = rest \o loop /\ loop \in Seq(Symbols \cup {EventLoop})
        BY <3>2
      <4>2. rest \in Seq(Symbols \cup {EventLoop}) /\ n \in ToSet(rest)
        BY <3>2
      <4> HIDE DEF rest, loop
      <4>3. n \in ToSet(rest \o loop)
        BY <4>1, <4>2, Joined
      <4> QED
        BY <4>1, <4>3 DEF rest
    <3> QED
      BY <3>1, <3>2, <3>3
  <2>2. CASE EventLoopReturns
    <3> DEFINE asked == IF stored_request = None THEN <<>> ELSE <<stored_request>>
               loop == <<EventLoop>>
    <3>1. queue' = queue \o asked \o loop
      BY <2>2 DEF EventLoopReturns
    <3>2. <<stored_request>> \in Seq(Symbols \cup {EventLoop}) \/ stored_request = None
      BY <1>1
    <3>3. asked \in Seq(Symbols \cup {EventLoop})
      BY <3>2, Empty
    <3>4. loop \in Seq(Symbols \cup {EventLoop})
      OBVIOUS
    <3> HIDE DEF asked, loop
    <3> DEFINE some == queue \o asked
    <3>5. some \in Seq(Symbols \cup {EventLoop}) /\ n \in ToSet(some)
      BY <1>1, <1>4, <3>3, Joined
    <3> HIDE DEF some
    <3>6. n \in ToSet(some \o loop)
      BY <3>4, <3>5, Joined
    <3> QED
      BY <3>1, <3>6 DEF some
  <2> QED
    BY <2>1, <2>2
<1> QED
  BY <1>2, <1>3, <1>4, QuietKeeps

\* A message is read: an answer is as good where it is stored as on its way.
LEMMA ReadKeeps ==
    ASSUME Inv, ReadMessage
    PROVE  Inv'
<1> DEFINE m == Head(to_bridge)
<1>1. /\ to_bridge \in Seq(Replies) /\ to_bridge # <<>> /\ to_bridge' = Tail(to_bridge)
      /\ UNCHANGED <<dpc, stop, in_scope, queue, answer, to_window, shown, closed>>
  BY DEF Inv, TypeOK, ReadMessage, viewerVars
<1>2. TypeOK'
  BY DebuggerTypes DEF Inv, Numbered, Debugger
<1>3. ToSet(to_bridge) = {m} \cup ToSet(to_bridge')
  BY <1>1, Split
<1>4. \/ stored_response' = stored_response
      \/ IsResponse(m) /\ stored_response'.asked = m.asked /\ stored_response'.names = m.names
  BY DEF ReadMessage, decode_get_observed_symbols_response, IsResponse
<1> HIDE DEF m
<1>5. Numbered(stop, in_scope, to_window, to_bridge, stored_response, answer)'
  BY <1>1, <1>3, <1>4 DEF Inv, Numbered
<1>6. Answered(stop, to_window, to_bridge, stored_response, shown)'
  BY <1>1, <1>3, <1>4 DEF Inv, Answered
<1> QED
  BY <1>1, <1>2, <1>5, <1>6 DEF Inv

\* A message without news of stop k is sent.
LEMMA SendKeeps ==
    ASSUME Inv, NEW m \in Messages, m # get_observed_symbols(stop), ~IsQuestion(m),
           IsPlot(m) => m.content = stop,
           to_window' = IF closed THEN to_window ELSE to_window \o <<m>>
    PROVE  /\ Asked(stop, to_window')
           /\ \A names : Covered(stop, to_window, shown, names) => Covered(stop, to_window', shown, names)
           /\ \A x \in ToSet(to_window') : IsQuestion(x) => x.asked <= stop
           /\ ToSet(to_window') = ToSet(to_window) \cup (IF closed THEN {} ELSE {m})
<1>1. to_window \in Seq(Messages) /\ Asked(stop, to_window)
  BY DEF Inv, TypeOK
<1> DEFINE ms == <<m>>
<1>2. ms \in Seq(Messages) /\ ToSet(ms) = {m}
  BY OneOrTwo
<1> HIDE DEF ms
<1>3. ToSet(to_window \o ms) = ToSet(to_window) \cup {m}
  BY <1>1, <1>2, Joined
<1>4. ToSet(to_window') = ToSet(to_window) \cup (IF closed THEN {} ELSE {m})
  BY <1>3 DEF ms
<1>5. Asked(stop, to_window \o ms)
  BY <1>1, <1>2, AskedSend
<1>6. Asked(stop, to_window')
  BY <1>1, <1>5 DEF ms
<1>7. \A x \in ToSet(to_window') : IsQuestion(x) => x.asked <= stop
  BY <1>4 DEF Inv, Numbered
<1>8. ASSUME NEW names, Covered(stop, to_window, shown, names)
      PROVE  Covered(stop, to_window', shown, names)
  BY <1>4, <1>8 DEF Covered
<1> QED
  BY <1>4, <1>6, <1>7, <1>8

\* The fetch is over: the handler queues what the stored answer names, and if that
\* is the answer to its own question all that is not up to date is among it.
LEMMA FetchKeeps ==
    ASSUME Inv, FetchReturns
    PROVE  Inv'
<1> DEFINE set == set_available_symbols(in_scope)
<1>1. /\ UNCHANGED <<stop, in_scope, to_bridge, shown, closed>> /\ stored_response' = NoResponse
      /\ StopHandlerTail(stored_response, <<>>)
  BY DEF FetchReturns, viewerVars
<1>2. /\ stop \in 0..MaxStops /\ in_scope \subseteq Symbols /\ MaxStops \in Nat
      /\ stored_response \in [names : SUBSET Symbols, asked : 0..MaxStops]
      /\ to_window \in Seq(Messages) /\ TypeOK
  BY SessionAssumption DEF Inv, TypeOK
<1>3. TypeOK'
  BY DebuggerTypes DEF Inv, Numbered, Debugger
<1>4. set \in Messages /\ ~IsPlot(set) /\ ~IsQuestion(set)
  BY <1>2, BridgeMessages
<1>5. /\ ToSet(queue') = ToSet(queue) \cup stored_response.names
      /\ answer' = [stop |-> stop, asked |-> stored_response.asked]
      /\ to_window' = IF closed THEN to_window ELSE to_window \o <<set>>
  <2> DEFINE none == <<>>
             last == <<set_available_symbols(in_scope')>>
  <2>1. none \in Seq(Messages) /\ stop' \in 0..MaxStops /\ in_scope' \subseteq Symbols
    BY <1>1, <1>2, Empty
  <2>2. StopHandlerTail(stored_response, none)
    BY <1>1
  <2>3. none \o last = <<set>>
    BY <1>1, <1>4, ConcatEmptySeq, OneOrTwo
  <2> HIDE DEF none
  <2>4. /\ ToSet(queue') = ToSet(queue) \cup stored_response.names
        /\ answer' = [stop |-> stop', asked |-> stored_response.asked]
        /\ to_window' = (IF closed THEN to_window ELSE to_window \o (none \o last))
    BY <1>2, <2>1, <2>2, TailOK
  <2> QED
    BY <1>1, <2>3, <2>4
<1>6. set # get_observed_symbols(stop)
  BY <1>4, BridgeMessages
<1> HIDE DEF set
<1>7. /\ Asked(stop, to_window')
      /\ \A names : Covered(stop, to_window, shown, names) => Covered(stop, to_window', shown, names)
      /\ \A x \in ToSet(to_window') : IsQuestion(x) => x.asked <= stop
  BY <1>4, <1>5, <1>6, SendKeeps
<1>8. Numbered(stop, in_scope, to_window, to_bridge, stored_response, answer)'
  BY <1>1, <1>2, <1>5, <1>7 DEF Inv, Numbered, NoResponse
<1>9. Answered(stop, to_window, to_bridge, stored_response, shown)'
  BY <1>1, <1>7 DEF Inv, Answered, NoResponse
<1>10. ASSUME stored_response.asked = stop
       PROVE  Taken(stop, in_scope, queue', to_window', shown)
  <2>1. CASE stop > 0
    <3>1. Covered(stop, to_window', shown, stored_response.names)
      BY <1>7, <1>10, <2>1 DEF Inv, Answered
    <3>2. \A n : n \in stored_response.names => n \in Coming(in_scope, queue', to_window')
      BY <1>5 DEF Coming
    <3> QED
      BY <3>1, <3>2 DEF Taken, Covered
  <2>2. CASE stop = 0
    <3>1. in_scope = {}
      BY <2>2 DEF Inv, Numbered
    <3>2. \A n \in Symbols : n \in Coming(in_scope, queue', to_window')
      BY <3>1 DEF Coming
    <3>3. get_observed_symbols(0) \notin ToSet(to_window')
      <4>1. \A m \in ToSet(to_window') : m \in Messages
        BY <1>3 DEF TypeOK, ToSet
      <4> QED
        BY <4>1, MessageFields, BridgeMessages
    <3> QED
      BY <2>2, <3>2, <3>3 DEF Taken, Covered
  <2> QED
    BY <1>2, <2>1, <2>2
<1> QED
  BY <1>1, <1>3, <1>5, <1>7, <1>8, <1>9, <1>10 DEF Inv

\* A queued plot is made from the program as it is at this stop.
LEMMA PlotKeeps ==
    ASSUME Inv, DeferredPlot
    PROVE  Inv'
<1> DEFINE n == Head(queue)
           m == plot_buffer(n)
<1>1. /\ queue # <<>> /\ queue' = Tail(queue) /\ queue \in Seq(Symbols \cup {EventLoop})
      /\ UNCHANGED <<stop, in_scope, stored_response, answer, to_bridge, shown, closed>>
      /\ in_scope \subseteq Symbols /\ stop \in 0..MaxStops /\ MaxStops \in Nat
  BY SessionAssumption DEF Inv, TypeOK, DeferredPlot, viewerVars
<1>2. TypeOK'
  BY DebuggerTypes DEF Inv, Numbered, Debugger
<1>3. ToSet(queue) = {n} \cup ToSet(queue')
  BY <1>1, Split
<1>4. CASE n \in in_scope
  <2>1. m \in Messages /\ IsPlot(m) /\ m.content = stop /\ ~IsQuestion(m) /\ m.name = n
    <3>1. stop \in 1..MaxStops /\ n \in Symbols
      BY <1>1, <1>4 DEF Inv, Numbered
    <3> QED
      BY <3>1, BridgeMessages
  <2>2. m # get_observed_symbols(stop)
    BY <2>1, BridgeMessages
  <2>3. to_window' = IF closed THEN to_window ELSE to_window \o <<m>>
    BY <1>4 DEF DeferredPlot, send_to_window
  <2> HIDE DEF m, n
  <2>4. /\ Asked(stop, to_window')
        /\ \A names : Covered(stop, to_window, shown, names) => Covered(stop, to_window', shown, names)
        /\ \A x \in ToSet(to_window') : IsQuestion(x) => x.asked <= stop
        /\ ToSet(to_window') = ToSet(to_window) \cup (IF closed THEN {} ELSE {m})
    BY <2>1, <2>2, <2>3, SendKeeps
  <2>5. Numbered(stop, in_scope, to_window, to_bridge, stored_response, answer)'
    BY <1>1, <2>4 DEF Inv, Numbered
  <2>6. Answered(stop, to_window, to_bridge, stored_response, shown)'
    BY <1>1, <2>4 DEF Inv, Answered
  <2>7. ASSUME ~closed, Taken(stop, in_scope, queue, to_window, shown)
        PROVE  Taken(stop, in_scope, queue', to_window', shown)
    <3>1. Covered(stop, to_window', shown, Coming(in_scope, queue, to_window))
      BY <2>4, <2>7 DEF Taken
    <3>2. \A x : x \in Coming(in_scope, queue, to_window) => x \in Coming(in_scope, queue', to_window')
      BY <1>3, <2>1, <2>4, <2>7 DEF Coming
    <3> QED
      BY <3>1, <3>2 DEF Taken, Covered
  <2> QED
    BY <1>1, <1>2, <2>4, <2>5, <2>6, <2>7 DEF Inv
<1>5. CASE n \notin in_scope
  <2>1. to_window' = to_window
    BY <1>5 DEF DeferredPlot
  <2> HIDE DEF n
  <2>2. Numbered(stop, in_scope, to_window, to_bridge, stored_response, answer)'
    BY <1>1, <2>1 DEF Inv, Numbered
  <2>3. Answered(stop, to_window, to_bridge, stored_response, shown)'
    BY <1>1, <2>1 DEF Inv, Answered
  <2>4. \A x \in Symbols : x \in Coming(in_scope, queue, to_window)
                              => x \in Coming(in_scope, queue', to_window)
    BY <1>3, <1>5 DEF Coming
  <2>5. Taken(stop, in_scope, queue, to_window, shown)
          => Taken(stop, in_scope, queue', to_window, shown)
    BY <2>4 DEF Taken, Covered
  <2> QED
    BY <1>1, <1>2, <2>1, <2>2, <2>3, <2>5 DEF Inv
<1> QED
  BY <1>4, <1>5
-----------------------------------------------------------------------------
(* The steps of the window *)

\* The window takes a message: only a question can be missed afterwards.
LEMMA TakenFromStream ==
    ASSUME Inv, NEW t, Receive(t)
    PROVE  /\ Head(to_window) \in Messages /\ Head(to_window).type = t /\ ~closed
           /\ to_window' = Tail(to_window) /\ Asked(stop, to_window')
           /\ ToSet(to_window) = {Head(to_window)} \cup ToSet(to_window')
           /\ Head(to_window) = get_observed_symbols(stop)
                => get_observed_symbols(stop) \notin ToSet(to_window')
           /\ get_observed_symbols(stop) \notin ToSet(to_window) /\ IsPlot(Head(to_window))
                => Head(to_window).content = stop
<1>1. to_window \in Seq(Messages) /\ Asked(stop, to_window)
  BY DEF Inv, TypeOK
<1>2. to_window # <<>> /\ to_window' = Tail(to_window) /\ Head(to_window).type = t /\ ~closed
  BY DEF Receive
<1> QED
  BY <1>1, <1>2, Split, AskedTail

\* The list of symbols, and the requests of a restore.
LEMMA SymbolsKeep ==
    ASSUME Inv, handle_set_available_symbols
    PROVE  Inv'
<1> DEFINE names == Head(to_window).names
           asked == SetToSeq({Request(n) : n \in ToRestore(names)})
<1>1. /\ Receive("SET_AVAILABLE_SYMBOLS") /\ to_bridge' = to_bridge \o asked
      /\ UNCHANGED <<stop, in_scope, stored_response, answer, queue, shown, closed>>
  BY DEF handle_set_available_symbols, debuggerVars
<1>2. /\ Head(to_window).type = "SET_AVAILABLE_SYMBOLS" /\ Asked(stop, to_window')
      /\ ToSet(to_window) = {Head(to_window)} \cup ToSet(to_window')
  BY <1>1, TakenFromStream
<1>3. TypeOK'
  BY ViewerTypes DEF Inv, Viewer
<1>4. ToRestore(names) \subseteq Symbols
  BY SessionAssumption DEF ToRestore
<1>5. asked \in Seq(Replies) /\ ToSet(asked) = {Request(n) : n \in ToRestore(names)}
  BY <1>4, LaidOutSymbols
<1>6. \A m \in ToSet(asked) : ~IsResponse(m)
  BY <1>5, ViewerMessages
<1> HIDE DEF asked, names
<1>7. \A m \in ToSet(to_bridge') : m \in ToSet(to_bridge) \/ ~IsResponse(m)
  <2>1. to_bridge \in Seq(Replies)
    BY DEF Inv, TypeOK
  <2> QED
    BY <1>1, <1>5, <1>6, <2>1, Joined
<1>8. Numbered(stop, in_scope, to_window, to_bridge, stored_response, answer)'
  BY <1>1, <1>2, <1>7 DEF Inv, Numbered
<1>9. Answered(stop, to_window, to_bridge, stored_response, shown)'
  <2>1. Answered(stop, to_window, to_bridge, stored_response, shown)
    BY DEF Inv
  <2>2. get_observed_symbols(stop) \notin ToSet(to_window)
          => get_observed_symbols(stop) \notin ToSet(to_window')
    BY <1>2
  <2>3. Answered(stop, to_window', to_bridge', stored_response, shown)
    BY <1>7, <2>1, <2>2, AnsweredStays
  <2> QED
    BY <1>1, <2>3
<1>10. Taken(stop, in_scope, queue, to_window, shown)
         => Taken(stop, in_scope, queue, to_window', shown)
  <2>1. ~IsPlot(Head(to_window))
    BY <1>2 DEF IsPlot
  <2>2. \A x : x \in Coming(in_scope, queue, to_window) => x \in Coming(in_scope, queue, to_window')
    BY <1>2, <2>1 DEF Coming
  <2> QED
    BY <1>2, <2>2 DEF Taken, Covered
<1> QED
  BY <1>1, <1>2, <1>3, <1>8, <1>9, <1>10 DEF Inv

\* The window answers: what it displays as it was before this stop is in the answer.
LEMMA AnswerKeeps ==
    ASSUME Inv, handle_get_observed_symbols
    PROVE  Inv'
<1> DEFINE m == Head(to_window)
           r == [type |-> "GET_OBSERVED_SYMBOLS_RESPONSE", names |-> Observed, asked |-> m.asked]
<1>1. /\ Receive("GET_OBSERVED_SYMBOLS") /\ to_bridge' = Append(to_bridge, r)
      /\ UNCHANGED <<stop, in_scope, stored_response, answer, queue, shown, closed>>
  BY DEF handle_get_observed_symbols, debuggerVars, viewerVars
<1>2. /\ m \in Messages /\ IsQuestion(m) /\ ~IsPlot(m) /\ Asked(stop, to_window')
      /\ ToSet(to_window) = {m} \cup ToSet(to_window')
      /\ m = get_observed_symbols(stop) => get_observed_symbols(stop) \notin ToSet(to_window')
  BY <1>1, TakenFromStream DEF IsQuestion, IsPlot
<1>3. TypeOK'
  BY ViewerTypes DEF Inv, Viewer
<1>4. /\ m.asked \in 1..MaxStops /\ m = get_observed_symbols(m.asked) /\ m.asked <= stop
  BY <1>2, MessageFields DEF Inv, Numbered
<1>5. IsResponse(r) /\ r.asked = m.asked /\ r.names = Observed /\ r \in Replies
  BY <1>4, ObservedSymbols, ViewerMessages DEF IsResponse
<1> HIDE DEF m, r
<1>6. ToSet(to_bridge') = ToSet(to_bridge) \cup {r}
  <2>1. to_bridge \in Seq(Replies)
    BY DEF Inv, TypeOK
  <2> QED
    BY <1>1, <1>5, <2>1, Sent
<1>7. Numbered(stop, in_scope, to_window, to_bridge, stored_response, answer)'
  BY <1>1, <1>2, <1>4, <1>5, <1>6 DEF Inv, Numbered
<1>8. Answered(stop, to_window, to_bridge, stored_response, shown)'
  <2>1. \A names : Covered(stop, to_window, shown, names) => Covered(stop, to_window', shown, names)
    BY <1>2 DEF Covered
  <2>2. r.asked = stop => Covered(stop, to_window', shown, r.names)
    BY <1>2, <1>4, <1>5 DEF Covered, Observed
  <2> QED
    BY <1>1, <1>6, <2>1, <2>2 DEF Inv, Answered
<1>9. Taken(stop, in_scope, queue, to_window, shown)
        => Taken(stop, in_scope, queue, to_window', shown)
  <2>1. \A x : x \in Coming(in_scope, queue, to_window) => x \in Coming(in_scope, queue, to_window')
    BY <1>2 DEF Coming
  <2> QED
    BY <1>2, <2>1 DEF Taken, Covered
<1> QED
  BY <1>1, <1>2, <1>3, <1>7, <1>8, <1>9 DEF Inv

\* The window displays a buffer: after stop k's question it is one of stop k.
LEMMA ContentsKeep ==
    ASSUME Inv, handle_plot_buffer_contents
    PROVE  Inv'
<1> DEFINE m == Head(to_window)
<1>1. /\ Receive("PLOT_BUFFER_CONTENTS") /\ shown' = [shown EXCEPT ![m.name] = m.content]
      /\ UNCHANGED <<stop, in_scope, stored_response, answer, queue, to_bridge, closed>>
  BY DEF handle_plot_buffer_contents, debuggerVars
<1>2. /\ m \in Messages /\ IsPlot(m) /\ ~IsQuestion(m) /\ Asked(stop, to_window')
      /\ ToSet(to_window) = {m} \cup ToSet(to_window')
      /\ get_observed_symbols(stop) \notin ToSet(to_window) => m.content = stop
  BY <1>1, TakenFromStream DEF IsQuestion, IsPlot
<1>3. TypeOK'
  BY ViewerTypes DEF Inv, Viewer
<1> HIDE DEF m
<1>4. Numbered(stop, in_scope, to_window, to_bridge, stored_response, answer)'
  BY <1>1, <1>2 DEF Inv, Numbered
<1>5. get_observed_symbols(stop) \notin ToSet(to_window) =>
        /\ get_observed_symbols(stop) \notin ToSet(to_window')
        /\ \A n \in Symbols : shown'[n] = shown[n] \/ shown'[n] \in {0, stop}
        /\ m.name \in Symbols => shown'[m.name] = stop
  <2>1. shown \in [Symbols -> 0..MaxStops]
    BY DEF Inv, TypeOK
  <2> QED
    BY <1>1, <1>2, <2>1
<1>6. Answered(stop, to_window, to_bridge, stored_response, shown)'
  <2>1. Answered(stop, to_window, to_bridge, stored_response, shown)
    BY DEF Inv
  <2>2. Answered(stop, to_window', to_bridge, stored_response, shown')
    BY <1>5, <2>1, AnsweredStays
  <2> QED
    BY <1>1, <2>2
<1>7. ASSUME Taken(stop, in_scope, queue, to_window, shown)
      PROVE  Taken(stop, in_scope, queue, to_window', shown')
  <2>1. get_observed_symbols(stop) \notin ToSet(to_window)
    BY <1>7 DEF Taken, Covered
  <2>2. \A n \in Symbols : n \in Coming(in_scope, queue, to_window)
                             => n \in Coming(in_scope, queue, to_window') \/ shown'[n] \in {0, stop}
    BY <1>2, <1>5, <2>1 DEF Coming
  <2>3. Covered(stop, to_window, shown, Coming(in_scope, queue, to_window))
    BY <1>7 DEF Taken
  <2>4. Covered(stop, to_window', shown', Coming(in_scope, queue, to_window'))
    BY <1>5, <2>1, <2>2, <2>3, CoveredStays
  <2> QED
    BY <2>4 DEF Taken
<1> QED
  BY <1>1, <1>2, <1>3, <1>4, <1>6, <1>7 DEF Inv

\* The user asks for a buffer or deletes one, and leases run out.
LEMMA UserKeeps ==
    ASSUME Inv, NEW n \in Symbols, request_plot(n) \/ remove(n) \/ Expire(n)
    PROVE  Inv'
<1>1. TypeOK' /\ to_bridge \in Seq(Replies) /\ shown \in [Symbols -> 0..MaxStops]
  BY ViewerTypes DEF Inv, TypeOK
<1>2. UNCHANGED <<stop, in_scope, to_window, stored_response, answer, queue, closed>>
  BY DEF request_plot, remove, Expire, debuggerVars
<1>3. \A m \in ToSet(to_bridge') : m \in ToSet(to_bridge) \/ ~IsResponse(m)
  <2>1. CASE to_bridge' = to_bridge
    BY <2>1
  <2>2. CASE request_plot(n)
    <3>1. to_bridge' = Append(to_bridge, Request(n))
      BY <2>2 DEF request_plot
    <3>2. ToSet(to_bridge') = ToSet(to_bridge) \cup {Request(n)}
      BY <1>1, <3>1, ViewerMessages, Sent
    <3> QED
      BY <3>2, ViewerMessages
  <2>3. CASE remove(n)
    <3> DEFINE m == [type |-> "BUFFER_REMOVED", name |-> n]
    <3>1. to_bridge' = Append(to_bridge, m) /\ m \in Replies /\ ~IsResponse(m)
      BY <2>3, ViewerMessages DEF remove
    <3> HIDE DEF m
    <3>2. ToSet(to_bridge') = ToSet(to_bridge) \cup {m}
      BY <1>1, <3>1, Sent
    <3> QED
      BY <3>1, <3>2
  <2> QED
    BY <2>1, <2>2, <2>3 DEF Expire
<1>4. \A x \in Symbols : shown'[x] = shown[x] \/ shown'[x] \in {0, stop}
  BY <1>1 DEF request_plot, remove, Expire
<1>5. Numbered(stop, in_scope, to_window, to_bridge, stored_response, answer)'
  BY <1>2, <1>3 DEF Inv, Numbered
<1>6. Asked(stop, to_window)'
  BY <1>2 DEF Inv
<1>7. Answered(stop, to_window, to_bridge, stored_response, shown)'
  <2>1. Answered(stop, to_window, to_bridge, stored_response, shown)
    BY DEF Inv
  <2>2. Answered(stop, to_window, to_bridge', stored_response, shown')
    BY <1>3, <1>4, <2>1, AnsweredStays
  <2> QED
    BY <1>2, <2>2
<1>8. Taken(stop, in_scope, queue, to_window, shown)
        => Taken(stop, in_scope, queue, to_window, shown')
  BY <1>4, CoveredStays DEF Taken, Covered
<1> QED
  BY <1>1, <1>2, <1>5, <1>6, <1>7, <1>8 DEF Inv

\* A window that closes loses what it had not read, and displays nothing any more.
LEMMA CloseKeeps ==
    ASSUME Inv, CloseWindow
    PROVE  Inv'
<1>1. /\ UNCHANGED <<stop, in_scope, stored_response, answer, queue, shown, to_bridge>>
      /\ closed' /\ to_window' = <<>>
  BY DEF CloseWindow, debuggerVars
<1>2. TypeOK'
  BY ViewerTypes DEF Inv
<1>3. ToSet(to_window') = {} /\ DOMAIN to_window' = {}
  BY <1>1, Empty
<1>4. Numbered(stop, in_scope, to_window, to_bridge, stored_response, answer)'
  BY <1>1, <1>3 DEF Inv, Numbered
<1>5. Asked(stop, to_window)'
  BY <1>3 DEF Asked
<1>6. Answered(stop, to_window, to_bridge, stored_response, shown)'
  BY <1>1, <1>3 DEF Inv, Answered, Covered
<1> QED
  BY <1>1, <1>2, <1>4, <1>5, <1>6 DEF Inv
-----------------------------------------------------------------------------
\* The session begins with nothing sent and nothing shown.
LEMMA InitInv == Init => Inv
<1> SUFFICES ASSUME Init PROVE Inv
  OBVIOUS
<1>1. /\ MaxStops \in Nat /\ MaxRequests \in Nat /\ MaxRemovals \in Nat
      /\ stop = 0 /\ in_scope = {} /\ to_window = <<>> /\ to_bridge = <<>>
      /\ stored_response = NoResponse /\ answer = [stop |-> 0, asked |-> 0]
      /\ shown = [n \in Symbols |-> 0] /\ queue = <<EventLoop>>
  BY SessionAssumption DEF Init
<1>2. ToSet(to_window) = {} /\ ToSet(to_bridge) = {} /\ DOMAIN to_window = {}
  BY <1>1, Empty
<1>3. TypeOK
  <2>1. queue \in Seq(Symbols \cup {EventLoop})
    BY <1>1
  <2>2. to_window \in Seq(Messages) /\ to_bridge \in Seq(Replies)
    BY <1>1, Empty
  <2>3. /\ stored_response \in [names : SUBSET Symbols, asked : 0..MaxStops]
        /\ answer \in [stop : 0..MaxStops, asked : 0..MaxStops] /\ stop \in 0..MaxStops
        /\ shown \in [Symbols -> 0..MaxStops]
    BY <1>1 DEF NoResponse
  <2>4. requests \in 0..MaxRequests /\ removals \in 0..MaxRemovals
    BY <1>1 DEF Init
  <2> QED
    BY <1>1, <2>1, <2>2, <2>3, <2>4 DEF Init, TypeOK
<1>4. Numbered(stop, in_scope, to_window, to_bridge, stored_response, answer)
  BY <1>1, <1>2 DEF Numbered, NoResponse
<1>5. Asked(stop, to_window)
  BY <1>2 DEF Asked
<1>6. Answered(stop, to_window, to_bridge, stored_response, shown)
  BY <1>1, <1>2 DEF Answered
<1>7. Taken(stop, in_scope, queue, to_window, shown)
  BY <1>1, <1>2 DEF Taken, Covered
<1> QED
  BY <1>3, <1>4, <1>5, <1>6, <1>7 DEF Inv

\* Every step keeps the invariant.
LEMMA NextInv == Inv /\ [Next]_vars => Inv'
<1> SUFFICES ASSUME Inv, [Next]_vars PROVE Inv'
  OBVIOUS
<1>1. CASE \E scope \in SUBSET Symbols : stop_handler(scope)
  BY <1>1, StopKeeps
<1>2. CASE Debugger
  BY <1>2, ReadKeeps, FetchKeeps, LoopKeeps, PlotKeeps DEF Debugger
<1>3. CASE Viewer
  BY <1>3, SymbolsKeep, AnswerKeeps, ContentsKeep DEF Viewer
<1>4. CASE \E n \in Symbols : request_plot(n) \/ remove(n) \/ Expire(n)
  BY <1>4, UserKeeps
<1>5. CASE CloseWindow
  BY <1>5, CloseKeeps
<1>6. CASE UNCHANGED vars
  <2>1. TypeOK'
    BY <1>6, ViewerTypes DEF Inv
  <2> QED
    BY <1>6, <2>1, QuietKeeps DEF vars, debuggerVars, viewerVars
<1> QED
  BY <1>1, <1>2, <1>3, <1>4, <1>5, <1>6 DEF Next

\* When all is quiet nothing is coming any more, so who is displayed and in scope
\* is displayed as of this stop.
LEMMA InvFresh == Inv => FreshAfterStop
<1> SUFFICES ASSUME Inv, Quiet, answer = [stop |-> stop, asked |-> stop],
                    NEW n \in Observed \cap in_scope
             PROVE  shown[n] = stop
  BY DEF FreshAfterStop
<1>1. Taken(stop, in_scope, queue, to_window, shown)
  BY DEF Inv, Quiet
<1>2. n \in Symbols /\ shown[n] # 0 /\ n \in in_scope
  BY DEF Observed
<1>3. ToSet(queue) = {EventLoop} /\ ToSet(to_window) = {} /\ n # EventLoop
  <2>1. ToSet(<<EventLoop>>) = {EventLoop}
    BY OneOrTwo, ZenonT(30)
  <2> QED
    BY <1>2, <2>1, Empty, SessionAssumption DEF Quiet, EventLoop
<1>4. n \notin Coming(in_scope, queue, to_window)
  BY <1>2, <1>3 DEF Coming
<1> QED
  BY <1>1, <1>2, <1>4 DEF Taken, Covered

\* For any symbols, any number of stops and a viewer of any slowness: once a stop
\* whose handler got its own answer has been worked off, every buffer on display
\* that the frame can plot shows the program at this stop (stop_handler(),
\* fetch_message(), DeferredVariablePlotter and the viewer's handlers).
THEOREM FreshOnceQuiet == Spec => []FreshAfterStop
<1> QED
  BY InitInv, NextInv, InvFresh, PTL DEF Spec
=============================================================================
