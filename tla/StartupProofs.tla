--------------------------- MODULE StartupProofs ----------------------------
(***************************************************************************)
(* What a configuration guarantees once its gateway is up, for every       *)
(* input: whom a token stands for, what a downstream gets to see, where a  *)
(* name leads, and that the prelude and the description of a principal are *)
(* what the gateway enforces.                                              *)
(***************************************************************************)
EXTENDS Startup, FiniteSetTheorems, SequenceTheorems, TLAPS

-----------------------------------------------------------------------------
(* Sorting *)

StrictOrder(R, S) ==
  /\ \A x \in S : <<x, x>> \notin R
  /\ \A x, y, z \in S : <<x, y>> \in R /\ <<y, z>> \in R => <<x, z>> \in R
  /\ \A x, y \in S : x = y \/ <<x, y>> \in R \/ <<y, x>> \in R

\* InOrder lists every element of the set once and in order.
LEMMA InOrderSorts ==
  ASSUME NEW S, IsFiniteSet(S), NEW R, StrictOrder(R, S)
  PROVE  /\ Cardinality(S) \in Nat
         /\ InOrder(S, R) \in [1..Cardinality(S) -> S]
         /\ \A x \in S : \E k \in 1..Cardinality(S) : InOrder(S, R)[k] = x
         /\ \A j, k \in 1..Cardinality(S) :
              j < k => <<InOrder(S, R)[j], InOrder(S, R)[k]>> \in R
<1> DEFINE n == Cardinality(S)
           Below(x) == {y \in S : <<y, x>> \in R}
           rank == [x \in S |-> Cardinality(Below(x))]
           o == InOrder(S, R)
<1>1. n \in Nat
  BY FS_CardinalityType
<1>2. \A x \in S : rank[x] \in 0..(n - 1)
  <2> SUFFICES ASSUME NEW x \in S PROVE Cardinality(Below(x)) \in 0..(n - 1)
    OBVIOUS
  <2>1. Below(x) \in SUBSET (S \ {x})
    BY DEF StrictOrder
  <2>2. IsFiniteSet(S \ {x}) /\ Cardinality(S \ {x}) = n - 1
    BY FS_RemoveElement
  <2> HIDE DEF Below, n
  <2>3. IsFiniteSet(Below(x)) /\ Cardinality(Below(x)) <= n - 1
    BY <2>1, <2>2, FS_Subset
  <2> QED
    BY <2>3, <1>1, FS_CardinalityType
<1>3. \A x, y \in S : <<x, y>> \in R => rank[x] < rank[y]
  <2> SUFFICES ASSUME NEW x \in S, NEW y \in S, <<x, y>> \in R
               PROVE  Cardinality(Below(x)) < Cardinality(Below(y))
    OBVIOUS
  <2>1. Below(x) \in SUBSET Below(y)
    BY DEF StrictOrder
  <2>2. x \in Below(y) /\ x \notin Below(x)
    BY DEF StrictOrder
  <2>3. Below(y) \in SUBSET S
    OBVIOUS
  <2>4. IsFiniteSet(Below(y))
    BY <2>3, FS_Subset
  <2> HIDE DEF Below
  <2>5. /\ IsFiniteSet(Below(x))
        /\ Cardinality(Below(x)) <= Cardinality(Below(y))
        /\ Cardinality(Below(y)) # Cardinality(Below(x))
    BY <2>1, <2>2, <2>4, FS_Subset
  <2> QED
    BY <2>4, <2>5, FS_CardinalityType
<1>4. \A x, y \in S : rank[x] = rank[y] => x = y
  <2> HIDE DEF rank, n
  <2> TAKE x, y \in S
  <2> HAVE rank[x] = rank[y]
  <2>1. rank[x] \in 0..(n - 1) /\ rank[y] \in 0..(n - 1)
    BY <1>2
  <2>2. ~(rank[x] < rank[y]) /\ ~(rank[y] < rank[x])
    BY <2>1
  <2>3. <<x, y>> \notin R /\ <<y, x>> \notin R
    BY <1>3, <2>2
  <2> QED
    BY <2>3 DEF StrictOrder
<1> HIDE DEF n
<1>5. rank \in Surjection(S, 0..(n - 1))
  <2>1. rank \in Injection(S, 0..(n - 1))
    <3> HIDE DEF Below
    <3> QED BY <1>2, <1>4 DEF Injection, IsInjective
  <2>2. IsFiniteSet(0..(n - 1)) /\ Cardinality(0..(n - 1)) = n
    BY <1>1, FS_Interval
  <2> QED
    BY <2>1, <2>2, FS_Injection DEF n
<1>6. \A k \in 1..n : \E x \in S : rank[x] = k - 1
  <2> HIDE DEF rank
  <2> QED BY <1>1, <1>5 DEF Surjection
<1>7. \A k \in 1..n : o[k] \in S /\ rank[o[k]] = k - 1
  <2> TAKE k \in 1..n
  <2>1. o[k] = CHOOSE x \in S : Cardinality(Below(x)) = k - 1
    BY DEF InOrder, n
  <2>2. \E x \in S : Cardinality(Below(x)) = k - 1
    BY <1>6
  <2> HIDE DEF Below, o
  <2> QED BY <2>1, <2>2
<1>8. o \in [1..n -> S]
  <2> DEFINE Pick(k) == CHOOSE x \in S : Cardinality(Below(x)) = k - 1
  <2>0. o = [k \in 1..n |-> Pick(k)]
    BY DEF InOrder, n
  <2> HIDE DEF o, Pick
  <2>1. o = [k \in 1..n |-> o[k]]
    BY <2>0
  <2> QED BY <2>1, <1>7
<1> HIDE DEF o, rank
<1>9. \A x \in S : \E k \in 1..n : o[k] = x
  <2> TAKE x \in S
  <2>1. rank[x] + 1 \in 1..n
    BY <1>1, <1>2
  <2>2. o[rank[x] + 1] \in S /\ rank[o[rank[x] + 1]] = rank[x]
    BY <1>1, <1>2, <1>7, <2>1
  <2> QED BY <1>4, <2>1, <2>2
<1>10. \A j, k \in 1..n : j < k => <<o[j], o[k]>> \in R
  <2> TAKE j, k \in 1..n
  <2> HAVE j < k
  <2>1. rank[o[j]] < rank[o[k]]
    BY <1>1, <1>7
  <2>2. ~(rank[o[k]] < rank[o[j]]) /\ o[j] # o[k]
    BY <1>2, <1>7, <2>1
  <2> QED BY <1>3, <1>7, <2>2 DEF StrictOrder
<1> QED
  BY <1>1, <1>8, <1>9, <1>10 DEF o, n

\* A sequence, with no more said of its elements.
Listed(s) == Len(s) \in Nat /\ s = [i \in 1..Len(s) |-> s[i]]

LEMMA ListedIsSeq ==
  ASSUME NEW s, Listed(s)
  PROVE  s \in Seq({s[i] : i \in 1..Len(s)})
<1> DEFINE S == {s[i] : i \in 1..Len(s)}
<1>1. \A i \in 1..Len(s) : s[i] \in S
  OBVIOUS
<1> HIDE DEF S
<1>2. s \in [1..Len(s) -> S]
  BY <1>1 DEF Listed
<1> QED
  BY <1>2 DEF Listed, S

LEMMA ConcatLists ==
  ASSUME NEW s, Listed(s), NEW t, Listed(t)
  PROVE  /\ Listed(s \o t) /\ Len(s \o t) = Len(s) + Len(t)
         /\ \A i \in 1..Len(s) : (s \o t)[i] = s[i]
         /\ \A i \in 1..Len(t) : (s \o t)[Len(s) + i] = t[i]
         /\ \A i \in 1..(Len(s) + Len(t)) :
              i \in 1..Len(s) \/ \E j \in 1..Len(t) : i = Len(s) + j
<1> DEFINE S == {s[i] : i \in 1..Len(s)}
           T == {t[i] : i \in 1..Len(t)}
           A == S \cup T
<1>1. s \in Seq(S) /\ t \in Seq(T)
  BY ListedIsSeq
<1> HIDE DEF S, T
<1>2. s \in Seq(A) /\ t \in Seq(A)
  BY <1>1, SeqMonotonic
<1> HIDE DEF A
<1>3. /\ s \o t \in Seq(A) /\ Len(s \o t) = Len(s) + Len(t)
      /\ \A i \in 1..(Len(s) + Len(t)) :
           (s \o t)[i] = IF i <= Len(s) THEN s[i] ELSE t[i - Len(s)]
  BY <1>2, ConcatProperties
<1>4. Len(s) \in Nat /\ Len(t) \in Nat
  BY DEF Listed
<1>5. Listed(s \o t)
  <2> DEFINE u == s \o t
  <2>1. u \in Seq(A)
    BY <1>3
  <2> HIDE DEF u
  <2>2. Listed(u)
    BY <2>1 DEF Listed
  <2> QED
    BY <2>2 DEF u
<1>6. \A i \in 1..(Len(s) + Len(t)) :
        i \in 1..Len(s) \/ (i - Len(s) \in 1..Len(t) /\ i = Len(s) + (i - Len(s)))
  BY <1>4
<1> QED
  BY <1>3, <1>4, <1>5, <1>6

Parts == DOMAIN Rank
NamesOf(n) == {name \in Seq(Parts) : Len(name) = n}

\* Names of one length up to two are totally ordered.
LEMMA NamesAreOrdered ==
  ASSUME NEW n \in {1, 2}
  PROVE  /\ \A a \in NamesOf(n) : ~NameLess(a, a)
         /\ \A a, b, c \in NamesOf(n) : NameLess(a, b) /\ NameLess(b, c) => NameLess(a, c)
         /\ \A a, b \in NamesOf(n) : a = b \/ NameLess(a, b) \/ NameLess(b, a)
<1>1. \A a \in NamesOf(n) : \A i \in 1..n : a[i] \in Parts /\ Rank[a[i]] \in Nat
  BY RankOrders DEF NamesOf, Parts
<1>2. CASE n = 1
  <2>1. \A a, b \in NamesOf(1) : NameLess(a, b) <=> Rank[a[1]] < Rank[b[1]]
    <3> TAKE a, b \in NamesOf(1)
    <3>1. Len(a) = 1 /\ Len(b) = 1
      BY DEF NamesOf
    <3>2. NameLess(a, b) <=>
            \E i \in {1} : /\ \A j \in 1..(i - 1) : j <= 1 /\ a[j] = b[j]
                           /\ Rank[a[i]] < Rank[b[i]]
      BY <3>1 DEF NameLess
    <3>3. 1..(1 - 1) = {}
      OBVIOUS
    <3> QED
      BY <3>2, <3>3
  <2>2. \A a, b \in NamesOf(1) : a[1] = b[1] => a = b
    BY DEF NamesOf
  <2> QED
    BY <1>1, <1>2, <2>1, <2>2, RankOrders DEF Parts
<1>3. CASE n = 2
  <2>1. \A a, b \in NamesOf(2) :
          NameLess(a, b) <=> \/ Rank[a[1]] < Rank[b[1]]
                             \/ a[1] = b[1] /\ Rank[a[2]] < Rank[b[2]]
    <3> TAKE a, b \in NamesOf(2)
    <3>1. Len(a) = 2 /\ Len(b) = 2
      BY DEF NamesOf
    <3>2. NameLess(a, b) <=>
            \E i \in {1, 2} : /\ \A j \in 1..(i - 1) : j <= 2 /\ a[j] = b[j]
                              /\ Rank[a[i]] < Rank[b[i]]
      BY <3>1 DEF NameLess
    <3>3. 1..(1 - 1) = {} /\ 1..(2 - 1) = {1}
      OBVIOUS
    <3> QED
      BY <3>2, <3>3
  <2>2. \A a, b \in NamesOf(2) : a[1] = b[1] /\ a[2] = b[2] => a = b
    BY DEF NamesOf
  <2>3. \A a \in NamesOf(2) : /\ a[1] \in Parts /\ Rank[a[1]] \in Nat
                              /\ a[2] \in Parts /\ Rank[a[2]] \in Nat
    BY <1>1, <1>3
  <2>4. \A a \in NamesOf(2) : ~NameLess(a, a)
    BY <2>1, <2>3
  <2>5. \A a, b, c \in NamesOf(2) : NameLess(a, b) /\ NameLess(b, c) => NameLess(a, c)
    BY <2>1, <2>3
  <2>6. \A a, b \in NamesOf(2) : a = b \/ NameLess(a, b) \/ NameLess(b, a)
    BY <2>1, <2>2, <2>3, RankOrders DEF Parts
  <2> QED
    BY <1>3, <2>4, <2>5, <2>6
<1> QED
  BY <1>2, <1>3

\* A qualified name is split into what it was made of.
LEMMA SplitName ==
  ASSUME NEW a \in NamesOf(1), NEW b \in NamesOf(1)
  PROVE  /\ a \o b \in NamesOf(2)
         /\ <<(a \o b)[1]>> = a
         /\ Tail(a \o b) = b
<1> DEFINE q == a \o b
<1>1. a \in Seq(Parts) /\ b \in Seq(Parts) /\ Len(a) = 1 /\ Len(b) = 1
  BY DEF NamesOf
<1>2. /\ q \in Seq(Parts) /\ Len(q) = Len(a) + Len(b)
      /\ \A i \in 1..(Len(a) + Len(b)) : q[i] = IF i <= Len(a) THEN a[i] ELSE b[i - Len(a)]
  BY <1>1, ConcatProperties
<1> HIDE DEF q
<1>3. Len(q) = 2 /\ q[1] = a[1] /\ q[2] = b[1]
  BY <1>1, <1>2
<1>4. <<q[1]>> = a
  <2>1. a[1] \in Parts
    BY <1>1
  <2>2. <<q[1]>> \in Seq(Parts) /\ Len(<<q[1]>>) = 1 /\ <<q[1]>>[1] = a[1]
    BY <1>3, <2>1
  <2> HIDE DEF q
  <2>3. Len(a) = Len(<<q[1]>>) /\ \A i \in 1..Len(a) : a[i] = <<q[1]>>[i]
    BY <1>1, <2>2
  <2> QED
    BY <1>1, <2>2, <2>3, SeqEqual
<1>5. Tail(q) \in Seq(Parts) /\ Len(Tail(q)) = Len(q) - 1 /\ Tail(q)[1] = q[2]
  <2>1. q # << >>
    BY <1>2, <1>3
  <2>2. /\ Tail(q) \in Seq(Parts) /\ Len(Tail(q)) = Len(q) - 1
        /\ \A i \in 1..Len(Tail(q)) : Tail(q)[i] = q[i + 1]
    BY <1>2, <2>1, HeadTailProperties
  <2>3. 1 \in 1..Len(Tail(q))
    BY <1>3, <2>2
  <2> QED
    BY <2>2, <2>3
<1>6. Tail(q) = b
  <2>1. Len(Tail(q)) = Len(b) /\ \A i \in 1..Len(b) : Tail(q)[i] = b[i]
    BY <1>1, <1>3, <1>5
  <2> QED
    BY <1>1, <1>5, <2>1, SeqEqual
<1> QED
  BY <1>2, <1>3, <1>4, <1>6 DEF NamesOf, q

\* ByKey is a permutation of the positions that puts the keys in order.
LEMMA ByKeySorts ==
  ASSUME NEW keys, Listed(keys), \A i \in 1..Len(keys) : keys[i] \in NamesOf(2)
  PROVE  LET m == Len(keys)
             o == ByKey(keys)
         IN  /\ o \in [1..m -> 1..m]
             /\ \A i \in 1..m : \E k \in 1..m : o[k] = i
             /\ \A j, k \in 1..m : j < k =>
                  /\ o[j] # o[k]
                  /\ NameLess(keys[o[j]], keys[o[k]]) \/ keys[o[j]] = keys[o[k]]
<1> DEFINE m == Len(keys)
           R == {p \in (1..m) \X (1..m) :
                   \/ NameLess(keys[p[1]], keys[p[2]])
                   \/ p[1] < p[2] /\ ~NameLess(keys[p[2]], keys[p[1]])}
           o == InOrder(1..m, R)
<1>1. DOMAIN keys = 1..m /\ m \in Nat
  BY DEF Listed
<1>2. ByKey(keys) = o
  BY <1>1 DEF ByKey
<1>3. \A i, j \in 1..m :
        <<i, j>> \in R <=> NameLess(keys[i], keys[j]) \/ (i < j /\ keys[i] = keys[j])
  <2> TAKE i, j \in 1..m
  <2>1. <<i, j>> \in R <=>
          NameLess(keys[i], keys[j]) \/ (i < j /\ ~NameLess(keys[j], keys[i]))
    OBVIOUS
  <2>2. /\ keys[i] = keys[j] \/ NameLess(keys[i], keys[j]) \/ NameLess(keys[j], keys[i])
        /\ keys[i] = keys[j] => ~NameLess(keys[j], keys[i])
    BY NamesAreOrdered
  <2> HIDE DEF R
  <2> QED
    BY <2>1, <2>2
<1> HIDE DEF R
<1>4. StrictOrder(R, 1..m)
  <2>1. \A i \in 1..m : <<i, i>> \notin R
    BY <1>1, <1>3, NamesAreOrdered
  <2>2. \A i, j, k \in 1..m : <<i, j>> \in R /\ <<j, k>> \in R => <<i, k>> \in R
    <3> TAKE i, j, k \in 1..m
    <3> HAVE <<i, j>> \in R /\ <<j, k>> \in R
    <3>1. CASE keys[i] = keys[j] \/ keys[j] = keys[k]
      BY <1>1, <1>3, <3>1
    <3>2. CASE NameLess(keys[i], keys[j]) /\ NameLess(keys[j], keys[k])
      BY <1>3, <3>2, NamesAreOrdered
    <3> QED
      BY <1>3, <3>1, <3>2
  <2>3. \A i, j \in 1..m : i = j \/ <<i, j>> \in R \/ <<j, i>> \in R
    <3> TAKE i, j \in 1..m
    <3>1. keys[i] = keys[j] \/ NameLess(keys[i], keys[j]) \/ NameLess(keys[j], keys[i])
      BY NamesAreOrdered
    <3>2. i = j \/ i < j \/ j < i
      BY <1>1
    <3> QED
      BY <1>3, <3>1, <3>2
  <2> QED
    BY <2>1, <2>2, <2>3 DEF StrictOrder
<1>5. IsFiniteSet(1..m) /\ Cardinality(1..m) = m
  BY <1>1, FS_Interval
<1>6. /\ o \in [1..m -> 1..m]
      /\ \A i \in 1..m : \E k \in 1..m : o[k] = i
      /\ \A j, k \in 1..m : j < k => <<o[j], o[k]>> \in R
  <2> DEFINE D == 1..m
  <2>1. IsFiniteSet(D) /\ StrictOrder(R, D) /\ Cardinality(D) = m
    BY <1>4, <1>5
  <2> HIDE DEF D, m
  <2>2. /\ InOrder(D, R) \in [1..m -> D]
        /\ \A i \in D : \E k \in 1..m : InOrder(D, R)[k] = i
        /\ \A j, k \in 1..m : j < k => <<InOrder(D, R)[j], InOrder(D, R)[k]>> \in R
    BY <2>1, InOrderSorts
  <2> QED
    BY <2>2 DEF D
<1> HIDE DEF o, m
<1>7. \A j, k \in 1..m : j < k =>
        /\ o[j] # o[k]
        /\ NameLess(keys[o[j]], keys[o[k]]) \/ keys[o[j]] = keys[o[k]]
  <2> TAKE j, k \in 1..m
  <2> HAVE j < k
  <2>1. o[j] \in 1..m /\ o[k] \in 1..m /\ <<o[j], o[k]>> \in R
    BY <1>6
  <2>2. o[j] # o[k]
    BY <1>4, <2>1 DEF StrictOrder
  <2> QED
    BY <1>3, <2>1, <2>2
<1> QED
  BY <1>2, <1>6, <1>7 DEF m

-----------------------------------------------------------------------------
(* The invariant *)

\* The stages of the two commands after the configuration is read.
AfterConfig ==
  {"tokens", "policy", "connect", "store", "key", "names", "bind", "check", "serving"}

\* The configuration is the file's from the moment it is read.
ConfigInv ==
  /\ input \in Inputs
  /\ config = NONE \/ config = input.config
  /\ stage \in AfterConfig => /\ config = input.config
                              /\ Deserializes(config) /\ NamesAreFit(config.downstream)
  /\ stage \in {"bind", "serving"} => input.command = "serve"

\* A gateway that serves has been through the tokens.
TokensInv ==
  input.command = "serve" /\ stage \in AfterConfig \ {"tokens"} =>
    /\ TokensAreFit
    /\ tokens = [p \in DOMAIN config.principals |-> resolve(config.principals[p])]

\* The i-th client is the i-th downstream's, opened with what it is given.
ClientsInv ==
  /\ Listed(clients)
  /\ Len(clients) > 0 => config = input.config
  /\ Len(clients) > 0 => Len(clients) <= Len(config.downstream)
  /\ \A i \in 1..Len(clients) : /\ clients[i].given = Given(config.downstream[i])
                                /\ clients[i].server = config.downstream[i].name

ToolIsFit(t) ==
  /\ t.server \in NamesOf(1) /\ t.name \in NamesOf(1)
  /\ IsSchema(t.input) /\ (t.output # NoType => IsSchema(t.output))

\* Every tool is a client's, and no name stands for two.
ToolsInv ==
  /\ Listed(tools)
  /\ \A i \in 1..Len(tools) :
       /\ ToolIsFit(tools[i])
       /\ \E k \in 1..Len(clients) : tools[i].server = clients[k].server
  /\ \A i, j \in 1..Len(tools) :
       tools[i].server = tools[j].server /\ tools[i].name = tools[j].name => i = j

StartupInv == ConfigInv /\ TokensInv /\ ClientsInv /\ ToolsInv

\* The names in a prelude have been looked at.
NamesInv ==
  stage \in {"bind", "serving"} =>
    \A p \in DOMAIN config.principals : \A i \in DOMAIN allowed_schemas(p) :
      check_lua_names(allowed_schemas(p)[i])

-----------------------------------------------------------------------------
LEMMA AtFirst == Init => StartupInv
<1>1. Listed(<< >>) /\ Len(<< >>) = 0
  BY DEF Listed
<1> QED
  BY <1>1 DEF Init, StartupInv, ConfigInv, TokensInv, ClientsInv, ToolsInv, AfterConfig

\* What tokens and downstreams are given is read from the input and the file.
LEMMA SameInput ==
  ASSUME UNCHANGED <<input, config>>
  PROVE  /\ TokensAreFit' <=> TokensAreFit
         /\ \A secret : resolve(secret)' = resolve(secret)
         /\ \A d : Given(d)' = Given(d)
BY DEF TokensAreFit, resolve, Given, ChildEnv, Transport, OwnVars, Inherited

\* A step that connects nothing and resolves nothing.
LEMMA OtherSteps ==
  ASSUME StartupInv, UNCHANGED <<input, config, tokens, clients>>,
         stage' \in AfterConfig => stage \in AfterConfig,
         stage' \in AfterConfig \ {"tokens"} => stage # "tokens",
         stage' \in {"bind", "serving"} => stage \in {"bind", "serving"} \/ input.command = "serve"
  PROVE  /\ ConfigInv' /\ TokensInv' /\ ClientsInv'
         /\ UNCHANGED tools => StartupInv'
<1>1. ConfigInv' /\ TokensInv'
  BY SameInput DEF StartupInv, ConfigInv, TokensInv, AfterConfig
<1>2. ClientsInv'
  BY SameInput DEF StartupInv, ClientsInv
<1>3. UNCHANGED tools => ToolsInv'
  BY DEF StartupInv, ToolsInv
<1> QED
  BY <1>1, <1>2, <1>3 DEF StartupInv

LEMMA LoadConfigKeeps ==
  ASSUME StartupInv, LoadConfig
  PROVE  StartupInv'
<1>1. /\ stage = "config"
      /\ \/ /\ config' = input.config
            /\ Deserializes(input.config) /\ NamesAreFit(input.config.downstream)
            /\ stage' = (IF input.command = "serve" THEN "tokens" ELSE "policy")
         \/ config' = config /\ stage' = "exited"
      /\ UNCHANGED <<input, tokens, clients, tools>>
  BY DEF LoadConfig, Goto, SetupFails
<1>2. ConfigInv'
  BY <1>1 DEF StartupInv, ConfigInv, AfterConfig
<1>3. TokensInv'
  BY <1>1 DEF TokensInv, AfterConfig
<1>4. ClientsInv'
  <2>1. CASE config' = config
    BY <1>1, <2>1, SameInput DEF StartupInv, ClientsInv
  <2>2. CASE config' = input.config /\ Len(clients) = 0
    BY <1>1, <2>2 DEF StartupInv, ClientsInv
  <2>3. CASE config' = input.config /\ Len(clients) > 0
    <3>1. config' = config
      BY <2>3 DEF StartupInv, ClientsInv
    <3> QED
      BY <2>1, <3>1
  <2>4. Len(clients) \in Nat
    BY DEF StartupInv, ClientsInv, Listed
  <2> QED
    BY <1>1, <2>1, <2>2, <2>3, <2>4
<1>5. ToolsInv'
  BY <1>1 DEF StartupInv, ToolsInv
<1> QED
  BY <1>2, <1>3, <1>4, <1>5 DEF StartupInv

LEMMA ResolveTokensKeeps ==
  ASSUME StartupInv, ResolveTokens
  PROVE  StartupInv'
<1>1. /\ stage = "tokens"
      /\ \/ /\ TokensAreFit /\ stage' = "policy"
            /\ tokens' = [p \in DOMAIN config.principals |-> resolve(config.principals[p])]
         \/ stage' = "exited"
      /\ UNCHANGED <<input, config, clients, tools>>
  BY DEF ResolveTokens, Goto, SetupFails
<1>2. TokensInv'
  BY <1>1, SameInput DEF TokensInv, AfterConfig
<1>3. ConfigInv' /\ ToolsInv'
  BY <1>1 DEF StartupInv, ConfigInv, ToolsInv, AfterConfig
<1>4. ClientsInv'
  BY <1>1, SameInput DEF StartupInv, ClientsInv
<1> QED
  BY <1>2, <1>3, <1>4 DEF StartupInv

\* The tools of a downstream whose name is new join the others.
LEMMA ToolsJoin ==
  ASSUME ToolsInv, NEW listed, IsListing(listed), NEW server \in NamesOf(1),
         \A i \in DOMAIN listed : Len(listed[i].name) = 1,
         \A k \in 1..Len(clients) : clients[k].server # server,
         tools' = tools \o [i \in DOMAIN listed |-> tool_schema(server, listed[i])],
         Len(clients') = Len(clients) + 1, Len(clients) \in Nat,
         clients'[Len(clients) + 1].server = server,
         \A k \in 1..Len(clients) : clients'[k] = clients[k]
  PROVE  ToolsInv'
<1> DEFINE n == Len(tools)
           m == Len(listed)
           new == [i \in DOMAIN listed |-> tool_schema(server, listed[i])]
<1>1. m \in Nat /\ DOMAIN listed = 1..m
  BY DEF IsListing
<1>2. Listed(new) /\ Len(new) = m
  BY <1>1 DEF Listed
<1>3. \A i \in 1..m : /\ ToolIsFit(new[i]) /\ new[i].server = server
                      /\ new[i].name = listed[i].name
  <2> TAKE i \in 1..m
  <2>1. new[i] = tool_schema(server, listed[i])
    BY <1>1
  <2>2. /\ new[i].server = server /\ new[i].name = listed[i].name
        /\ new[i].input = listed[i].input /\ new[i].output = listed[i].output
    BY <2>1 DEF tool_schema
  <2> HIDE DEF new
  <2>3. listed[i].name \in NamesOf(1)
    BY <1>1 DEF IsListing, NamesOf, Parts
  <2> QED
    BY <1>1, <2>2, <2>3 DEF ToolIsFit, IsListing
<1> HIDE DEF m
<1>4. tools' = tools \o new
  OBVIOUS
<1> HIDE DEF new
<1>5. /\ Listed(tools') /\ Len(tools') = n + m
      /\ \A i \in 1..n : tools'[i] = tools[i]
      /\ \A i \in 1..m : tools'[n + i] = new[i]
      /\ \A i \in 1..(n + m) : i \in 1..n \/ \E j \in 1..m : i = n + j
  <2>1. n \in Nat /\ Listed(tools)
    BY DEF ToolsInv, Listed
  <2>2. /\ Listed(tools \o new) /\ Len(tools \o new) = Len(tools) + Len(new)
        /\ \A i \in 1..Len(tools) : (tools \o new)[i] = tools[i]
        /\ \A i \in 1..Len(new) : (tools \o new)[Len(tools) + i] = new[i]
        /\ \A i \in 1..(Len(tools) + Len(new)) :
             i \in 1..Len(tools) \/ \E j \in 1..Len(new) : i = Len(tools) + j
    BY <1>2, <2>1, ConcatLists, ZenonT(30)
  <2> QED
    BY <1>2, <1>4, <2>2, Zenon DEF n
<1> HIDE DEF n, m
<1>6. ASSUME NEW i \in 1..(n + m)
      PROVE  /\ ToolIsFit(tools'[i])
             /\ \E k \in 1..(Len(clients) + 1) : tools'[i].server = clients'[k].server
  <2>1. CASE i \in 1..n
    <3>1. PICK k \in 1..Len(clients) : tools[i].server = clients[k].server
      BY <2>1 DEF ToolsInv, n
    <3>2. k \in 1..(Len(clients) + 1) /\ clients'[k] = clients[k]
      BY <3>1
    <3> QED
      BY <1>5, <2>1, <3>1, <3>2 DEF ToolsInv, n
  <2>2. CASE \E j \in 1..m : i = n + j
    <3>1. PICK j \in 1..m : i = n + j
      BY <2>2
    <3>2. Len(clients) + 1 \in 1..(Len(clients) + 1)
      OBVIOUS
    <3> QED
      BY <1>3, <1>5, <3>1, <3>2
  <2> QED
    BY <1>5, <2>1, <2>2
<1>7. ASSUME NEW i \in 1..(n + m), NEW j \in 1..(n + m),
             tools'[i].server = tools'[j].server, tools'[i].name = tools'[j].name
      PROVE  i = j
  <2>1. CASE i \in 1..n /\ j \in 1..n
    BY <1>5, <1>7, <2>1 DEF ToolsInv, n
  <2>2. \A k \in 1..n : tools[k].server # server
    BY DEF ToolsInv, n
  <2>3. \A k \in 1..m : tools'[n + k].server = server /\ tools'[n + k].name = listed[k].name
    BY <1>3, <1>5, ZenonT(30)
  <2>4. CASE (\E k \in 1..m : i = n + k) /\ (\E k \in 1..m : j = n + k)
    <3>1. PICK k \in 1..m : i = n + k
      BY <2>4
    <3>2. PICK l \in 1..m : j = n + l
      BY <2>4
    <3>3. listed[k].name = listed[l].name
      BY <1>7, <2>3, <3>1, <3>2
    <3> QED
      BY <1>1, <3>1, <3>2, <3>3 DEF IsListing, m
  <2>5. i \in 1..n => tools'[i].server # server
    BY <1>5, <2>2
  <2>6. j \in 1..n => tools'[j].server # server
    BY <1>5, <2>2
  <2>7. (\E k \in 1..m : i = n + k) => tools'[i].server = server
    BY <2>3
  <2>8. (\E k \in 1..m : j = n + k) => tools'[j].server = server
    BY <2>3
  <2>9. /\ i \in 1..n \/ \E k \in 1..m : i = n + k
        /\ j \in 1..n \/ \E k \in 1..m : j = n + k
    BY <1>5
  <2> QED
    BY <1>7, <2>1, <2>4, <2>5, <2>6, <2>7, <2>8, <2>9
<1> QED
  <2>1. \A i \in 1..Len(tools') :
          /\ ToolIsFit(tools'[i])
          /\ \E k \in 1..Len(clients') : tools'[i].server = clients'[k].server
    BY <1>5, <1>6
  <2>2. \A i, j \in 1..Len(tools') :
          tools'[i].server = tools'[j].server /\ tools'[i].name = tools'[j].name => i = j
    BY <1>5, <1>7
  <2> QED
    BY <1>5, <2>1, <2>2 DEF ToolsInv

LEMMA AppendLists ==
  ASSUME NEW s, Listed(s), NEW e
  PROVE  /\ Listed(Append(s, e)) /\ Len(Append(s, e)) = Len(s) + 1
         /\ Append(s, e)[Len(s) + 1] = e
         /\ \A i \in 1..Len(s) : Append(s, e)[i] = s[i]
<1> DEFINE S == {s[i] : i \in 1..Len(s)}
           T == S \cup {e}
           u == Append(s, e)
<1>1. s \in Seq(S)
  BY ListedIsSeq
<1> HIDE DEF S
<1>2. s \in Seq(T) /\ e \in T
  BY <1>1, SeqMonotonic
<1> HIDE DEF T
<1>3. /\ u \in Seq(T) /\ Len(u) = Len(s) + 1 /\ u[Len(s) + 1] = e
      /\ \A i \in 1..Len(s) : u[i] = s[i]
  BY <1>2, AppendProperties
<1> HIDE DEF u
<1>4. Listed(u)
  BY <1>3 DEF Listed
<1> QED
  BY <1>3, <1>4 DEF u

LEMMA ConnectKeeps ==
  ASSUME StartupInv, Connect
  PROVE  StartupInv'
<1>1. CASE UNCHANGED <<tools, clients>> /\ stage' = "exited"
  BY <1>1, OtherSteps DEF Connect, AfterConfig
<1>2. CASE UNCHANGED stage
  <2> DEFINE n == Len(clients)
             d == config.downstream[n + 1]
             client == [server |-> d.name, given |-> Given(d)]
  <2>1. /\ stage = "connect" /\ n < Len(config.downstream)
        /\ clients' = Append(clients, client)
        /\ UNCHANGED <<input, config, tokens>>
    BY <1>2 DEF Connect, SetupFails
  <2>2. PICK listed \in Listings(Transport(d).target) :
          /\ \A i \in DOMAIN listed : Len(listed[i].name) = 1
          /\ tools' = tools \o [i \in DOMAIN listed |-> tool_schema(d.name, listed[i])]
    BY <1>2 DEF Connect, SetupFails
  <2>3. n \in Nat /\ Listed(clients)
    BY DEF StartupInv, ClientsInv, Listed
  <2>4. client.given = Given(config.downstream[n + 1]) /\ client.server = d.name
    OBVIOUS
  <2>5. /\ config = input.config /\ input \in Inputs
        /\ Len(config.downstream) \in Nat
        /\ DOMAIN config.downstream = 1..Len(config.downstream)
        /\ Deserializes(config) /\ NamesAreFit(config.downstream)
    BY <2>1, DownstreamsAreListed DEF StartupInv, ConfigInv, AfterConfig
  <2>6. n + 1 \in DOMAIN config.downstream /\ d \in Range(config.downstream)
    BY <2>1, <2>3, <2>5 DEF Range
  <2>7. IsListing(listed) /\ d.name \in NamesOf(1)
    <3>1. Transport(d) # NONE /\ Len(d.name) = 1
      BY <2>5, <2>6 DEF Deserializes, NamesAreFit
    <3> QED
      BY <2>5, <2>6, <3>1, DownstreamsAreNamed DEF NamesOf, Parts
  <2> HIDE DEF client, n
  <2>8. /\ Listed(clients') /\ Len(clients') = n + 1
        /\ clients'[n + 1] = client
        /\ \A i \in 1..n : clients'[i] = clients[i]
    BY <2>1, <2>3, AppendLists DEF n
  <2>9. \A k \in 1..n : clients[k].server # d.name
    <3> TAKE k \in 1..n
    <3>1. clients[k].server = config.downstream[k].name
      BY DEF StartupInv, ClientsInv, n
    <3>2. k \in DOMAIN config.downstream /\ k # n + 1
      BY <2>1, <2>3, <2>5
    <3> QED
      BY <2>5, <2>6, <3>1, <3>2 DEF NamesAreFit
  <2>10. \A i \in 1..(n + 1) : /\ clients'[i].given = Given(config.downstream[i])
                               /\ clients'[i].server = config.downstream[i].name
    BY <2>3, <2>4, <2>8 DEF StartupInv, ClientsInv, n
  <2> HIDE DEF d
  <2>11. ClientsInv'
    BY <2>1, <2>3, <2>5, <2>8, <2>10, SameInput DEF ClientsInv
  <2>12. ToolsInv'
    BY <2>2, <2>3, <2>4, <2>7, <2>8, <2>9, ToolsJoin DEF StartupInv, n
  <2>13. ConfigInv' /\ TokensInv'
    BY <1>2, <2>1, SameInput DEF StartupInv, ConfigInv, TokensInv
  <2> QED
    BY <2>11, <2>12, <2>13 DEF StartupInv
<1> QED
  BY <1>1, <1>2 DEF Connect, SetupFails

\* Sorting the tools neither loses nor doubles one.
LEMMA SortPermutes ==
  ASSUME NEW ts, Listed(ts), \A i \in 1..Len(ts) : ToolIsFit(ts[i])
  PROVE  /\ Listed(sort_tools(ts)) /\ Len(sort_tools(ts)) = Len(ts)
         /\ \E o \in [1..Len(ts) -> 1..Len(ts)] :
              /\ \A i \in 1..Len(ts) : \E k \in 1..Len(ts) : o[k] = i
              /\ \A k \in 1..Len(ts) : sort_tools(ts)[k] = ts[o[k]]
              /\ \A j, k \in 1..Len(ts) : j < k =>
                   /\ o[j] # o[k]
                   /\ \/ NameLess(qualified_name(ts[o[j]]), qualified_name(ts[o[k]]))
                      \/ qualified_name(ts[o[j]]) = qualified_name(ts[o[k]])
<1> DEFINE m == Len(ts)
           keys == [i \in DOMAIN ts |-> qualified_name(ts[i])]
           o == ByKey(keys)
           st == sort_tools(ts)
<1>1. m \in Nat /\ DOMAIN ts = 1..m
  BY DEF Listed
<1>2. Listed(keys) /\ Len(keys) = m /\ \A i \in 1..m : keys[i] = qualified_name(ts[i])
  BY <1>1 DEF Listed
<1>3. \A i \in 1..m : qualified_name(ts[i]) \in NamesOf(2)
  <2> TAKE i \in 1..m
  <2>1. ts[i].server \in NamesOf(1) /\ ts[i].name \in NamesOf(1)
    BY DEF ToolIsFit
  <2> QED
    BY <2>1, SplitName DEF qualified_name
<1>4. st = [k \in 1..m |-> ts[o[k]]]
  BY <1>1 DEF sort_tools
<1> HIDE DEF st, keys
<1>5. /\ o \in [1..m -> 1..m]
      /\ \A i \in 1..m : \E k \in 1..m : o[k] = i
      /\ \A j, k \in 1..m : j < k =>
           o[j] # o[k] /\ (NameLess(keys[o[j]], keys[o[k]]) \/ keys[o[j]] = keys[o[k]])
  BY <1>2, <1>3, ByKeySorts, SMTT(30)
<1> HIDE DEF o, m
<1>6. Listed(st) /\ Len(st) = m /\ \A k \in 1..m : st[k] = ts[o[k]]
  BY <1>1, <1>4 DEF Listed
<1>7. \A j, k \in 1..m : j < k =>
        /\ o[j] # o[k]
        /\ \/ NameLess(qualified_name(ts[o[j]]), qualified_name(ts[o[k]]))
           \/ qualified_name(ts[o[j]]) = qualified_name(ts[o[k]])
  <2> TAKE j, k \in 1..m
  <2> HAVE j < k
  <2>1. o[j] \in 1..m /\ o[k] \in 1..m
    BY <1>5
  <2>2. keys[o[j]] = qualified_name(ts[o[j]]) /\ keys[o[k]] = qualified_name(ts[o[k]])
    BY <1>2, <2>1
  <2>3. o[j] # o[k] /\ (NameLess(keys[o[j]], keys[o[k]]) \/ keys[o[j]] = keys[o[k]])
    BY <1>5
  <2> QED
    BY <2>2, <2>3
<1> QED
  BY <1>5, <1>6, <1>7 DEF m, st

LEMMA ConnectedKeeps ==
  ASSUME StartupInv, Connected
  PROVE  StartupInv'
<1> DEFINE n == Len(tools)
<1>1. Listed(tools) /\ n \in Nat /\ \A i \in 1..n : ToolIsFit(tools[i])
  BY DEF StartupInv, ToolsInv, Listed
<1>2. tools' = sort_tools(tools) /\ UNCHANGED <<input, config, tokens, clients>>
  BY DEF Connected
<1> HIDE DEF n
<1>3. Listed(tools') /\ Len(tools') = n
  BY <1>1, <1>2, SortPermutes DEF n
<1>4. PICK o \in [1..n -> 1..n] :
        /\ \A k \in 1..n : sort_tools(tools)[k] = tools[o[k]]
        /\ \A j, k \in 1..n : j < k => o[j] # o[k]
  <2>1. PICK o \in [1..Len(tools) -> 1..Len(tools)] :
          /\ \A k \in 1..Len(tools) : sort_tools(tools)[k] = tools[o[k]]
          /\ \A j, k \in 1..Len(tools) : j < k =>
               /\ o[j] # o[k]
               /\ \/ NameLess(qualified_name(tools[o[j]]), qualified_name(tools[o[k]]))
                  \/ qualified_name(tools[o[j]]) = qualified_name(tools[o[k]])
    BY <1>1, SortPermutes DEF n
  <2> QED
    BY <2>1 DEF n
<1>5. \A k \in 1..n : o[k] \in 1..n
  OBVIOUS
<1>6. \A j, k \in 1..n : o[j] = o[k] => j = k
  BY <1>1, <1>4
<1>7. ToolsInv'
  <2>1. \A i \in 1..n :
          /\ ToolIsFit(tools[i])
          /\ \E k \in 1..Len(clients) : tools[i].server = clients[k].server
    BY DEF StartupInv, ToolsInv, n
  <2>2. \A i, j \in 1..n :
          tools[i].server = tools[j].server /\ tools[i].name = tools[j].name => i = j
    BY DEF StartupInv, ToolsInv, n
  <2>3. \A k \in 1..n : tools'[k] = tools[o[k]]
    BY <1>2, <1>4
  <2>4. \A i \in 1..n :
          /\ ToolIsFit(tools'[i])
          /\ \E k \in 1..Len(clients) : tools'[i].server = clients[k].server
    BY <1>5, <2>1, <2>3
  <2>5. \A i, j \in 1..n :
          tools'[i].server = tools'[j].server /\ tools'[i].name = tools'[j].name => i = j
    BY <1>5, <1>6, <2>2, <2>3
  <2> QED
    BY <1>2, <1>3, <2>4, <2>5 DEF ToolsInv
<1>8. ConfigInv' /\ TokensInv' /\ ClientsInv'
  BY <1>2, OtherSteps DEF Connected, Goto, AfterConfig
<1> QED
  BY <1>7, <1>8 DEF StartupInv

LEMMA StartupInvHolds == Spec => []StartupInv
<1>1. StartupInv /\ [Next]_vars => StartupInv'
  <2> SUFFICES ASSUME StartupInv, [Next]_vars PROVE StartupInv'
    OBVIOUS
  <2>1. CASE LoadConfig \/ ResolveTokens \/ Connect \/ Connected
    BY <2>1, LoadConfigKeeps, ResolveTokensKeeps, ConnectKeeps, ConnectedKeeps
  <2>2. CASE ReadProgram
    BY <2>2, OtherSteps DEF ReadProgram, Goto, SetupFails, AfterConfig
  <2>3. CASE LoadPolicy
    BY <2>3, OtherSteps DEF LoadPolicy, Goto, SetupFails, AfterConfig
  <2>4. CASE OpenStore
    BY <2>4, OtherSteps DEF OpenStore, Goto, SetupFails, AfterConfig
  <2>5. CASE ReadKey
    BY <2>5, OtherSteps DEF ReadKey, Goto, SetupFails, AfterConfig
  <2>6. CASE CheckNames
    BY <2>6, OtherSteps DEF CheckNames, Goto, SetupFails, AfterConfig
  <2>7. CASE Bind
    BY <2>7, OtherSteps DEF Bind, Goto, SetupFails, AfterConfig
  <2>8. CASE CheckProgram
    BY <2>8, OtherSteps DEF CheckProgram, AfterConfig
  <2>9. CASE Settled \/ UNCHANGED vars
    BY <2>9, OtherSteps DEF Settled, vars
  <2> QED
    BY <2>1, <2>2, <2>3, <2>4, <2>5, <2>6, <2>7, <2>8, <2>9 DEF Next
<1> QED
  BY <1>1, AtFirst, PTL DEF Spec

LEMMA InvNamesOne == StartupInv => TokensNameOnePrincipal
<1> SUFFICES ASSUME StartupInv, stage = "serving", NEW p \in DOMAIN config.principals
             PROVE  /\ resolve(config.principals[p]) # ""
                    /\ principal_for(resolve(config.principals[p])) = {p}
  BY DEF TokensNameOnePrincipal, Serving
<1>1. /\ TokensAreFit
      /\ tokens = [q \in DOMAIN config.principals |-> resolve(config.principals[q])]
  BY DEF StartupInv, ConfigInv, TokensInv, AfterConfig
<1> QED
  BY <1>1 DEF TokensAreFit, principal_for

\* A gateway that serves knows every configured principal by one token that is
\* not empty and is nobody else's, whatever file and environment it started with.
THEOREM TokensAreUnambiguous == Spec => []TokensNameOnePrincipal
BY StartupInvHolds, InvNamesOne, PTL

LEMMA InvKeepsApart == StartupInv => CredentialsStayApart
<1> SUFFICES ASSUME StartupInv, NEW i \in DOMAIN clients
             PROVE  DOMAIN clients[i].given \cap SecretVars(config)
                      \subseteq OwnVars(config.downstream[i])
  BY DEF CredentialsStayApart
<1> DEFINE d == config.downstream[i]
<1>1. /\ i \in 1..Len(clients) /\ Len(clients) \in Nat
      /\ config = input.config /\ input \in Inputs
      /\ i <= Len(config.downstream)
      /\ clients[i].given = Given(d)
  <2>1. Len(clients) \in Nat /\ clients = [j \in 1..Len(clients) |-> clients[j]]
    BY DEF StartupInv, ClientsInv, Listed
  <2>2. i \in 1..Len(clients)
    BY <2>1
  <2> QED
    BY <2>1, <2>2, DownstreamsAreListed DEF StartupInv, ConfigInv, ClientsInv
<1>2. d \in Range(config.downstream)
  BY <1>1, DownstreamsAreListed DEF Range
<1>3. Inherited \cap SecretVars(config) \subseteq OwnVars(d)
  BY <1>1, <1>2, InheritedIsNoSecret
<1>4. DOMAIN Given(d) \subseteq OwnVars(d) \cup Inherited
  BY DEF Given, ChildEnv
<1> QED
  BY <1>1, <1>3, <1>4

\* A downstream is opened with no secret of the configuration but its own
\* credential: not the signing key, not a token, not the credential of another.
THEOREM DownstreamsLearnTheirOwn == Spec => []CredentialsStayApart
BY StartupInvHolds, InvKeepsApart, PTL

-----------------------------------------------------------------------------
(* Names and tools *)

LEMMA NameTells ==
  ASSUME NEW s, ToolIsFit(s), NEW t, ToolIsFit(t), qualified_name(s) = qualified_name(t)
  PROVE  s.server = t.server /\ s.name = t.name
<1>1. \A u : ToolIsFit(u) => u.server = <<qualified_name(u)[1]>> /\ u.name = Tail(qualified_name(u))
  BY SplitName DEF ToolIsFit, qualified_name
<1> QED
  BY <1>1

LEMMA InvReaches == StartupInv => CallsReachTheNamedTool
<1> SUFFICES ASSUME StartupInv, stage = "serving", NEW i \in DOMAIN tools
             PROVE  LET q == qualified_name(tools[i]) IN
                    /\ <<q[1]>> = tools[i].server /\ Tail(q) = tools[i].name
                    /\ \E k \in DOMAIN clients :
                         {n \in DOMAIN clients : clients[n].server = <<q[1]>>} = {k}
                    /\ \A j \in DOMAIN tools :
                         qualified_name(tools[j]) = q => tools[j] = tools[i]
  BY DEF CallsReachTheNamedTool, Serving
<1> DEFINE q == qualified_name(tools[i])
<1>1. DOMAIN tools = 1..Len(tools) /\ DOMAIN clients = 1..Len(clients)
  BY DEF StartupInv, ToolsInv, ClientsInv, Listed
<1>2. ToolIsFit(tools[i])
  BY <1>1 DEF StartupInv, ToolsInv
<1>3. <<q[1]>> = tools[i].server /\ Tail(q) = tools[i].name
  BY <1>2, SplitName DEF ToolIsFit, qualified_name
<1>4. PICK k \in 1..Len(clients) : tools[i].server = clients[k].server
  BY <1>1 DEF StartupInv, ToolsInv
<1>5. \A n \in 1..Len(clients) : clients[n].server = clients[k].server => n = k
  <2>1. /\ config = input.config /\ input \in Inputs /\ NamesAreFit(config.downstream)
        /\ Len(config.downstream) \in Nat
        /\ DOMAIN config.downstream = 1..Len(config.downstream)
    BY DownstreamsAreListed DEF StartupInv, ConfigInv, AfterConfig
  <2>2. /\ Len(clients) \in Nat /\ Len(clients) > 0 => Len(clients) <= Len(config.downstream)
        /\ \A n \in 1..Len(clients) : clients[n].server = config.downstream[n].name
    BY DEF StartupInv, ClientsInv, Listed
  <2>3. 1..Len(clients) \subseteq DOMAIN config.downstream
    BY <2>1, <2>2
  <2> QED
    BY <1>4, <2>1, <2>2, <2>3 DEF NamesAreFit
<1>6. \A j \in DOMAIN tools : qualified_name(tools[j]) = q => tools[j] = tools[i]
  <2> TAKE j \in DOMAIN tools
  <2> HAVE qualified_name(tools[j]) = q
  <2>1. ToolIsFit(tools[j])
    BY <1>1 DEF StartupInv, ToolsInv
  <2>2. tools[j].server = tools[i].server /\ tools[j].name = tools[i].name
    BY <1>2, <2>1, NameTells
  <2> QED
    BY <1>1, <2>2 DEF StartupInv, ToolsInv
<1> HIDE DEF q
<1>7. {n \in DOMAIN clients : clients[n].server = <<q[1]>>} = {k}
  BY <1>1, <1>3, <1>4, <1>5
<1> QED
  BY <1>1, <1>3, <1>4, <1>6, <1>7 DEF q

\* A gateway that serves has one tool of one connection for every name that the
\* rules can allow: Downstreams::call splits it into what it was made of.
THEOREM NamesReachTheirTool == Spec => []CallsReachTheNamedTool
BY StartupInvHolds, InvReaches, PTL

\* What a principal may call, in order and nothing twice.
LEMMA AllowedTools ==
  ASSUME ToolsInv, NEW p
  PROVE  LET al == allowed_schemas(p) IN
         /\ Listed(al)
         /\ \A k \in 1..Len(al) : ToolIsFit(al[k])
         /\ \A j, k \in 1..Len(al) : qualified_name(al[j]) = qualified_name(al[k]) => j = k
<1> DEFINE al == allowed_schemas(p)
           own == {i \in DOMAIN tools : p \in DOMAIN allow
                                        /\ qualified_name(tools[i]) \in allow[p]}
           c == Cardinality(own)
           R == {x \in own \X own : x[1] < x[2]}
           o == InOrder(own, R)
<1>1. Len(tools) \in Nat /\ DOMAIN tools = 1..Len(tools)
  BY DEF ToolsInv, Listed
<1>2. own \in SUBSET (1..Len(tools)) /\ IsFiniteSet(1..Len(tools))
  BY <1>1, FS_Interval
<1>3. al = [k \in 1..c |-> tools[o[k]]]
  BY DEF allowed_schemas, Kept
<1> HIDE DEF own, al
<1>4. IsFiniteSet(own)
  BY <1>2, FS_Subset
<1>5. \A i, j \in own : i \in Int /\ (<<i, j>> \in R <=> i < j)
  BY <1>1, <1>2
<1> HIDE DEF R
<1>6. StrictOrder(R, own)
  <2>1. \A i \in own : <<i, i>> \notin R
    BY <1>5
  <2>2. \A i, j, k \in own : <<i, j>> \in R /\ <<j, k>> \in R => <<i, k>> \in R
    <3> TAKE i, j, k \in own
    <3> HAVE <<i, j>> \in R /\ <<j, k>> \in R
    <3>1. i \in Int /\ j \in Int /\ k \in Int /\ i < j /\ j < k
      BY <1>5
    <3>2. i < k
      BY <3>1
    <3> QED
      BY <1>5, <3>2
  <2>3. \A i, j \in own : i = j \/ <<i, j>> \in R \/ <<j, i>> \in R
    <3> TAKE i, j \in own
    <3>1. i \in Int /\ j \in Int
      BY <1>5
    <3>2. i = j \/ i < j \/ j < i
      BY <3>1
    <3> QED
      BY <1>5, <3>2
  <2> QED
    BY <2>1, <2>2, <2>3 DEF StrictOrder
<1>7. /\ c \in Nat /\ o \in [1..c -> own]
      /\ \A j, k \in 1..c : j < k => <<o[j], o[k]>> \in R
  BY <1>4, <1>6, InOrderSorts
<1> HIDE DEF o, c
<1>8. Listed(al) /\ Len(al) = c /\ \A k \in 1..c : al[k] = tools[o[k]] /\ o[k] \in 1..Len(tools)
  <2>1. \A k \in 1..c : o[k] \in 1..Len(tools)
    BY <1>2, <1>7
  <2>2. Len(al) = c /\ DOMAIN al = 1..c /\ \A k \in 1..c : al[k] = tools[o[k]]
    BY <1>3, <1>7
  <2>3. al = [k \in 1..c |-> al[k]]
    BY <1>3
  <2> QED
    BY <1>7, <2>1, <2>2, <2>3 DEF Listed
<1>9. \A k \in 1..c : ToolIsFit(al[k])
  BY <1>8 DEF ToolsInv
<1>10. \A j, k \in 1..c : qualified_name(al[j]) = qualified_name(al[k]) => j = k
  <2> TAKE j, k \in 1..c
  <2> HAVE qualified_name(al[j]) = qualified_name(al[k])
  <2>1. al[j].server = al[k].server /\ al[j].name = al[k].name
    BY <1>9, NameTells
  <2>2. o[j] = o[k]
    <3>1. /\ o[j] \in 1..Len(tools) /\ o[k] \in 1..Len(tools)
          /\ al[j] = tools[o[j]] /\ al[k] = tools[o[k]]
      BY <1>8
    <3> QED
      BY <2>1, <3>1 DEF ToolsInv
  <2>3. ~(j < k) /\ ~(k < j)
    BY <1>6, <1>7, <2>2 DEF StrictOrder
  <2> QED
    BY <1>7, <2>3
<1> QED
  BY <1>8, <1>9, <1>10 DEF al

LEMMA InvIsCanonical == StartupInv => DescriptionIsCanonical
<1> SUFFICES ASSUME StartupInv, NEW p, NEW i \in DOMAIN description_for(p).text,
                    NEW j \in DOMAIN description_for(p).text, i < j
             PROVE  NameLess(description_for(p).text[i].tool, description_for(p).text[j].tool)
  BY DEF DescriptionIsCanonical
<1> DEFINE al == allowed_schemas(p)
           m == Len(al)
           st == sort_tools(al)
<1>1. /\ Listed(al) /\ \A k \in 1..m : ToolIsFit(al[k])
      /\ \A k, l \in 1..m : qualified_name(al[k]) = qualified_name(al[l]) => k = l
  BY AllowedTools DEF StartupInv
<1>2. description_for(p).text = [k \in DOMAIN st |-> render_tool(st[k])]
  BY DEF description_for, build
<1> HIDE DEF al
<1>3. Listed(st) /\ Len(st) = m
  BY <1>1, SortPermutes
<1>4. PICK o \in [1..m -> 1..m] :
        /\ \A k \in 1..m : st[k] = al[o[k]]
        /\ \A k, l \in 1..m : k < l =>
             /\ o[k] # o[l]
             /\ \/ NameLess(qualified_name(al[o[k]]), qualified_name(al[o[l]]))
                \/ qualified_name(al[o[k]]) = qualified_name(al[o[l]])
  BY <1>1, SortPermutes
<1> HIDE DEF st, m
<1>5. i \in 1..m /\ j \in 1..m
  BY <1>2, <1>3 DEF Listed
<1>6. /\ description_for(p).text[i].tool = qualified_name(al[o[i]])
      /\ description_for(p).text[j].tool = qualified_name(al[o[j]])
  <2>1. \A t : render_tool(t).tool = qualified_name(t)
    BY DEF render_tool
  <2> QED
    BY <1>2, <1>3, <1>4, <1>5, <2>1 DEF Listed
<1>7. o[i] \in 1..m /\ o[j] \in 1..m /\ o[i] # o[j]
  BY <1>4, <1>5
<1>8. qualified_name(al[o[i]]) # qualified_name(al[o[j]])
  BY <1>1, <1>7
<1> QED
  BY <1>4, <1>5, <1>6, <1>8

\* One set of tools has one description, in the order of the qualified names,
\* however the configuration and the downstreams ordered them.
THEOREM DescriptionsAreCanonical == Spec => []DescriptionIsCanonical
BY StartupInvHolds, InvIsCanonical, PTL

-----------------------------------------------------------------------------
(* Preludes *)

LEMMA NamesInvHolds == Spec => []NamesInv
<1>1. Init => NamesInv
  BY DEF Init, NamesInv
<1>2. NamesInv /\ [Next]_vars => NamesInv'
  <2> SUFFICES ASSUME NamesInv, [Next]_vars, stage' \in {"bind", "serving"}
               PROVE  \A p \in DOMAIN config'.principals :
                        \A i \in DOMAIN allowed_schemas(p)' :
                          check_lua_names(allowed_schemas(p)'[i])
    BY DEF NamesInv
  <2>1. /\ UNCHANGED <<config, tools, allow>>
        /\ \/ stage \in {"bind", "serving"}
           \/ \A p \in DOMAIN config.principals : \A i \in DOMAIN allowed_schemas(p) :
                check_lua_names(allowed_schemas(p)[i])
    <3>1. CASE CheckNames
      BY <3>1 DEF CheckNames, Goto, SetupFails
    <3>2. CASE Bind \/ Settled \/ UNCHANGED vars
      BY <3>2 DEF Bind, Settled, Goto, SetupFails, vars
    <3>3. CASE LoadConfig \/ ReadProgram \/ ResolveTokens
      BY <3>3 DEF LoadConfig, ReadProgram, ResolveTokens, Goto, SetupFails
    <3>4. CASE LoadPolicy \/ Connect \/ Connected
      BY <3>4 DEF LoadPolicy, Connect, Connected, Goto, SetupFails
    <3>5. CASE OpenStore \/ ReadKey \/ CheckProgram
      BY <3>5 DEF OpenStore, ReadKey, CheckProgram, Goto, SetupFails
    <3> QED
      BY <3>1, <3>2, <3>3, <3>4, <3>5 DEF Next
  <2>2. \A p : allowed_schemas(p)' = allowed_schemas(p)
    BY <2>1 DEF allowed_schemas, Kept, InOrder, qualified_name
  <2> QED
    BY <2>1, <2>2 DEF NamesInv
<1> QED
  BY <1>1, <1>2, PTL DEF Spec

\* The servers of a list of tools, in order.
Servers(ts) == {ts[i].server : i \in DOMAIN ts}
ServersInOrder(ts) ==
  InOrder(Servers(ts), {p \in Servers(ts) \X Servers(ts) : NameLess(p[1], p[2])})

LEMMA ServersAreListed ==
  ASSUME NEW ts, Listed(ts), \A i \in 1..Len(ts) : ToolIsFit(ts[i])
  PROVE  /\ Listed(ServersInOrder(ts))
         /\ \A k \in 1..Len(ServersInOrder(ts)) : ServersInOrder(ts)[k] \in Servers(ts)
<1> DEFINE m == Len(ts)
           named == Servers(ts)
           R == {p \in named \X named : NameLess(p[1], p[2])}
           servers == InOrder(named, R)
           f == [i \in 1..m |-> ts[i].server]
<1>1. m \in Nat /\ DOMAIN ts = 1..m
  BY DEF Listed
<1>2. f \in Surjection(1..m, named)
  BY <1>1 DEF Surjection, Servers
<1>3. IsFiniteSet(1..m)
  BY <1>1, FS_Interval
<1>4. \A a \in named : a \in NamesOf(1)
  BY <1>1 DEF ToolIsFit, Servers
<1> HIDE DEF named, f
<1>5. IsFiniteSet(named)
  BY <1>2, <1>3, FS_Surjection
<1>6. \A a, b \in named : <<a, b>> \in R <=> NameLess(a, b)
  OBVIOUS
<1> HIDE DEF R
<1>7. StrictOrder(R, named)
  <2>1. \A a \in named : <<a, a>> \notin R
    BY <1>4, <1>6, NamesAreOrdered
  <2>2. \A a, b, c \in named : <<a, b>> \in R /\ <<b, c>> \in R => <<a, c>> \in R
    <3> TAKE a, b, c \in named
    <3> HAVE <<a, b>> \in R /\ <<b, c>> \in R
    <3>1. NameLess(a, b) /\ NameLess(b, c)
      BY <1>6
    <3>2. NameLess(a, c)
      BY <1>4, <3>1, NamesAreOrdered
    <3> QED
      BY <1>6, <3>2
  <2>3. \A a, b \in named : a = b \/ <<a, b>> \in R \/ <<b, a>> \in R
    <3> TAKE a, b \in named
    <3>1. a = b \/ NameLess(a, b) \/ NameLess(b, a)
      BY <1>4, NamesAreOrdered
    <3> QED
      BY <1>6, <3>1
  <2> QED
    BY <2>1, <2>2, <2>3 DEF StrictOrder
<1>8. Cardinality(named) \in Nat /\ servers \in [1..Cardinality(named) -> named]
  BY <1>5, <1>7, InOrderSorts
<1> HIDE DEF servers
<1>9. Listed(servers) /\ \A k \in 1..Len(servers) : servers[k] \in named
  BY <1>8 DEF Listed
<1> QED
  BY <1>9 DEF servers, R, named, ServersInOrder

\* The lines of a prelude: declarations of servers, then one line per tool.
LEMMA PreludeLines ==
  ASSUME NEW ts, Listed(ts), \A i \in 1..Len(ts) : ToolIsFit(ts[i])
  PROVE  LET lines == prelude(ts) IN
         /\ Listed(lines)
         /\ \A l \in 1..Len(lines) :
              \/ \E i \in 1..Len(ts) : lines[l] = [declares |-> ts[i].server]
              \/ \E i \in 1..Len(ts) :
                   lines[l] = [server |-> ts[i].server, field |-> ts[i].name]
         /\ \A i \in 1..Len(ts) : \E l \in 1..Len(lines) :
              lines[l] = [server |-> ts[i].server, field |-> ts[i].name]
<1> DEFINE m == Len(ts)
           servers == ServersInOrder(ts)
           decls == [i \in DOMAIN servers |-> [declares |-> servers[i]]]
           fields == [i \in DOMAIN ts |-> [server |-> ts[i].server, field |-> ts[i].name]]
           lines == decls \o fields
<1>1. prelude(ts) = lines
  BY DEF prelude, ServersInOrder, Servers
<1>2. m \in Nat /\ DOMAIN ts = 1..m
  BY DEF Listed
<1>3. Listed(servers) /\ \A k \in 1..Len(servers) : servers[k] \in Servers(ts)
  BY ServersAreListed
<1>4. \A a \in Servers(ts) : \E i \in 1..m : a = ts[i].server
  BY <1>2 DEF Servers
<1> HIDE DEF servers
<1>5. /\ Listed(decls)
      /\ \A k \in 1..Len(decls) : \E i \in 1..m : decls[k] = [declares |-> ts[i].server]
  <2>1. Len(servers) \in Nat /\ DOMAIN servers = 1..Len(servers)
    BY <1>3 DEF Listed
  <2>2. Listed(decls) /\ Len(decls) = Len(servers)
    BY <2>1 DEF Listed
  <2>3. \A k \in 1..Len(servers) : decls[k] = [declares |-> servers[k]]
    BY <2>1
  <2> HIDE DEF decls
  <2> QED
    BY <1>3, <1>4, <2>2, <2>3
<1>6. /\ Listed(fields) /\ Len(fields) = m
      /\ \A k \in 1..m : fields[k] = [server |-> ts[k].server, field |-> ts[k].name]
  BY <1>2 DEF Listed
<1> HIDE DEF decls, fields, m
<1>7. /\ Listed(lines) /\ Len(lines) = Len(decls) + Len(fields)
      /\ \A i \in 1..Len(decls) : lines[i] = decls[i]
      /\ \A i \in 1..Len(fields) : lines[Len(decls) + i] = fields[i]
      /\ \A i \in 1..(Len(decls) + Len(fields)) :
           i \in 1..Len(decls) \/ \E j \in 1..Len(fields) : i = Len(decls) + j
  BY <1>5, <1>6, ConcatLists
<1> HIDE DEF lines
<1>8. ASSUME NEW l \in 1..Len(lines)
      PROVE  \/ \E i \in 1..m : lines[l] = [declares |-> ts[i].server]
             \/ \E i \in 1..m : lines[l] = [server |-> ts[i].server, field |-> ts[i].name]
  <2>1. CASE l \in 1..Len(decls)
    BY <1>5, <1>7, <2>1
  <2>2. CASE \E j \in 1..Len(fields) : l = Len(decls) + j
    BY <1>6, <1>7, <2>2
  <2> QED
    BY <1>7, <2>1, <2>2
<1>9. ASSUME NEW i \in 1..m
      PROVE  \E l \in 1..Len(lines) : lines[l] = [server |-> ts[i].server, field |-> ts[i].name]
  <2>1. Len(decls) + i \in 1..Len(lines)
    BY <1>2, <1>5, <1>6, <1>7 DEF Listed
  <2> QED
    BY <1>6, <1>7, <2>1
<1> QED
  BY <1>1, <1>7, <1>8, <1>9 DEF m

\* A prelude without a fault leaves the verdict to the program.
LEMMA SoundPrelude ==
  ASSUME NEW lines, Listed(lines), \A l \in 1..Len(lines) : LineCompiles(lines[l])
  PROVE  /\ compile_program(lines, [fault |-> 0, verifies |-> TRUE]).kind = "ok"
         /\ compile_program(lines, [fault |-> 1, verifies |-> TRUE])
              = [kind |-> "lint", line |-> 1]
<1>1. Len(lines) \in Nat /\ {i \in 1..Len(lines) : ~LineCompiles(lines[i])} = {}
  BY DEF Listed
<1>2. compile_program(lines, [fault |-> 0, verifies |-> TRUE]) = [kind |-> "ok", line |-> 0]
  BY <1>1 DEF compile_program
<1>3. compile_program(lines, [fault |-> 1, verifies |-> TRUE])
        = [kind |-> "lint", line |-> 1]
  BY <1>1 DEF compile_program
<1> QED
  BY <1>2, <1>3

\* A fault in the prelude is the one that is reported, and panics.
LEMMA FaultyPrelude ==
  ASSUME NEW lines, Listed(lines), NEW l \in 1..Len(lines), ~LineCompiles(lines[l])
  PROVE  compile_program(lines, [fault |-> 0, verifies |-> TRUE]).kind = "panic"
<1> DEFINE faults == {i \in 1..Len(lines) : ~LineCompiles(lines[i])}
           first == CHOOSE i \in faults : \A j \in faults : i <= j
<1>1. Len(lines) \in Nat /\ l \in faults
  BY DEF Listed
<1>2. \E i \in faults : \A j \in faults : i <= j
  <2> DEFINE R == {p \in faults \X faults : p[1] < p[2]}
             order == InOrder(faults, R)
             c == Cardinality(faults)
  <2>1. faults \subseteq 1..Len(lines) /\ \A i \in faults : i \in Nat
    BY <1>1
  <2>2. IsFiniteSet(faults)
    <3>1. faults \in SUBSET (1..Len(lines)) /\ IsFiniteSet(1..Len(lines))
      BY <1>1, FS_Interval
    <3> HIDE DEF faults
    <3> QED
      BY <3>1, FS_Subset
  <2> HIDE DEF faults
  <2>3. \A i, j \in faults : <<i, j>> \in R <=> i < j
    OBVIOUS
  <2> HIDE DEF R
  <2>4. StrictOrder(R, faults)
    BY <2>1, <2>3 DEF StrictOrder
  <2>5. /\ c \in Nat /\ order \in [1..c -> faults]
        /\ \A i \in faults : \E k \in 1..c : order[k] = i
        /\ \A j, k \in 1..c : j < k => <<order[j], order[k]>> \in R
    BY <2>2, <2>4, InOrderSorts
  <2> HIDE DEF order, c
  <2>6. 1 \in 1..c /\ order[1] \in faults
    BY <1>1, <2>5
  <2>7. ASSUME NEW j \in faults PROVE order[1] <= j
    <3>1. PICK k \in 1..c : order[k] = j
      BY <2>5
    <3>2. k = 1 \/ <<order[1], j>> \in R
      BY <2>5, <2>6, <3>1
    <3>3. order[1] \in Nat /\ j \in Nat
      BY <2>1, <2>6
    <3>4. k = 1 \/ order[1] < j
      BY <2>3, <2>6, <2>7, <3>2
    <3> QED
      BY <3>1, <3>3, <3>4
  <2> QED
    BY <2>6, <2>7
<1>3. first \in faults
  BY <1>2
<1>4. first <= Len(lines) /\ faults # {}
  BY <1>1, <1>3
<1>5. compile_program(lines, [fault |-> 0, verifies |-> TRUE]) = [kind |-> "panic", line |-> first]
  BY <1>4 DEF compile_program
<1> QED
  BY <1>5

LEMMA InvCompiles == StartupInv /\ NamesInv => PreludesCompile
<1> SUFFICES ASSUME StartupInv, NamesInv, stage = "serving",
                    NEW p \in DOMAIN config.principals
             PROVE  LET lines == description_for(p).prelude
                        Compile(fault) == compile_program(lines, [fault |-> fault, verifies |-> TRUE])
                        rejected == {t \in Range(allowed_schemas(p)) :
                                       t.name[1] \in RejectedFields}
                    IN  /\ rejected = {} => /\ Compile(0).kind = "ok"
                                            /\ Compile(1) = [kind |-> "lint", line |-> 1]
                        /\ rejected # {} => Compile(0).kind = "panic"
                        /\ {line.server \o line.field :
                              line \in {l \in Range(lines) : "field" \in DOMAIN l}}
                             = {qualified_name(t) : t \in Range(allowed_schemas(p))}
  BY DEF PreludesCompile, Serving
<1> DEFINE al == allowed_schemas(p)
           m == Len(al)
           st == sort_tools(al)
           lines == description_for(p).prelude
<1>1. Listed(al) /\ \A k \in 1..m : ToolIsFit(al[k])
  BY AllowedTools DEF StartupInv
<1>2. \A k \in 1..m : check_lua_names(al[k])
  BY <1>1 DEF NamesInv, Listed
<1>3. lines = prelude(st)
  BY DEF description_for, build
<1> HIDE DEF al, lines
<1>4. Listed(st) /\ Len(st) = m
  BY <1>1, SortPermutes
<1>5. PICK o \in [1..m -> 1..m] :
        /\ \A i \in 1..m : \E k \in 1..m : o[k] = i
        /\ \A k \in 1..m : st[k] = al[o[k]]
  BY <1>1, SortPermutes
<1> HIDE DEF st, m
<1>6. \A k \in 1..m : ToolIsFit(st[k]) /\ check_lua_names(st[k])
  BY <1>1, <1>2, <1>5
<1>7. /\ Listed(lines)
      /\ \A l \in 1..Len(lines) :
           \/ \E i \in 1..m : lines[l] = [declares |-> st[i].server]
           \/ \E i \in 1..m : lines[l] = [server |-> st[i].server, field |-> st[i].name]
      /\ \A i \in 1..m : \E l \in 1..Len(lines) :
           lines[l] = [server |-> st[i].server, field |-> st[i].name]
  BY <1>3, <1>4, <1>6, PreludeLines
<1> DEFINE rejected == {t \in Range(al) : t.name[1] \in RejectedFields}
<1>8. ASSUME rejected = {}, NEW l \in 1..Len(lines) PROVE LineCompiles(lines[l])
  <2>1. CASE \E i \in 1..m : lines[l] = [declares |-> st[i].server]
    <3>1. PICK i \in 1..m : lines[l] = [declares |-> st[i].server]
      BY <2>1
    <3>2. "declares" \in DOMAIN lines[l] /\ lines[l].declares = st[i].server
      BY <3>1
    <3>3. IsIdent(st[i].server) /\ st[i].server[1] \notin RejectedIdents
      BY <1>6 DEF check_lua_names, DIALECT_NAMES
    <3> QED
      BY <3>2, <3>3 DEF LineCompiles
  <2>2. CASE \E i \in 1..m : lines[l] = [server |-> st[i].server, field |-> st[i].name]
    <3>1. PICK i \in 1..m : lines[l] = [server |-> st[i].server, field |-> st[i].name]
      BY <2>2
    <3>2. /\ "declares" \notin DOMAIN lines[l]
          /\ lines[l].server = st[i].server /\ lines[l].field = st[i].name
      BY <3>1
    <3>3. /\ IsIdent(st[i].server) /\ st[i].server[1] \notin RejectedIdents
          /\ IsIdent(st[i].name)
      BY <1>6 DEF check_lua_names, DIALECT_NAMES
    <3>4. st[i].name[1] \notin RejectedFields
      <4>1. o[i] \in 1..m /\ al[o[i]] \in Range(al) /\ st[i] = al[o[i]]
        BY <1>1, <1>5 DEF Range, Listed, m
      <4> QED
        BY <1>8, <4>1
    <3> QED
      BY <3>2, <3>3, <3>4 DEF LineCompiles
  <2> QED
    BY <1>7, <2>1, <2>2
<1>9. rejected = {} =>
        /\ compile_program(lines, [fault |-> 0, verifies |-> TRUE]).kind = "ok"
        /\ compile_program(lines, [fault |-> 1, verifies |-> TRUE]) = [kind |-> "lint", line |-> 1]
  BY <1>7, <1>8, SoundPrelude
<1>10. ASSUME rejected # {}
       PROVE  compile_program(lines, [fault |-> 0, verifies |-> TRUE]).kind = "panic"
  <2>1. PICK t \in Range(al) : t.name[1] \in RejectedFields
    BY <1>10
  <2>2. PICK i \in 1..m : t = al[i]
    BY <1>1 DEF Range, Listed, m
  <2>3. PICK k \in 1..m : o[k] = i
    BY <1>5
  <2>4. PICK l \in 1..Len(lines) : lines[l] = [server |-> st[k].server, field |-> st[k].name]
    BY <1>7
  <2>5. st[k] = t
    BY <1>5, <2>2, <2>3
  <2>6. "declares" \notin DOMAIN lines[l] /\ lines[l].field = t.name
    BY <2>4, <2>5
  <2>7. ~LineCompiles(lines[l])
    BY <2>1, <2>6 DEF LineCompiles
  <2> QED
    BY <1>7, <2>7, FaultyPrelude
<1> DEFINE fields == {l \in Range(lines) : "field" \in DOMAIN l}
<1>11. ASSUME NEW line \in fields
       PROVE  \E t \in Range(al) : line.server \o line.field = qualified_name(t)
  <2>1. PICK l \in 1..Len(lines) : line = lines[l]
    BY <1>7 DEF Range, Listed
  <2>2. PICK i \in 1..m : lines[l] = [server |-> st[i].server, field |-> st[i].name]
    <3>1. "field" \in DOMAIN lines[l]
      BY <1>11, <2>1
    <3>2. \A a : DOMAIN [declares |-> a] = {"declares"}
      OBVIOUS
    <3>3. ASSUME NEW i \in 1..m, lines[l] = [declares |-> st[i].server] PROVE FALSE
      BY <3>1, <3>2, <3>3
    <3> QED
      BY <1>7, <3>3
  <2>3. o[i] \in 1..m /\ al[o[i]] \in Range(al) /\ st[i] = al[o[i]]
    BY <1>1, <1>5 DEF Range, Listed, m
  <2>4. line.server = st[i].server /\ line.field = st[i].name
    BY <2>1, <2>2
  <2>5. line.server \o line.field = qualified_name(al[o[i]])
    BY <2>3, <2>4 DEF qualified_name
  <2> QED
    BY <2>3, <2>5
<1>12. ASSUME NEW t \in Range(al)
       PROVE  \E line \in fields : line.server \o line.field = qualified_name(t)
  <2>1. PICK i \in 1..m : t = al[i]
    BY <1>1 DEF Range, Listed, m
  <2>2. PICK k \in 1..m : o[k] = i
    BY <1>5
  <2>3. PICK l \in 1..Len(lines) : lines[l] = [server |-> st[k].server, field |-> st[k].name]
    BY <1>7
  <2>4. lines[l] \in Range(lines) /\ "field" \in DOMAIN lines[l]
    BY <1>7, <2>3 DEF Range, Listed
  <2>5. lines[l].server = st[k].server /\ lines[l].field = st[k].name
    BY <2>3
  <2>6. st[k] = t
    BY <1>5, <2>1, <2>2
  <2>7. lines[l].server \o lines[l].field = qualified_name(t)
    BY <2>5, <2>6 DEF qualified_name
  <2> QED
    BY <2>4, <2>7
<1>13. {line.server \o line.field : line \in fields} = {qualified_name(t) : t \in Range(al)}
  <2> HIDE DEF fields
  <2> QED
    BY <1>11, <1>12
<1> QED
  BY <1>9, <1>10, <1>13 DEF lines, al

\* Every principal that can send a request has a prelude that defines the tools of
\* the principal and no other, and that compiles and does not shift the line a
\* fault of the program is reported at if and only if none of these tools has a
\* name that core rejects for a field, whichever names those are.
THEOREM EveryPreludeCompiles == Spec => []PreludesCompile
BY StartupInvHolds, NamesInvHolds, InvCompiles, PTL

-----------------------------------------------------------------------------
(* Signatures *)

\* sorted_properties lists every property once, with its type.
LEMMA PropertiesAreListed ==
  ASSUME NEW schema, IsSchema(schema)
  PROVE  LET ps == sorted_properties(schema) IN
         /\ \A i \in DOMAIN ps :
              /\ ps[i].name \in DOMAIN schema.properties
              /\ ps[i].type = schema.properties[ps[i].name]
              /\ ps[i].required <=> ps[i].name \in schema.required
         /\ \A n \in DOMAIN schema.properties : \E i \in DOMAIN ps : ps[i].name = n
<1> DEFINE given == DOMAIN schema.properties
           R == {p \in given \X given : Rank[p[1]] < Rank[p[2]]}
           names == InOrder(given, R)
           ps == sorted_properties(schema)
           c == Cardinality(given)
<1>1. IsFiniteSet(given) /\ given \subseteq DOMAIN Rank
  BY DEF IsSchema
<1>2. ps = [i \in DOMAIN names |-> [name     |-> names[i],
                                    type     |-> schema.properties[names[i]],
                                    required |-> names[i] \in schema.required]]
  BY DEF sorted_properties
<1> HIDE DEF given
<1>3. \A m, n \in given : <<m, n>> \in R <=> Rank[m] < Rank[n]
  OBVIOUS
<1>4. \A m \in given : m \in DOMAIN Rank /\ Rank[m] \in Nat
  BY <1>1, RankOrders
<1> HIDE DEF R
<1>5. StrictOrder(R, given)
  <2>1. \A m \in given : <<m, m>> \notin R
    BY <1>3, <1>4
  <2>2. \A l, m, n \in given : <<l, m>> \in R /\ <<m, n>> \in R => <<l, n>> \in R
    <3> TAKE l, m, n \in given
    <3> HAVE <<l, m>> \in R /\ <<m, n>> \in R
    <3>1. Rank[l] < Rank[m] /\ Rank[m] < Rank[n]
      BY <1>3
    <3>2. Rank[l] < Rank[n]
      BY <1>4, <3>1
    <3> QED
      BY <1>3, <3>2
  <2>3. \A m, n \in given : m = n \/ <<m, n>> \in R \/ <<n, m>> \in R
    <3> TAKE m, n \in given
    <3>1. Rank[m] = Rank[n] \/ Rank[m] < Rank[n] \/ Rank[n] < Rank[m]
      BY <1>4
    <3>2. Rank[m] = Rank[n] => m = n
      BY <1>4, RankOrders
    <3> QED
      BY <1>3, <3>1, <3>2
  <2> QED
    BY <2>1, <2>2, <2>3 DEF StrictOrder
<1>6. /\ names \in [1..c -> given]
      /\ \A n \in given : \E i \in 1..c : names[i] = n
  BY <1>1, <1>5, InOrderSorts
<1> HIDE DEF names, ps, c
<1>7. DOMAIN names = 1..c /\ \A i \in 1..c : names[i] \in given
  BY <1>6
<1>8. /\ DOMAIN ps = 1..c
      /\ \A i \in 1..c : /\ ps[i].name = names[i]
                         /\ ps[i].type = schema.properties[names[i]]
                         /\ ps[i].required <=> names[i] \in schema.required
  BY <1>2, <1>7
<1> QED
  BY <1>6, <1>7, <1>8 DEF ps, given

LEMMA SimpleTypes ==
  /\ DOMAIN simple_type = {"boolean", "string", "array", "object"}
  /\ \A type \in {"boolean", "string", "array", "object"} :
       simple_type[type] = IF type = "array" THEN "{...}"
                           ELSE IF type = "object" THEN "table" ELSE type
<1>1. /\ simple_type["boolean"] = "boolean" /\ simple_type["string"] = "string"
      /\ simple_type["array"] = "{...}" /\ simple_type["object"] = "table"
  BY DEF simple_type
<1>2. DOMAIN simple_type = {"boolean", "string", "array", "object"}
  BY DEF simple_type
<1> QED
  BY <1>1, <1>2

\* An argument type that is shown admits exactly what the schema admits.
LEMMA ArgumentTypes ==
  ASSUME NEW type, argument_type(type) # NoType, NEW kind \in LuaKinds
  PROVE  kind \in Means(argument_type(type)) <=> TypeAdmits(type, JsonOf[kind])
<1>1. type \in {"integer", "number", "boolean", "string", "array", "object"}
  BY SimpleTypes DEF argument_type
<1>2. type # NoType
  BY <1>1, NoTypeIsNoString
<1>3. TypeAdmits(type, JsonOf[kind]) <=>
        JsonOf[kind] = type \/ (type = "number" /\ JsonOf[kind] = "integer")
  <2>1. JsonOf[kind] \in {"integer", "string", "boolean", "array", "object"}
    BY DEF JsonOf, LuaKinds
  <2> QED
    BY <1>2, <2>1 DEF TypeAdmits, JsonNumbers
<1>4. Means(argument_type(type)) =
        IF type \in {"integer", "number"} THEN {"integer"}
        ELSE IF type = "array" THEN {"list"}
        ELSE IF type = "object" THEN {"record"} ELSE {type}
  <2>1. argument_type(type) = IF type \in {"integer", "number"} THEN "integer"
                              ELSE IF type = "array" THEN "{...}"
                              ELSE IF type = "object" THEN "table" ELSE type
    BY <1>1, SimpleTypes DEF argument_type
  <2> QED
    BY <1>1, <2>1 DEF Means
<1>5. /\ kind \in {"integer", "string", "boolean", "list", "record"}
      /\ JsonOf[kind] = IF kind = "list" THEN "array"
                        ELSE IF kind = "record" THEN "object" ELSE kind
  BY DEF JsonOf, LuaKinds
<1> QED
  BY <1>1, <1>3, <1>4, <1>5

\* What a field of a result becomes is of the type that is shown, or is the text of
\* a whole number.
LEMMA ReturnTypes ==
  ASSUME NEW type, return_type(type) # NoType, NEW json \in DOMAIN to_lua,
         TypeAdmits(type, json)
  PROVE  to_lua[json] \in ArrivesAs(return_type(type), json)
<1>1. type \in {"integer", "number", "boolean", "string", "array", "object"}
  BY SimpleTypes DEF return_type
<1>2. Means(return_type(type)) =
        IF type = "number" THEN {"integer", "string"}
        ELSE IF type = "array" THEN {"list"}
        ELSE IF type = "object" THEN {"record"} ELSE {type}
  <2>1. return_type(type) = IF type = "number" THEN "integer|string(decimal)"
                            ELSE IF type = "array" THEN "{...}"
                            ELSE IF type = "object" THEN "table" ELSE type
    BY <1>1, SimpleTypes DEF return_type
  <2> QED
    BY <1>1, <2>1 DEF Means
<1>3. /\ json \in {"integer", "whole", "decimal", "string", "boolean", "array", "object"}
      /\ to_lua[json] = IF json \in {"whole", "decimal"} THEN "string"
                        ELSE IF json = "array" THEN "list"
                        ELSE IF json = "object" THEN "record" ELSE json
  BY DEF to_lua
<1>4. type # NoType
  BY <1>1, NoTypeIsNoString
<1>5. CASE json = "whole"
  BY <1>3, <1>5 DEF ArrivesAs
<1>6. CASE json # "whole"
  <2>1. json = type \/ (type = "number" /\ json \in {"integer", "decimal"})
    BY <1>4, <1>6 DEF TypeAdmits, JsonNumbers
  <2>2. to_lua[json] \in Means(return_type(type))
    BY <1>1, <1>2, <1>3, <1>6, <2>1
  <2> QED
    BY <2>2 DEF ArrivesAs
<1> QED
  BY <1>5, <1>6

\* The note names an argument that the tool does not take.
LEMMA NotesAreTrue ==
  ASSUME NEW schema, IsSchema(schema)
  PROVE  fixed_actor_note(schema) \notin DOMAIN schema.properties
<1> DEFINE Found(i) == /\ DIRECTED_PAIRS[i][1] \in DOMAIN schema.properties
                       /\ DIRECTED_PAIRS[i][2] \notin DOMAIN schema.properties
           found == {i \in DOMAIN DIRECTED_PAIRS : Found(i)}
           first == CHOOSE i \in found : \A j \in found : i <= j
<1>1. fixed_actor_note(schema) = IF found = {} THEN NoType ELSE DIRECTED_PAIRS[first][2]
  BY DEF fixed_actor_note
<1>2. NoType \notin DOMAIN schema.properties
  BY NoTypeIsNoString DEF IsSchema
<1>3. DOMAIN DIRECTED_PAIRS = 1..4
  BY DEF DIRECTED_PAIRS
<1>4. ASSUME found # {} PROVE first \in found
  <2>1. found \subseteq 1..4
    BY <1>3
  <2> HIDE DEF found
  <2>2. \E i \in found : \A j \in found : i <= j
    <3>1. CASE 1 \in found
      BY <2>1, <3>1
    <3>2. CASE 1 \notin found /\ 2 \in found
      BY <2>1, <3>2
    <3>3. CASE 1 \notin found /\ 2 \notin found /\ 3 \in found
      BY <2>1, <3>3
    <3>4. CASE 1 \notin found /\ 2 \notin found /\ 3 \notin found
      <4>1. PICK i \in found : TRUE
        BY <1>4
      <4>2. \A j \in found : j = 4
        BY <2>1, <3>4
      <4> QED
        BY <4>1, <4>2
    <3> QED
      BY <3>1, <3>2, <3>3, <3>4
  <2> QED
    BY <2>2
<1>5. \A i \in found : DIRECTED_PAIRS[i][2] \notin DOMAIN schema.properties
  OBVIOUS
<1> HIDE DEF found, first
<1> QED
  BY <1>1, <1>2, <1>4, <1>5

\* The arguments of a signature are the properties of the input schema.
LEMMA SignatureArgs ==
  ASSUME NEW t, IsSchema(t.input)
  PROVE  LET sa == render_tool(t).args IN
         /\ \A i \in DOMAIN sa :
              /\ sa[i].name \in DOMAIN t.input.properties
              /\ sa[i].type = argument_type(t.input.properties[sa[i].name])
              /\ sa[i].optional <=> sa[i].name \notin t.input.required
         /\ \A n \in DOMAIN t.input.properties : \E i \in DOMAIN sa : sa[i].name = n
<1> DEFINE ps == sorted_properties(t.input)
           sa == render_tool(t).args
<1>1. sa = [i \in DOMAIN ps |-> [name     |-> ps[i].name,
                                 optional |-> ~ps[i].required,
                                 type     |-> argument_type(ps[i].type)]]
  BY DEF render_tool
<1>2. /\ \A i \in DOMAIN ps :
           /\ ps[i].name \in DOMAIN t.input.properties
           /\ ps[i].type = t.input.properties[ps[i].name]
           /\ ps[i].required <=> ps[i].name \in t.input.required
      /\ \A n \in DOMAIN t.input.properties : \E i \in DOMAIN ps : ps[i].name = n
  BY PropertiesAreListed
<1> HIDE DEF ps, sa
<1>3. /\ DOMAIN sa = DOMAIN ps
      /\ \A i \in DOMAIN ps : /\ sa[i].name = ps[i].name
                              /\ sa[i].optional <=> ~ps[i].required
                              /\ sa[i].type = argument_type(ps[i].type)
  BY <1>1
<1> QED
  BY <1>2, <1>3 DEF sa

\* What the signature rules out fails the schema, and nothing else but what it does
\* not show.
LEMMA ArgumentsAgree ==
  ASSUME NEW t, IsSchema(t.input),
         NEW given \in SUBSET DOMAIN t.input.properties, NEW args \in [given -> LuaKinds],
         NEW fits \in BOOLEAN
  PROVE  LET signature == render_tool(t)
             typed == \A i \in DOMAIN signature.args : signature.args[i].type # NoType
         IN  /\ Forbids(signature, args) => ~check_args(t.input, args, fits)
             /\ typed /\ ~Forbids(signature, args) =>
                  (check_args(t.input, args, fits) <=> t.input.builds /\ fits)
<1> DEFINE sig == render_tool(t)
           sa == sig.args
           props == t.input.properties
           Shown(n) == argument_type(props[n])
<1>1. /\ \A i \in DOMAIN sa : /\ sa[i].name \in DOMAIN props
                              /\ sa[i].type = Shown(sa[i].name)
                              /\ sa[i].optional <=> sa[i].name \notin t.input.required
      /\ \A n \in DOMAIN props : \E i \in DOMAIN sa : sa[i].name = n
  BY SignatureArgs
<1>2. Forbids(sig, args) <=>
        \E i \in DOMAIN sa :
          \/ ~sa[i].optional /\ sa[i].name \notin given
          \/ sa[i].name \in given /\ sa[i].type # NoType
             /\ args[sa[i].name] \notin Means(sa[i].type)
  BY DEF Forbids
<1>3. check_args(t.input, args, fits) <=>
        /\ t.input.builds /\ fits
        /\ t.input.required \subseteq given
        /\ \A n \in given : TypeAdmits(props[n], JsonOf[args[n]])
  BY DEF check_args
<1>4. t.input.required \subseteq DOMAIN props /\ given \subseteq DOMAIN props
  BY DEF IsSchema
<1>5. \A n \in given : Shown(n) # NoType =>
        (args[n] \in Means(Shown(n)) <=> TypeAdmits(props[n], JsonOf[args[n]]))
  BY ArgumentTypes
<1> HIDE DEF sig, sa, props, Shown
<1>6. ASSUME Forbids(sig, args) PROVE ~check_args(t.input, args, fits)
  <2>1. PICK i \in DOMAIN sa :
          \/ ~sa[i].optional /\ sa[i].name \notin given
          \/ sa[i].name \in given /\ sa[i].type # NoType
             /\ args[sa[i].name] \notin Means(sa[i].type)
    BY <1>2, <1>6
  <2>2. CASE ~sa[i].optional /\ sa[i].name \notin given
    BY <1>1, <1>3, <2>2
  <2>3. CASE /\ sa[i].name \in given /\ sa[i].type # NoType
             /\ args[sa[i].name] \notin Means(sa[i].type)
    BY <1>1, <1>3, <1>5, <2>3
  <2> QED
    BY <2>1, <2>2, <2>3
<1>7. ASSUME \A i \in DOMAIN sa : sa[i].type # NoType, ~Forbids(sig, args)
      PROVE  check_args(t.input, args, fits) <=> t.input.builds /\ fits
  <2>1. ASSUME NEW n \in t.input.required PROVE n \in given
    <3>1. PICK i \in DOMAIN sa : sa[i].name = n
      BY <1>1, <1>4
    <3> QED
      BY <1>1, <1>2, <1>7, <3>1
  <2>2. ASSUME NEW n \in given PROVE TypeAdmits(props[n], JsonOf[args[n]])
    <3>1. PICK i \in DOMAIN sa : sa[i].name = n
      BY <1>1, <1>4
    <3>2. Shown(n) # NoType /\ args[n] \in Means(Shown(n))
      BY <1>1, <1>2, <1>7, <3>1
    <3> QED
      BY <1>5, <3>2
  <2> QED
    BY <1>3, <2>1, <2>2
<1> QED
  BY <1>6, <1>7 DEF sig, sa

\* The fields of a result are shown with the types they have.
LEMMA ReturnsAgree ==
  ASSUME NEW t, t.output # NoType, IsSchema(t.output),
         NEW i \in DOMAIN render_tool(t).returns
  PROVE  LET field == render_tool(t).returns[i]
             type  == t.output.properties[field[1]]
         IN  field[2] # NoType => \A json \in DOMAIN to_lua :
               TypeAdmits(type, json) => to_lua[json] \in ArrivesAs(field[2], json)
<1> DEFINE ps == sorted_properties(t.output)
           field == render_tool(t).returns[i]
<1>1. render_tool(t).returns = [k \in DOMAIN ps |-> <<ps[k].name, return_type(ps[k].type)>>]
  BY DEF render_tool
<1>2. \A k \in DOMAIN ps : ps[k].type = t.output.properties[ps[k].name]
  BY PropertiesAreListed
<1> HIDE DEF ps
<1>3. field[1] = ps[i].name /\ field[2] = return_type(ps[i].type) /\ i \in DOMAIN ps
  BY <1>1
<1> HIDE DEF field
<1>4. field[2] = return_type(t.output.properties[field[1]])
  BY <1>2, <1>3
<1> QED
  BY <1>4, ReturnTypes DEF field

LEMMA InvMatches == StartupInv => SignaturesMatchTheSchemas
<1> SUFFICES ASSUME StartupInv, NEW t \in Range(tools)
             PROVE  LET signature == render_tool(t)
                        typed == \A i \in DOMAIN signature.args : signature.args[i].type # NoType
                    IN  /\ signature.note \notin DOMAIN t.input.properties
                        /\ \A given \in SUBSET DOMAIN t.input.properties :
                             \A args \in [given -> LuaKinds] : \A fits \in BOOLEAN :
                               /\ Forbids(signature, args) => ~check_args(t.input, args, fits)
                               /\ typed /\ ~Forbids(signature, args) =>
                                    (check_args(t.input, args, fits) <=> t.input.builds /\ fits)
                        /\ t.output # NoType => \A i \in DOMAIN signature.returns :
                             LET field == signature.returns[i]
                                 type  == t.output.properties[field[1]]
                             IN  field[2] # NoType => \A json \in DOMAIN to_lua :
                                   TypeAdmits(type, json)
                                     => to_lua[json] \in ArrivesAs(field[2], json)
  BY DEF SignaturesMatchTheSchemas
<1>1. ToolIsFit(t)
  BY DEF StartupInv, ToolsInv, Listed, Range
<1>2. render_tool(t).note = fixed_actor_note(t.input)
  BY DEF render_tool
<1>3. IsSchema(t.input) /\ (t.output # NoType => IsSchema(t.output))
  BY <1>1 DEF ToolIsFit
<1>4. render_tool(t).note \notin DOMAIN t.input.properties
  BY <1>2, <1>3, NotesAreTrue
<1> QED
  BY <1>3, <1>4, ArgumentsAgree, ReturnsAgree

\* What the description says of a tool is what the gateway enforces, for every
\* schema: check_args rejects the arguments the signature rules out, and others
\* only for what the signature does not show; the note on what the tool does not
\* take is true; and a field of a result has the type shown, or is the text of a
\* whole number that is no i64.
THEOREM SignaturesAreTrue == Spec => []SignaturesMatchTheSchemas
BY StartupInvHolds, InvMatches, PTL
=============================================================================
