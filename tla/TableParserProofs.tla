-------------------------- MODULE TableParserProofs --------------------------
(* What becomes of the rows of a table: src/macros/src/parser/data.rs,       *)
(* parser/mod.rs and validation.rs.                                          *)
(*                                                                           *)
(* An accepted table is the one its rows describe.  Three invariants carry   *)
(* that: Spelt (names, once checked), Collecting (every collected row fixes  *)
(* the types it gives) and Filing (the rows behind are filed, state by       *)
(* state).  Filing is by state, and a wildcard row passes the states one by  *)
(* one: a row is Past a state when it can add nothing there any more.        *)
EXTENDS TableParser, SelectionsProofs

-----------------------------------------------------------------------------
(* Parameters.                                                               *)

\* Lifetimes come before types and constants.
Ordered(params) ==
    \A i, j \in DOMAIN params : j < i /\ params[i].kind = "lifetime" => params[j].kind = "lifetime"

\* The lifetimes among the parameters.
Lifetimes(G) == {n \in Names(G.params) : n \in Lifetime}

\* rustc accepts no parameters in another order.
LEMMA DeclaredOrder == ASSUME NEW G, Declared(G) PROVE Ordered(G.params)
<1>1. DOMAIN G.params = 1..Len(G.params) /\ Len(G.params) \in Nat
  BY DEF Declared
<1>2. \A i, j \in DOMAIN G.params : j < i => j \in 1..(i - 1)
  BY <1>1
<1>. QED BY <1>2 DEF Declared, Ordered

\* The parameters of some kinds are a selection of the parameters.
LEMMA OfKindIs ==
    ASSUME NEW G, G.params \in Seq(Range(G.params)), NEW kinds, NEW t, t = OfKind(G, kinds)
    PROVE  /\ t \in Seq(Range(t))
           /\ \A k \in DOMAIN t : t[k].kind \in kinds /\ \E i \in DOMAIN G.params : t[k] = G.params[i]
           /\ \A i \in DOMAIN G.params : G.params[i].kind \in kinds => \E k \in DOMAIN t : t[k] = G.params[i]
<1>1. PICK n \in Nat : DOMAIN G.params = 1..n
  OBVIOUS
<1>2. PICK places : places = {i \in DOMAIN G.params : G.params[i].kind \in kinds}
  OBVIOUS
<1>3. places \in SUBSET (1..n)
  BY <1>1, <1>2
<1>3a. t = Those(G.params, places)
  BY <1>2 DEF OfKind
<1>4. /\ t \in Seq(Range(t))
      /\ \A k \in DOMAIN t : \E i \in places : t[k] = G.params[i]
      /\ \A i \in places : \E k \in DOMAIN t : t[k] = G.params[i]
  <2>1. Selects(Those(G.params, places), G.params, places)
    BY <1>3, ThoseAre
  <2>. QED BY <2>1, <1>3a DEF Selects
<1>. QED BY <1>2, <1>4

\* Among declared parameters a lifetime is of that kind, and nothing else is.
LEMMA DeclaredLifetimes ==
    ASSUME NEW G, Declared(G)
    PROVE  Names(OfKind(G, {"lifetime"})) = Lifetimes(G)
<1>1. PICK t : t = OfKind(G, {"lifetime"})
  OBVIOUS
<1>2. G.params \in Seq(Range(G.params))
  BY DEF Declared
<1>3. /\ \A k \in DOMAIN t : t[k].kind = "lifetime" /\ \E i \in DOMAIN G.params : t[k] = G.params[i]
      /\ \A i \in DOMAIN G.params : G.params[i].kind = "lifetime" => \E k \in DOMAIN t : t[k] = G.params[i]
  BY <1>1, <1>2, OfKindIs
<1>4. \A i \in DOMAIN G.params : G.params[i].kind = "lifetime" <=> G.params[i].name \in Lifetime
  BY DEF Declared
<1>5. Names(t) = Lifetimes(G)
  BY <1>3, <1>4 DEF Names, Lifetimes
<1>. QED BY <1>1, <1>5

\* t is a, b and c, one behind the other.
Chains(t, S, a, b, c) ==
    /\ t \in Seq(S)
    /\ \A k \in DOMAIN t :
         \/ k <= Len(a) + Len(b) /\ ((\E i \in DOMAIN a : t[k] = a[i]) \/ (\E i \in DOMAIN b : t[k] = b[i]))
         \/ k > Len(a) + Len(b) /\ \E i \in DOMAIN c : t[k] = c[i]
    /\ \A i \in DOMAIN a : \E k \in DOMAIN t : t[k] = a[i]
    /\ \A i \in DOMAIN b : \E k \in DOMAIN t : t[k] = b[i]
    /\ \A i \in DOMAIN c : \E k \in DOMAIN t : t[k] = c[i]

\* What concatenating three sequences gives.
LEMMA Three ==
    ASSUME NEW S, NEW a \in Seq(S), NEW b \in Seq(S), NEW c \in Seq(S)
    PROVE  Chains(a \o b \o c, S, a, b, c)
<1>0. PICK t : t = a \o b \o c
  OBVIOUS
<1>1. /\ DOMAIN a = 1..Len(a) /\ DOMAIN b = 1..Len(b) /\ DOMAIN c = 1..Len(c)
      /\ Len(a) \in Nat /\ Len(b) \in Nat /\ Len(c) \in Nat
  OBVIOUS
<1>2. PICK d : d = a \o b
  OBVIOUS
<1>3. /\ d \in Seq(S) /\ Len(d) = Len(a) + Len(b) /\ DOMAIN d = 1..Len(d)
      /\ \A k \in DOMAIN a : d[k] = a[k]
      /\ \A k \in DOMAIN b : d[Len(a) + k] = b[k]
  BY <1>1, <1>2
<1>4. /\ t \in Seq(S) /\ Len(t) = Len(d) + Len(c) /\ DOMAIN t = 1..Len(t)
      /\ \A k \in DOMAIN d : t[k] = d[k]
      /\ \A k \in DOMAIN c : t[Len(d) + k] = c[k]
  BY <1>0, <1>1, <1>2, <1>3
<1>5. \A k \in DOMAIN d : k \in DOMAIN a \/ \E i \in DOMAIN b : k = Len(a) + i
  <2>. TAKE k \in DOMAIN d
  <2>1. k \in DOMAIN a \/ k - Len(a) \in DOMAIN b
    BY <1>1, <1>3
  <2>2. k = Len(a) + (k - Len(a))
    BY <1>1, <1>3
  <2>. QED BY <2>1, <2>2
<1>6. \A k \in DOMAIN t : k \in DOMAIN d \/ (k > Len(d) /\ \E i \in DOMAIN c : k = Len(d) + i)
  <2>. TAKE k \in DOMAIN t
  <2>1. k \in DOMAIN d \/ (k > Len(d) /\ k - Len(d) \in DOMAIN c)
    BY <1>1, <1>3, <1>4
  <2>2. k = Len(d) + (k - Len(d))
    BY <1>1, <1>3, <1>4
  <2>. QED BY <2>1, <2>2
<1>7. /\ \A k \in DOMAIN a : k \in DOMAIN d
      /\ \A k \in DOMAIN b : Len(a) + k \in DOMAIN d
      /\ \A k \in DOMAIN d : k \in DOMAIN t /\ k <= Len(a) + Len(b)
      /\ \A k \in DOMAIN c : Len(d) + k \in DOMAIN t
  BY <1>1, <1>3, <1>4
<1>8. \A k \in DOMAIN d : (\E i \in DOMAIN a : d[k] = a[i]) \/ (\E i \in DOMAIN b : d[k] = b[i])
  BY <1>3, <1>5
<1>9. \A k \in DOMAIN t : \/ k \in DOMAIN d /\ k <= Len(a) + Len(b)
                          \/ k > Len(a) + Len(b) /\ \E i \in DOMAIN c : t[k] = c[i]
  BY <1>3, <1>4, <1>6, <1>7
<1>10. \A i \in DOMAIN b : t[Len(a) + i] = b[i] /\ Len(a) + i \in DOMAIN t
  BY <1>3, <1>4, <1>7
<1>11. \A i \in DOMAIN a : t[i] = a[i] /\ i \in DOMAIN t
  BY <1>3, <1>4, <1>7
<1>12. \A k \in DOMAIN d : t[k] = d[k]
  BY <1>4
<1>13. \A k \in DOMAIN t :
        \/ k <= Len(a) + Len(b) /\ ((\E i \in DOMAIN a : t[k] = a[i]) \/ (\E i \in DOMAIN b : t[k] = b[i]))
        \/ k > Len(a) + Len(b) /\ \E i \in DOMAIN c : t[k] = c[i]
  <2>. TAKE k \in DOMAIN t
  <2>1. CASE k \in DOMAIN d /\ k <= Len(a) + Len(b)
    BY <2>1, <1>8, <1>12
  <2>2. CASE k > Len(a) + Len(b) /\ \E i \in DOMAIN c : t[k] = c[i]
    BY <2>2
  <2>. QED BY <2>1, <2>2, <1>9
<1>14. \A i \in DOMAIN c : t[Len(d) + i] = c[i] /\ Len(d) + i \in DOMAIN t
  BY <1>4, <1>7
<1>15. t \in Seq(S)
  BY <1>4
<1>16. Chains(t, S, a, b, c)
  BY <1>10, <1>11, <1>13, <1>14, <1>15, Zenon DEF Chains
<1>. QED BY <1>0, <1>16

\* The parameters that WithLifetimes adds.
Added(kept) == {[kind |-> "lifetime", name |-> n, bounds |-> {}] : n \in kept}

\* W is G with some lifetimes declared in addition.
Extends(W, G, kept) ==
    /\ DOMAIN W = {"params", "predicates"} /\ W.predicates = G.predicates
    /\ W.params \in Seq(Range(W.params)) /\ Ordered(W.params)
    /\ \A i \in DOMAIN W.params :
         W.params[i] \in Added(kept) \/ \E j \in DOMAIN G.params : W.params[i] = G.params[j]
    /\ \A j \in DOMAIN G.params : \E i \in DOMAIN W.params : W.params[i] = G.params[j]
    /\ kept \subseteq Names(W.params)

\* WithLifetimes declares the lifetimes kept and loses no parameter.
LEMMA Extending ==
    ASSUME NEW G, Declared(G), NEW kept \in SUBSET Lifetime
    PROVE  Extends(WithLifetimes(G, kept), G, kept)
<1>1. PICK a : a = OfKind(G, {"lifetime"})
  OBVIOUS
<1>2. PICK c : c = OfKind(G, {"type", "const"})
  OBVIOUS
<1>3. PICK rest : rest = kept \ Names(a)
  OBVIOUS
<1>4. PICK missing : missing = SetToSeq(rest)
  OBVIOUS
<1>5. PICK b : b = [i \in DOMAIN missing |-> [kind |-> "lifetime", name |-> missing[i], bounds |-> {}]]
  OBVIOUS
<1>6. PICK W : W = WithLifetimes(G, kept)
  OBVIOUS
<1>7. W = IF missing = << >> THEN G ELSE [G EXCEPT !.params = a \o b \o c]
  BY <1>1, <1>2, <1>3, <1>4, <1>5, <1>6 DEF WithLifetimes
<1>8. IsFiniteSet(rest)
  BY <1>3, LifetimeAssumption, FS_Subset
<1>9. PICK m \in Nat : /\ missing \in [1..m -> rest]
                       /\ \A x \in rest : \E k \in 1..m : missing[k] = x
  BY <1>4, <1>8, SetToSeqAll
<1>10. G.params \in Seq(Range(G.params)) /\ DOMAIN G = {"params", "predicates"} /\ Ordered(G.params)
  BY DeclaredOrder DEF Declared
<1>11. a \in Seq(Range(a)) /\ c \in Seq(Range(c))
  BY <1>1, <1>2, <1>10, OfKindIs
<1>12. /\ \A k \in DOMAIN a : a[k].kind = "lifetime"
       /\ \A k \in DOMAIN c : c[k].kind # "lifetime"
  <2>1. \A k \in DOMAIN a : a[k].kind \in {"lifetime"}
    BY <1>1, <1>10, OfKindIs
  <2>2. \A k \in DOMAIN c : c[k].kind \in {"type", "const"}
    BY <1>2, <1>10, OfKindIs
  <2>. QED BY <2>1, <2>2
<1>12a. /\ \A k \in DOMAIN a : \E i \in DOMAIN G.params : a[k] = G.params[i]
        /\ \A k \in DOMAIN c : \E i \in DOMAIN G.params : c[k] = G.params[i]
  BY <1>1, <1>2, <1>10, OfKindIs
<1>12b. \A i \in DOMAIN G.params :
          (\E k \in DOMAIN a : a[k] = G.params[i]) \/ (\E k \in DOMAIN c : c[k] = G.params[i])
  <2>1. \A i \in DOMAIN G.params : G.params[i].kind \in {"lifetime"} => \E k \in DOMAIN a : a[k] = G.params[i]
    BY <1>1, <1>10, OfKindIs
  <2>2. \A i \in DOMAIN G.params : G.params[i].kind \in {"type", "const"} => \E k \in DOMAIN c : c[k] = G.params[i]
    BY <1>2, <1>10, OfKindIs
  <2>3. \A j \in DOMAIN G.params : G.params[j].kind \in {"lifetime", "type", "const"}
    BY DEF Declared
  <2>. QED BY <2>1, <2>2, <2>3
<1>13. CASE missing = << >>
  <2>1. rest = {}
    BY <1>9, <1>13
  <2>2. kept \subseteq Names(G.params)
    BY <2>1, <1>3, <1>12a DEF Names
  <2>. QED BY <2>2, <1>6, <1>7, <1>10, <1>13 DEF Extends
<1>14. CASE missing # << >>
  <2>1. DOMAIN W = {"params", "predicates"} /\ W.predicates = G.predicates /\ W.params = a \o b \o c
    BY <1>7, <1>10, <1>14
  <2>. DEFINE S == Range(a) \union Range(c) \union Added(rest)
  <2>2. DOMAIN b = 1..m /\ \A k \in 1..m : b[k] \in Added(rest) /\ b[k].kind = "lifetime" /\ b[k].name = missing[k]
    BY <1>5, <1>9 DEF Added
  <2>3. b = [k \in 1..m |-> b[k]]
    BY <1>5, <1>9
  <2>4. a \in Seq(S)
    BY <1>11, SeqMonotonic
  <2>4a. c \in Seq(S)
    BY <1>11, SeqMonotonic
  <2>5. \A k \in 1..m : b[k] \in S
    BY <2>2
  <2>. HIDE DEF S
  <2>6. b \in Seq(S)
    BY <2>3, <2>5
  <2>7. PICK t : t = a \o b \o c
    OBVIOUS
  <2>8. Chains(t, S, a, b, c)
    BY <2>4, <2>4a, <2>6, <2>7, Three
  <2>9. t \in Seq(Range(t)) /\ DOMAIN t \subseteq Int
    <3>1. t \in Seq(S)
      BY <2>8 DEF Chains
    <3>. QED BY <3>1, SeqOfRange
  <2>10. PICK l \in Int : l = Len(a) + Len(b)
    <3>1. Len(a) \in Nat /\ Len(b) \in Nat
      BY <2>4, <2>6
    <3>. QED BY <3>1
  <2>11. \A k \in DOMAIN t :
           \/ k <= l /\ ((\E i \in DOMAIN a : t[k] = a[i]) \/ (\E i \in DOMAIN b : t[k] = b[i]))
           \/ k > l /\ \E i \in DOMAIN c : t[k] = c[i]
    BY <2>8, <2>10, Zenon DEF Chains
  <2>12. /\ \A i \in DOMAIN a : \E k \in DOMAIN t : t[k] = a[i]
         /\ \A i \in DOMAIN b : \E k \in DOMAIN t : t[k] = b[i]
         /\ \A i \in DOMAIN c : \E k \in DOMAIN t : t[k] = c[i]
    BY <2>8, Zenon DEF Chains
  <2>13. Ordered(t)
    <3>1. \A k \in DOMAIN b : b[k].kind = "lifetime"
      BY <2>2
    <3>2. \A k \in DOMAIN t : (k <= l /\ t[k].kind = "lifetime") \/ (k > l /\ t[k].kind # "lifetime")
      BY <3>1, <2>11, <1>12
    <3>. QED BY <3>2, <2>9, <2>10 DEF Ordered
  <2>14. \A k \in DOMAIN t : t[k] \in Added(kept) \/ \E j \in DOMAIN G.params : t[k] = G.params[j]
    <3>1. Added(rest) \subseteq Added(kept)
      BY <1>3 DEF Added
    <3>2. \A k \in DOMAIN b : b[k] \in Added(kept)
      BY <3>1, <2>2
    <3>. QED BY <3>2, <2>11, <1>12a
  <2>15. \A j \in DOMAIN G.params : \E k \in DOMAIN t : t[k] = G.params[j]
    BY <2>12, <1>12b
  <2>16. kept \subseteq Names(t)
    <3>1. ASSUME NEW x \in kept PROVE \E k \in DOMAIN t : t[k].name = x
      <4>1. CASE \E i \in DOMAIN a : a[i].name = x
        BY <4>1, <2>12
      <4>2. CASE x \in rest
        <5>1. PICK i \in DOMAIN b : b[i].name = x
          BY <4>2, <2>2, <1>9
        <5>. QED BY <5>1, <2>12
      <4>. QED BY <4>1, <4>2, <1>3 DEF Names
    <3>. QED BY <3>1 DEF Names
  <2>17. W.params = t /\ DOMAIN W = {"params", "predicates"} /\ W.predicates = G.predicates
    BY <2>1, <2>7
  <2>18. Extends(W, G, kept)
    BY <2>9, <2>13, <2>14, <2>15, <2>16, <2>17 DEF Extends
  <2>. QED BY <2>18, <1>6
<1>. QED BY <1>13, <1>14

-----------------------------------------------------------------------------
(* The lifetimes of a callback.                                              *)

\* The lifetimes of G that are not kept.
Omitted(G, kept) == Lifetimes(G) \ kept

\* What is left of the parameters and predicates of W without those of G that
\* are not kept.
Filtered(F, W, G, kept) ==
    /\ DOMAIN F.params \subseteq Int
    /\ \A i \in DOMAIN F.params : i - 1 >= 0 /\ 1..(i - 1) \subseteq DOMAIN F.params
    /\ \A i \in DOMAIN F.params : \E j \in DOMAIN W.params :
         /\ F.params[i].name = W.params[j].name /\ F.params[i].kind = W.params[j].kind
         /\ F.params[i].bounds \subseteq W.params[j].bounds
         /\ \A b \in F.params[i].bounds : b \intersect Omitted(G, kept) = {}
    /\ \A j \in DOMAIN W.params :
         W.params[j].kind # "lifetime" \/ W.params[j].name \in kept => W.params[j].name \in Names(F.params)
    /\ Ordered(F.params)
    /\ \A p \in F.predicates : \E q \in W.predicates :
         /\ p.uses = q.uses /\ p.bounds \subseteq q.bounds
         /\ \A b \in p.bounds \union {p.uses} : b \intersect Omitted(G, kept) = {}

\* FilterLifetimes drops exactly what mentions an omitted lifetime.
LEMMA Filtering ==
    ASSUME NEW G, Declared(G), NEW kept \in SUBSET Lifetime, NEW W, Extends(W, G, kept)
    PROVE  Filtered(FilterLifetimes(W, G, kept), W, G, kept)
<1>. DEFINE omitted == Names(OfKind(G, {"lifetime"})) \ kept
            clean(bs) == {b \in bs : b \intersect omitted = {}}
            stays(p) == p.kind # "lifetime" \/ p.name \in kept
            places == {i \in DOMAIN W.params : stays(W.params[i])}
            t == Those(W.params, places)
            F == FilterLifetimes(W, G, kept)
<1>1. omitted = Omitted(G, kept)
  BY DeclaredLifetimes DEF Omitted
<1>2. F = IF omitted = {} THEN W
          ELSE [params |-> [i \in DOMAIN t |-> [t[i] EXCEPT !.bounds = clean(@)]],
                predicates |-> {[p EXCEPT !.bounds = clean(@)] :
                  p \in {q \in W.predicates : q.uses \intersect omitted = {} /\ clean(q.bounds) # {}}}]
  BY DEF FilterLifetimes
<1>. HIDE DEF F, omitted
<1>3. PICK n \in Nat : DOMAIN W.params = 1..n
  <2>1. W.params \in Seq(Range(W.params))
    BY DEF Extends
  <2>. QED BY <2>1
<1>4. \A j \in DOMAIN W.params :
        /\ DOMAIN W.params[j] = {"kind", "name", "bounds"}
        /\ W.params[j].kind = "lifetime" <=> W.params[j].name \in Lifetime
  <2>1. \A j \in DOMAIN G.params :
          /\ DOMAIN G.params[j] = {"kind", "name", "bounds"}
          /\ G.params[j].kind = "lifetime" <=> G.params[j].name \in Lifetime
    BY DEF Declared
  <2>2. \A x \in Added(kept) : DOMAIN x = {"kind", "name", "bounds"} /\ x.kind = "lifetime" /\ x.name \in Lifetime
    BY DEF Added
  <2>. QED BY <2>1, <2>2 DEF Extends
<1>5. \A q \in W.predicates : DOMAIN q = {"uses", "bounds"}
  BY DEF Declared, Extends
<1>7. CASE omitted = {}
  <2>1. F = W
    BY <1>2, <1>7
  <2>2. Filtered(W, W, G, kept)
    <3>1. \A b : b \intersect Omitted(G, kept) = {}
      BY <1>1, <1>7
    <3>2. /\ DOMAIN W.params \subseteq Int
          /\ \A i \in DOMAIN W.params : i - 1 >= 0 /\ 1..(i - 1) \subseteq DOMAIN W.params
      BY <1>3
    <3>3. Ordered(W.params)
      BY DEF Extends
    <3>. QED BY <3>1, <3>2, <3>3 DEF Filtered, Names
  <2>. QED BY <2>1, <2>2 DEF F
<1>8. CASE omitted # {}
  <2>1. places \in SUBSET (1..n) /\ \A j \in places : j \in DOMAIN W.params /\ stays(W.params[j])
    BY <1>3
  <2>2. \A j \in DOMAIN W.params : stays(W.params[j]) => j \in places
    OBVIOUS
  <2>. HIDE DEF places
  <2>3. Selects(t, W.params, places)
    BY <2>1, ThoseAre
  <2>. HIDE DEF t, clean
  <2>4. /\ F.params = [i \in DOMAIN t |-> [t[i] EXCEPT !.bounds = clean(@)]]
        /\ F.predicates = {[p EXCEPT !.bounds = clean(@)] :
              p \in {q \in W.predicates : q.uses \intersect omitted = {} /\ clean(q.bounds) # {}}}
    BY <1>2, <1>8
  <2>6. /\ \A k \in DOMAIN t : \E i \in places : t[k] = W.params[i]
        /\ \A i \in places : \E k \in DOMAIN t : t[k] = W.params[i]
        /\ \A k, l \in DOMAIN t : l < k => \E i, j \in places : j < i /\ t[k] = W.params[i] /\ t[l] = W.params[j]
    BY <2>3, Zenon DEF Selects
  <2>7. PICK m \in Nat : DOMAIN t = 1..m
    <3>1. t \in Seq(Range(t))
      BY <2>3 DEF Selects
    <3>. QED BY <3>1
  <2>8. DOMAIN F.params = DOMAIN t
    BY <2>4
  <2>9. \A i \in DOMAIN t :
          /\ F.params[i].name = t[i].name /\ F.params[i].kind = t[i].kind
          /\ F.params[i].bounds = clean(t[i].bounds)
    <3>1. \A i \in DOMAIN t : DOMAIN t[i] = {"kind", "name", "bounds"}
      <4>. TAKE i \in DOMAIN t
      <4>1. PICK j \in DOMAIN W.params : t[i] = W.params[j]
        BY <2>1, <2>6
      <4>. QED BY <4>1, <1>4
    <3>. QED BY <2>4, <3>1
  <2>10. /\ DOMAIN F.params \subseteq Int
         /\ \A i \in DOMAIN F.params : i - 1 >= 0 /\ 1..(i - 1) \subseteq DOMAIN F.params
    BY <2>7, <2>8
  <2>11. ASSUME NEW i \in DOMAIN F.params
         PROVE  \E j \in DOMAIN W.params :
                  /\ F.params[i].name = W.params[j].name /\ F.params[i].kind = W.params[j].kind
                  /\ F.params[i].bounds \subseteq W.params[j].bounds
                  /\ \A b \in F.params[i].bounds : b \intersect Omitted(G, kept) = {}
    <3>1. PICK j \in DOMAIN W.params : t[i] = W.params[j]
      BY <2>1, <2>6, <2>8
    <3>2. F.params[i].bounds = clean(W.params[j].bounds)
      BY <3>1, <2>8, <2>9
    <3>3. /\ F.params[i].bounds \subseteq W.params[j].bounds
          /\ \A b \in F.params[i].bounds : b \intersect omitted = {}
      BY <3>2 DEF clean
    <3>4. F.params[i].name = W.params[j].name /\ F.params[i].kind = W.params[j].kind
      BY <3>1, <2>8, <2>9
    <3>. QED BY <3>3, <3>4, <1>1
  <2>12. ASSUME NEW j \in DOMAIN W.params, W.params[j].kind # "lifetime" \/ W.params[j].name \in kept
         PROVE  W.params[j].name \in Names(F.params)
    <3>1. PICK k \in DOMAIN t : t[k] = W.params[j]
      BY <2>2, <2>6, <2>12
    <3>. QED BY <3>1, <2>8, <2>9 DEF Names
  <2>13. Ordered(F.params)
    <3>1. Ordered(W.params)
      BY DEF Extends
    <3>2. \A k, l \in DOMAIN t : l < k /\ t[k].kind = "lifetime" => t[l].kind = "lifetime"
      <4>. SUFFICES ASSUME NEW k \in DOMAIN t, NEW l \in DOMAIN t, l < k, t[k].kind = "lifetime"
                    PROVE  t[l].kind = "lifetime"
        OBVIOUS
      <4>1. PICK i \in places, j \in places : j < i /\ t[k] = W.params[i] /\ t[l] = W.params[j]
        BY <2>6
      <4>. QED BY <4>1, <3>1, <2>1 DEF Ordered
    <3>. QED BY <3>2, <2>8, <2>9 DEF Ordered
  <2>14. ASSUME NEW p \in F.predicates
         PROVE  \E q \in W.predicates :
                  /\ p.uses = q.uses /\ p.bounds \subseteq q.bounds
                  /\ \A b \in p.bounds \union {p.uses} : b \intersect Omitted(G, kept) = {}
    <3>1. PICK q \in W.predicates : q.uses \intersect omitted = {} /\ p = [q EXCEPT !.bounds = clean(@)]
      BY <2>4
    <3>2. p.uses = q.uses /\ p.bounds = clean(q.bounds)
      BY <3>1, <1>5
    <3>. QED BY <3>1, <3>2, <1>1 DEF clean
  <2>15. Filtered(F, W, G, kept)
    BY <2>10, <2>11, <2>12, <2>13, <2>14 DEF Filtered
  <2>. QED BY <2>15 DEF F
<1>. QED BY <1>7, <1>8

\* What the parameters of a callback have to be.
Closed(C, shown, lifetimes) ==
    /\ shown \union lifetimes \subseteq Names(C.params)
    /\ \A i \in DOMAIN C.params :
         /\ (UNION C.params[i].bounds) \intersect Lifetime \subseteq Names(C.params)
         /\ C.params[i].kind # "lifetime" => C.params[i].name \in shown
         /\ \A j \in 1..(i - 1) : C.params[i].kind = "lifetime" => C.params[j].kind = "lifetime"
    /\ \A p \in C.predicates : (p.uses \union UNION p.bounds) \intersect Lifetime \subseteq Names(C.params)

\* The lifetimes that a callback shows are kept with every parameter that it
\* shows, and all types and constants are shown if one parameter is.
LEMMA Closing ==
    ASSUME NEW G, Declared(G), NEW kept \in SUBSET Lifetime, NEW shown,
           shown \subseteq Names(G.params), shown \intersect Lifetime \subseteq kept,
           \A i \in DOMAIN G.params : G.params[i].kind \in {"type", "const"} => G.params[i].name \in shown
    PROVE  Closed(FilterLifetimes(WithLifetimes(G, kept), G, kept), shown, kept)
<1>1. PICK W : W = WithLifetimes(G, kept)
  OBVIOUS
<1>2. PICK F : F = FilterLifetimes(W, G, kept)
  OBVIOUS
<1>3. Extends(W, G, kept)
  BY <1>1, Extending
<1>4. Filtered(F, W, G, kept)
  BY <1>2, <1>3, Filtering
<1>5. \A j \in DOMAIN G.params :
        /\ G.params[j].kind \in {"lifetime", "type", "const"}
        /\ G.params[j].kind = "lifetime" <=> G.params[j].name \in Lifetime
        /\ (UNION G.params[j].bounds) \intersect Lifetime \subseteq Lifetimes(G)
  BY DEF Declared, Lifetimes
<1>6. \A j \in DOMAIN W.params :
        /\ W.params[j].kind = "lifetime" <=> W.params[j].name \in Lifetime
        /\ W.params[j].kind # "lifetime" => W.params[j].name \in shown
        /\ (UNION W.params[j].bounds) \intersect Lifetime \subseteq Lifetimes(G)
  <2>1. \A x \in Added(kept) : x.kind = "lifetime" /\ x.name \in Lifetime /\ x.bounds = {}
    BY DEF Added
  <2>2. \A j \in DOMAIN W.params : W.params[j] \in Added(kept) \/ \E i \in DOMAIN G.params : W.params[j] = G.params[i]
    BY <1>3 DEF Extends
  <2>. TAKE j \in DOMAIN W.params
  <2>3. CASE W.params[j] \in Added(kept)
    BY <2>1, <2>3
  <2>4. CASE \E i \in DOMAIN G.params : W.params[j] = G.params[i]
    BY <2>4, <1>5
  <2>. QED BY <2>2, <2>3, <2>4
<1>7. kept \subseteq Names(F.params)
  <2>1. kept \subseteq Names(W.params)
    BY <1>3 DEF Extends
  <2>. QED BY <2>1, <1>4 DEF Names, Filtered
<1>8. shown \subseteq Names(F.params)
  <2>1. ASSUME NEW x \in shown, x \notin Lifetime PROVE x \in Names(F.params)
    <3>1. PICK i \in DOMAIN G.params : G.params[i].name = x
      BY DEF Names
    <3>2. PICK j \in DOMAIN W.params : W.params[j] = G.params[i]
      BY <1>3 DEF Extends
    <3>. QED BY <3>1, <3>2, <2>1, <1>4, <1>6 DEF Filtered
  <2>. QED BY <2>1, <1>7
<1>9. \A S : S \intersect Lifetime \subseteq Lifetimes(G) /\ S \intersect Omitted(G, kept) = {}
              => S \intersect Lifetime \subseteq Names(F.params)
  BY <1>7 DEF Omitted
<1>10. ASSUME NEW i \in DOMAIN F.params
       PROVE  /\ (UNION F.params[i].bounds) \intersect Lifetime \subseteq Names(F.params)
              /\ F.params[i].kind # "lifetime" => F.params[i].name \in shown
  <2>1. PICK j \in DOMAIN W.params :
          /\ F.params[i].name = W.params[j].name /\ F.params[i].kind = W.params[j].kind
          /\ F.params[i].bounds \subseteq W.params[j].bounds
          /\ \A b \in F.params[i].bounds : b \intersect Omitted(G, kept) = {}
    BY <1>4 DEF Filtered
  <2>2. (UNION F.params[i].bounds) \intersect Lifetime \subseteq Lifetimes(G)
    BY <2>1, <1>6
  <2>3. (UNION F.params[i].bounds) \intersect Omitted(G, kept) = {}
    BY <2>1
  <2>. QED BY <2>1, <2>2, <2>3, <1>6, <1>9
<1>11. ASSUME NEW p \in F.predicates
       PROVE  (p.uses \union UNION p.bounds) \intersect Lifetime \subseteq Names(F.params)
  <2>1. PICK q \in W.predicates :
          /\ p.uses = q.uses /\ p.bounds \subseteq q.bounds
          /\ \A b \in p.bounds \union {p.uses} : b \intersect Omitted(G, kept) = {}
    BY <1>4 DEF Filtered
  <2>2. (q.uses \union UNION q.bounds) \intersect Lifetime \subseteq Lifetimes(G)
    BY <1>3 DEF Declared, Extends, Lifetimes
  <2>3. (p.uses \union UNION p.bounds) \intersect Lifetime \subseteq Lifetimes(G)
    BY <2>1, <2>2
  <2>4. (p.uses \union UNION p.bounds) \intersect Omitted(G, kept) = {}
    BY <2>1
  <2>. QED BY <2>3, <2>4, <1>9
<1>12. ASSUME NEW i \in DOMAIN F.params, NEW j \in 1..(i - 1), F.params[i].kind = "lifetime"
       PROVE  F.params[j].kind = "lifetime"
  <2>1. j \in DOMAIN F.params /\ i \in Int
    BY <1>4 DEF Filtered
  <2>2. j < i
    BY <2>1
  <2>. QED BY <2>1, <2>2, <1>4, <1>12 DEF Filtered, Ordered
<1>13. Closed(F, shown, kept)
  BY <1>7, <1>8, <1>10, <1>11, <1>12 DEF Closed
<1>. QED BY <1>1, <1>2, <1>13

\* Lifetimes declared alone mention nothing else.
LEMMA ClosingAlone ==
    ASSUME NEW lifetimes \in SUBSET Lifetime
    PROVE  Closed(WithLifetimes(NoGenerics, lifetimes), {}, lifetimes)
<1>1. Declared(NoGenerics) /\ DOMAIN NoGenerics.params = {} /\ NoGenerics.predicates = {}
  BY DEF Declared, NoGenerics
<1>2. PICK W : W = WithLifetimes(NoGenerics, lifetimes)
  OBVIOUS
<1>3. Extends(W, NoGenerics, lifetimes)
  BY <1>1, <1>2, Extending
<1>4. \A i \in DOMAIN W.params : W.params[i].kind = "lifetime" /\ W.params[i].bounds = {}
  BY <1>1, <1>3 DEF Extends, Added
<1>5. PICK n \in Nat : DOMAIN W.params = 1..n
  <2>1. W.params \in Seq(Range(W.params))
    BY <1>3 DEF Extends
  <2>. QED BY <2>1
<1>6. \A i \in DOMAIN W.params : \A j \in 1..(i - 1) : j \in DOMAIN W.params
  BY <1>5
<1>7. lifetimes \subseteq Names(W.params) /\ W.predicates = {}
  BY <1>1, <1>3 DEF Extends
<1>8. Closed(W, {}, lifetimes)
  BY <1>4, <1>6, <1>7 DEF Closed
<1>. QED BY <1>2, <1>8

\* callback_generics_with_lifetimes, given what ParsedStateMachine::new has
\* asked of the event and of the context.
LEMMA CallbackCloses ==
    ASSUME NEW G, Declared(G), NEW context, NEW lifetimes \in SUBSET Lifetime, NEW type,
           type # << >> => LifetimesOf(type[1]) \subseteq lifetimes,
           type # << >> /\ UsesGenerics(type[1], G) => ~Missing(type[1], G, {"type", "const"}),
           context # << >> /\ UsesGenerics(context[1], G) => ~Missing(context[1], G, {"type", "const"}),
           NEW shown, shown = UNION {t[1].uses \intersect Names(G.params) : t \in {type, context} \ {<< >>}}
    PROVE  Closed(CallbackGenerics(G, context, lifetimes, type), shown, lifetimes)
<1>1. PICK contextual \in BOOLEAN : contextual <=> context # << >> /\ UsesGenerics(context[1], G)
  OBVIOUS
<1>2. shown \subseteq Names(G.params)
  OBVIOUS
<1>3. \A t : UsesGenerics(t, G) <=> t.uses \intersect Names(G.params) # {}
  BY DEF UsesGenerics, UsesParam, Names
<1>4. \A t \in {type, context} : t # << >> => t[1].uses \intersect Names(G.params) \subseteq shown
  OBVIOUS
<1>5. \A x \in shown : \E t \in {type, context} : t # << >> /\ x \in t[1].uses /\ x \in Names(G.params)
  OBVIOUS
<1>6. \A t : ~Missing(t, G, {"type", "const"}) =>
               \A i \in DOMAIN G.params : G.params[i].kind \in {"type", "const"} =>
                 G.params[i].name \in t.uses \intersect Names(G.params)
  BY DEF Missing, UsesParam, Names
<1>7. CASE contextual
  <2>1. PICK kept : kept = lifetimes \union (LifetimesOf(context[1]) \intersect Lifetimes(G))
    OBVIOUS
  <2>2. CallbackGenerics(G, context, lifetimes, type) = FilterLifetimes(WithLifetimes(G, kept), G, kept)
    BY <1>1, <1>7, <2>1, DeclaredLifetimes DEF CallbackGenerics
  <2>3. kept \in SUBSET Lifetime
    BY <2>1 DEF LifetimesOf
  <2>4. shown \intersect Lifetime \subseteq kept
    <3>. SUFFICES ASSUME NEW x \in shown, x \in Lifetime PROVE x \in kept
      OBVIOUS
    <3>1. PICK t \in {type, context} : t # << >> /\ x \in t[1].uses /\ x \in Names(G.params)
      BY <1>5
    <3>2. x \in LifetimesOf(t[1]) /\ x \in Lifetimes(G)
      BY <3>1 DEF LifetimesOf, Lifetimes
    <3>. QED BY <3>1, <3>2, <2>1
  <2>5. \A i \in DOMAIN G.params : G.params[i].kind \in {"type", "const"} => G.params[i].name \in shown
    <3>1. ~Missing(context[1], G, {"type", "const"}) /\ context # << >>
      BY <1>1, <1>7
    <3>. QED BY <3>1, <1>4, <1>6
  <2>6. Closed(FilterLifetimes(WithLifetimes(G, kept), G, kept), shown, kept)
    BY <2>3, <2>4, <2>5, <1>2, Closing
  <2>. QED BY <2>1, <2>2, <2>6 DEF Closed
<1>8. CASE ~contextual /\ type # << >> /\ UsesGenerics(type[1], G)
  <2>1. CallbackGenerics(G, context, lifetimes, type) = FilterLifetimes(WithLifetimes(G, lifetimes), G, lifetimes)
    BY <1>1, <1>8 DEF CallbackGenerics, CompletionGenerics
  <2>2. shown \intersect Lifetime \subseteq lifetimes
    <3>. SUFFICES ASSUME NEW x \in shown, x \in Lifetime PROVE x \in lifetimes
      OBVIOUS
    <3>1. PICK t \in {type, context} : t # << >> /\ x \in t[1].uses /\ x \in Names(G.params)
      BY <1>5
    <3>2. t = type
      BY <3>1, <1>1, <1>3, <1>8
    <3>. QED BY <3>1, <3>2, <1>8 DEF LifetimesOf
  <2>3. \A i \in DOMAIN G.params : G.params[i].kind \in {"type", "const"} => G.params[i].name \in shown
    BY <1>4, <1>6, <1>8
  <2>4. Closed(FilterLifetimes(WithLifetimes(G, lifetimes), G, lifetimes), shown, lifetimes)
    BY <2>2, <2>3, <1>2, Closing
  <2>. QED BY <2>1, <2>4
<1>9. CASE ~contextual /\ ~(type # << >> /\ UsesGenerics(type[1], G))
  <2>1. CallbackGenerics(G, context, lifetimes, type) = WithLifetimes(NoGenerics, lifetimes)
    BY <1>1, <1>9 DEF CallbackGenerics, CompletionGenerics
  <2>2. shown = {}
    BY <1>1, <1>3, <1>5, <1>9
  <2>. QED BY <2>1, <2>2, ClosingAlone
<1>. QED BY <1>7, <1>8, <1>9

-----------------------------------------------------------------------------
(* The invariants.                                                           *)

\* The phases of the parser.
Phases == {"read", "route", "check", "collect", "expand", "validate",
           "accepted", "orthogonal", "refused"}

\* The types of the parser's state.
ParserTyped ==
    /\ input \in Inputs /\ phase \in Phases
    /\ rows \in Seq(AllRows) /\ at \in Nat \ {0}
    /\ DOMAIN data = {"state", "event"}
    /\ \A r \in AllRows : r.event.kind = "normal" => ~r.event.wildcard

\* The names were checked.
Checked == phase \in {"collect", "expand", "validate", "accepted"}

\* Once checked, no two names of the table collide.
Spelt ==
    Checked => ~Collide(StateNames(AllRows)) /\ ~Collide(EventNames(AllRows))

\* The rows collected so far.
Gathered(i) == i \in DOMAIN rows /\ (phase = "collect" => i < at)

\* Every row collected that gives an identifier a type gives it this one.
Fixed(ident, type) ==
    /\ ident \in DOMAIN table
    /\ type # << >> => ident \in DOMAIN data.state /\ data.state[ident] = type[1]

\* A type of an event is one that a row gives it.
Typing == \A n \in DOMAIN data.event : \E r \in AllRows : r.event.data # << >> /\ r.event.data[1] = data.event[n]

\* What is known of the types of states and events was given by the rows
\* collected, and all these agree.
Collecting ==
    /\ phase \in {"read", "route", "check"} =>
         table = Empty /\ data.state = Empty /\ data.event = Empty
    /\ Checked =>
        /\ Typing
        /\ \A i \in DOMAIN rows : Gathered(i) =>
             /\ ~rows[i].from.wildcard => Fixed(rows[i].from.ident, rows[i].from.data)
             /\ ~rows[i].to.internal => Fixed(rows[i].to.ident, rows[i].to.data)
        /\ phase = "collect" => \A s \in DOMAIN table : table[s] = Empty

\* The table was begun.
Expanded == phase \in {"expand", "validate", "accepted"}
\* The keys of the events that rows mention.
Keys == {Key(r.event) : r \in AllRows}
\* The fields of an entry of the table.
Fields == {"event", "kind", "wildcard", "external", "arms"}

\* The expansion is done with a row in a state.
Past(i, s) ==
    phase = "expand" => (i < at \/ (i = at /\ rows[i].from.wildcard /\ s \notin waiting))

\* A row is one of a state, or of every state.
Reaches(i, s) == rows[i].from.wildcard \/ rows[i].from.ident = s

\* Some row for the trigger was filed in the state.
Met(s, k) == \E i \in DOMAIN rows : Past(i, s) /\ Key(rows[i].event) = k /\ Reaches(i, s)

\* The rows that have an arm in a state for a key.
Taken(s, k) == {i \in DOMAIN rows : Past(i, s) /\ Claims(i, s, k)}

\* The arms are those of the rows taken, in the order of the rows.
ArmsOf(arms, s, taken) ==
    /\ arms \in Seq(Range(arms))
    /\ {arms[j].row : j \in DOMAIN arms} = taken
    /\ \A i, j \in DOMAIN arms : i < j => arms[i].row < arms[j].row
    /\ \A j \in DOMAIN arms : arms[j] = Arm(arms[j].row, s) /\ ~Unfilled(arms[j])

\* The entries of a state are right, as far as the expansion went there.
Settled(s) ==
    /\ DOMAIN table[s] \subseteq Keys
    /\ \A k \in Keys : k \in DOMAIN table[s] <=> Met(s, k)
    /\ \A k \in DOMAIN table[s] :
         /\ DOMAIN table[s][k] = Fields
         /\ ArmsOf(table[s][k].arms, s, Taken(s, k))

\* A wildcard row has an arm somewhere.
Works(i) == \E s \in DOMAIN table : Past(i, s) /\ Claims(i, s, Key(rows[i].event))

\* The table has what the rows passed have filed, in every state.
Filing ==
    Expanded =>
        /\ phase = "expand" => waiting \subseteq DOMAIN table
        /\ phase = "expand" /\ at \in DOMAIN rows /\ ~rows[at].from.wildcard => waiting = {}
        /\ phase = "expand" /\ at \notin DOMAIN rows => waiting = {}
        /\ \A s \in DOMAIN table : Settled(s)
        /\ phase = "expand" /\ added => at \in DOMAIN rows /\ Works(at)
        /\ \A i \in DOMAIN rows : (phase = "expand" => i < at) /\ rows[i].from.wildcard => Works(i)

-----------------------------------------------------------------------------
(* Types.                                                                    *)

\* A concatenation has the elements of both.
LEMMA Joined ==
    ASSUME NEW a, NEW b, a \in Seq(Range(a)), b \in Seq(Range(b))
    PROVE  /\ a \o b \in Seq(Range(a \o b))
           /\ Range(a \o b) = Range(a) \union Range(b)
<1>. DEFINE S == Range(a) \union Range(b)
<1>1. a \in Seq(S) /\ b \in Seq(S)
  BY SeqMonotonic
<1>2. a \o b \in Seq(S)
  BY <1>1, ConcatProperties
<1>3. Range(a \o b) = Range(a) \union Range(b)
  BY <1>1, RangeConcatenation
<1>. HIDE DEF S
<1>. QED BY <1>2, <1>3, SeqOfRange

\* AllRows is the set of the rows.
LEMMA AllRowsRange == AllRows = Range(rows)
BY DEF AllRows, Range

\* A step that leaves the rows alone keeps the types.
LEMMA TypedKept ==
    ASSUME ParserTyped, UNCHANGED <<input, rows>>, phase' \in Phases, at' \in Nat \ {0},
           DOMAIN data' = {"state", "event"}
    PROVE  ParserTyped'
BY DEF ParserTyped, AllRows

\* The parser starts well typed.
LEMMA TypedInit == Init => ParserTyped
BY DEF Init, ParserTyped, Phases, AllRows

\* Reading a row keeps the types.
LEMMA TypedRead == ASSUME ParserTyped, Read PROVE ParserTyped'
<1>. DEFINE read == Reading(Texts(input.body)[at])
<1>1. CASE read.fault # "none"
  BY <1>1 DEF ParserTyped, Read, Refuse, Phases, AllRows
<1>2. CASE read.fault = "none"
  <2>1. /\ read.value \in Seq(Range(read.value))
        /\ \A r \in Range(read.value) : r.event.kind = "normal" => ~r.event.wildcard
    BY <1>2, ReadingAssumption DEF ParserTyped, Read
  <2>2. rows \in Seq(Range(rows))
    BY AllRowsRange DEF ParserTyped
  <2>3. rows' = rows \o read.value /\ at' = at + 1 /\ UNCHANGED <<input, phase, data>>
    BY <1>2 DEF Read
  <2>. HIDE DEF read
  <2>4. rows' \in Seq(Range(rows)')
    BY <2>1, <2>2, <2>3, Joined
  <2>5. rows' \in Seq(AllRows')
    BY <2>4 DEF AllRows, Range
  <2>6. Range(rows)' = AllRows \union Range(read.value)
    BY <2>1, <2>2, <2>3, Joined, AllRowsRange
  <2>7. \A r \in AllRows' : r.event.kind = "normal" => ~r.event.wildcard
    BY <2>1, <2>6 DEF ParserTyped, AllRows, Range
  <2>. QED BY <2>3, <2>5, <2>7 DEF ParserTyped
<1>. QED BY <1>1, <1>2

\* Checking the names does.
LEMMA TypedCheck == ASSUME ParserTyped, Check PROVE ParserTyped'
<1>1. CASE phase' = "refused"
  <2>1. UNCHANGED <<input, rows, at, data>>
    BY <1>1 DEF Check, Refuse
  <2>. QED BY <1>1, <2>1 DEF ParserTyped, Phases, AllRows
<1>2. CASE phase' # "refused"
  <2>1. /\ rows' = [i \in DOMAIN rows |-> Derived(rows[i])]
        /\ phase' = "collect" /\ at' = 1 /\ UNCHANGED <<input, data>>
    BY <1>2 DEF Check, Refuse
  <2>2. DOMAIN rows = 1..Len(rows) /\ Len(rows) \in Nat
    BY DEF ParserTyped
  <2>. DEFINE derived == [i \in 1..Len(rows) |-> Derived(rows[i])]
              S       == {derived[i] : i \in 1..Len(rows)}
  <2>3. rows' = derived /\ AllRows' = S
    BY <2>1, <2>2 DEF AllRows
  <2>4. \A i \in 1..Len(rows) : derived[i] \in S
    OBVIOUS
  <2>. HIDE DEF S
  <2>5. derived \in Seq(S)
    BY <2>2, <2>4
  <2>6. rows' \in Seq(AllRows')
    BY <2>3, <2>5
  <2>7. \A i \in 1..Len(rows) : derived[i].event = rows[i].event
    BY DEF Derived
  <2>8. \A r \in AllRows' : r.event.kind = "normal" => ~r.event.wildcard
    BY <2>2, <2>3, <2>7 DEF S, ParserTyped, AllRows
  <2>. QED BY <2>1, <2>6, <2>8 DEF ParserTyped, Phases
<1>. QED BY <1>1, <1>2

\* Filing an arm does.
LEMMA TypedAdd ==
    ASSUME ParserTyped, phase = "expand", NEW s, NEW i, i \in Nat, Add(s, i)
    PROVE  ParserTyped'
<1>1. UNCHANGED <<input, rows, data>> /\ phase' \in Phases
  BY DEF Add, Refuse, Phases
<1>2. at' \in {at, i + 1}
  BY DEF Add, Refuse, Goto
<1>. QED BY <1>1, <1>2, TypedKept DEF ParserTyped

\* Every step keeps the types.
LEMMA TypedStep == ASSUME ParserTyped, [Next]_vars PROVE ParserTyped'
<1>1. CASE Read  BY <1>1, TypedRead
<1>2. CASE ReadEnd
  BY <1>2 DEF ReadEnd, Refuse, ParserTyped, Phases, AllRows
<1>3. CASE Route
  BY <1>3 DEF Route, ParserTyped, Phases, AllRows
<1>4. CASE Check  BY <1>4, TypedCheck
<1>5. CASE Collect
  <2>1. UNCHANGED <<input, rows>> /\ phase' \in Phases /\ DOMAIN data' = {"state", "event"}
    BY <1>5 DEF Collect, Refuse, Phases, ParserTyped
  <2>2. at' \in {at, at + 1}
    BY <1>5 DEF Collect, Refuse
  <2>. QED BY <2>1, <2>2, TypedKept DEF ParserTyped
<1>6. CASE CollectEnd
  BY <1>6 DEF CollectEnd, Goto, ParserTyped, Phases, AllRows
<1>7. CASE ExpandRow
  BY <1>7, TypedAdd DEF ExpandRow, ParserTyped
<1>8. CASE ExpandState
  <2>1. PICK s \in waiting : IF Skips(s, rows[at].event)
                 THEN UNCHANGED <<input, phase, rows, at, data>> ELSE Add(s, at)
    BY <1>8 DEF ExpandState
  <2>. QED BY <1>8, <2>1, TypedAdd DEF ExpandState, ParserTyped, AllRows
<1>9. CASE ExpandWildcard
  <2>1. UNCHANGED <<input, rows, data>> /\ phase' \in Phases
    BY <1>9 DEF ExpandWildcard, Refuse, Phases
  <2>2. at' \in {at, at + 1}
    BY <1>9 DEF ExpandWildcard, Refuse, Goto
  <2>. QED BY <2>1, <2>2, TypedKept DEF ParserTyped
<1>10. CASE ExpandEnd
  BY <1>10 DEF ExpandEnd, ParserTyped, Phases, AllRows
<1>11. CASE Validate
  BY <1>11 DEF Validate, Refuse, ParserTyped, Phases, AllRows
<1>12. CASE UNCHANGED vars
  BY <1>12 DEF vars, ParserTyped, AllRows
<1>. QED BY <1>1, <1>2, <1>3, <1>4, <1>5, <1>6, <1>7, <1>8, <1>9, <1>10, <1>11, <1>12 DEF Next

\* The parser's state stays well typed, for every definition.
LEMMA AlwaysTyped == Spec => []ParserTyped
<1>. QED BY TypedInit, TypedStep, PTL DEF Spec

-----------------------------------------------------------------------------
(* Checking.                                                                 *)

\* After its check a definition keeps its rows.
LEMMA RowsSettle ==
    ASSUME [Next]_vars, Checked', ~(Check /\ phase' # "refused")
    PROVE  /\ Checked /\ UNCHANGED <<input, rows>>
           /\ phase' = "collect" => phase = "collect"
           /\ phase' = "expand" => phase \in {"collect", "expand"}
           /\ phase' # "collect" => Expanded'
           /\ Len(rows') = Len(rows) /\ DOMAIN rows' = DOMAIN rows /\ AllRows' = AllRows
<1>1. Checked /\ UNCHANGED <<input, rows>>
  BY DEF Checked, Next, vars, Read, ReadEnd, Route, Check, Collect, CollectEnd, ExpandRow,
         ExpandState, ExpandWildcard, ExpandEnd, Validate, Refuse, Add
<1>2. phase' = "collect" => phase = "collect"
  BY DEF Checked, Next, vars, Read, ReadEnd, Route, Check, Collect, CollectEnd, ExpandRow,
         ExpandState, ExpandWildcard, ExpandEnd, Validate, Refuse, Add
<1>3. phase' = "expand" => phase \in {"collect", "expand"}
  BY DEF Checked, Next, vars, Read, ReadEnd, Route, Check, Collect, CollectEnd, ExpandRow,
         ExpandState, ExpandWildcard, ExpandEnd, Validate, Refuse, Add
<1>. QED BY <1>1, <1>2, <1>3 DEF Checked, Expanded, AllRows

\* When the names pass the check they are taken over, and no two collide.
LEMMA CheckPasses ==
    ASSUME ParserTyped, Check, phase' # "refused"
    PROVE  /\ rows' = [i \in DOMAIN rows |-> Derived(rows[i])]
           /\ phase' = "collect" /\ at' = 1
           /\ UNCHANGED <<input, data, table>>
           /\ AllRows' = {Derived(rows[i]) : i \in DOMAIN rows}
           /\ GenericFault(AllRows, input.generics, input.context) = "none"
           /\ ~Collide(StateNames(AllRows')) /\ ~Collide(EventNames(AllRows'))
<1>. DEFINE derived == [i \in DOMAIN rows |-> Derived(rows[i])]
            all     == {derived[i] : i \in DOMAIN derived}
<1>1. /\ rows' = derived /\ phase' = "collect" /\ at' = 1 /\ UNCHANGED <<input, data, table>>
      /\ GenericFault(AllRows, input.generics, input.context) = "none"
      /\ ~Collide(StateNames(all)) /\ ~Collide(EventNames(all))
  BY DEF Check, Refuse
<1>2. AllRows' = all
  BY <1>1 DEF AllRows
<1>3. all = {Derived(rows[i]) : i \in DOMAIN rows}
  OBVIOUS
<1>. HIDE DEF all
<1>. QED BY <1>1, <1>2, <1>3

\* Nothing is checked at first.
LEMMA SpeltInit == Init => Spelt
BY DEF Init, Spelt, Checked

\* Names that were checked stay as they are.
LEMMA SpeltStep == ASSUME ParserTyped, Spelt, [Next]_vars PROVE Spelt'
<1>1. CASE Check /\ phase' # "refused"
  BY <1>1, CheckPasses DEF Spelt
<1>2. CASE Checked' /\ ~(Check /\ phase' # "refused")
  <2>1. Checked /\ AllRows' = AllRows
    BY <1>2, RowsSettle
  <2>. QED BY <2>1 DEF Spelt
<1>3. CASE ~Checked'
  BY <1>3 DEF Spelt
<1>. QED BY <1>1, <1>2, <1>3

\* Two names that normalize to one identifier never become one state or event
\* of an accepted table: validate_machine_names, before the rows are collected.
THEOREM NamesStayDistinct == Spec => []NamesDistinct
<1>1. ParserTyped /\ Spelt => NamesDistinct
  <2>. SUFFICES ASSUME ParserTyped, Spelt, phase = "accepted", NEW q \in AllRows, NEW r \in AllRows
                PROVE  /\ ~q.to.internal /\ ~r.from.wildcard /\ q.to.ident = r.from.ident
                            => q.to.source = r.from.source
                       /\ q.event.kind = "normal" /\ r.event.kind = "normal" /\ q.event.ident = r.event.ident
                            => q.event.source = r.event.source
    BY DEF NamesDistinct
  <2>1. ~q.to.internal => <<q.to.ident, q.to.source>> \in StateNames(AllRows)
    BY DEF StateNames
  <2>2. ~r.from.wildcard => <<r.from.ident, r.from.source>> \in StateNames(AllRows)
    BY DEF StateNames
  <2>3. \A p \in {q, r} : p.event.kind = "normal" => <<p.event.ident, p.event.source>> \in EventNames(AllRows)
    BY DEF EventNames, ParserTyped
  <2>4. ~Collide(StateNames(AllRows)) /\ ~Collide(EventNames(AllRows))
    BY DEF Spelt, Checked
  <2>. QED BY <2>1, <2>2, <2>3, <2>4 DEF Collide
<1>2. QED
  BY <1>1, SpeltInit, SpeltStep, AlwaysTyped, PTL DEF Spec

-----------------------------------------------------------------------------
(* Collecting.                                                               *)

\* DataDefinitions::collect overrides no type.
LEMMA CollectedKeeps ==
    ASSUME NEW known, NEW name, NEW type, NEW new, Collects(known, name, type),
           new = Collected(known, name, type)
    PROVE  /\ \A n \in DOMAIN known : n \in DOMAIN new /\ new[n] = known[n]
           /\ \A n \in DOMAIN new : \/ n \in DOMAIN known /\ new[n] = known[n]
                                    \/ type # << >> /\ new[n] = type[1]
           /\ type # << >> => name \in DOMAIN new /\ new[name] = type[1]
BY DEF Collects, Collected, With

\* What is fixed for one row stays so.
LEMMA FixedKept ==
    ASSUME NEW ident, NEW type, Fixed(ident, type), DOMAIN table \subseteq DOMAIN table',
           \A n \in DOMAIN data.state : n \in DOMAIN data'.state /\ data'.state[n] = data.state[n]
    PROVE  Fixed(ident, type)'
BY DEF Fixed

\* Nothing is collected at first.
LEMMA CollectingInit == Init => Collecting
BY DEF Init, Collecting, Checked

\* Nor by the check of the names.
LEMMA CollectingCheck ==
    ASSUME ParserTyped, Collecting, Check, phase' # "refused"
    PROVE  Collecting'
<1>1. phase' = "collect" /\ at' = 1 /\ UNCHANGED <<data, table>>
  BY CheckPasses
<1>2. table = Empty /\ data.event = Empty
  BY DEF Collecting, Check
<1>3. DOMAIN rows' \subseteq Nat \ {0}
  BY TypedCheck DEF ParserTyped
<1>4. \A i \in DOMAIN rows' : ~Gathered(i)'
  BY <1>1, <1>3 DEF Gathered
<1>5. (DOMAIN table)' = {} /\ (DOMAIN data.event)' = {}
  BY <1>1, <1>2 DEF Empty
<1>. QED BY <1>1, <1>4, <1>5 DEF Collecting, Typing

\* Collecting a row adds its types, or they are those already known.
LEMMA CollectingRow ==
    ASSUME ParserTyped, Collecting, Collect, phase' # "refused"
    PROVE  Collecting'
<1>0. PICK r : r = rows[at]
  OBVIOUS
<1>. DEFINE leaves == ~r.from.wildcard
            enters == ~r.to.internal
            takes  == /\ ~r.event.wildcard /\ r.event.kind \notin {"entry", "exit", "exception"}
                      /\ r.event.kind = "completion" => r.event.data # << >>
            once   == IF leaves THEN Collected(data.state, r.from.ident, r.from.data) ELSE data.state
            states == (IF leaves THEN {r.from.ident} ELSE {}) \union (IF enters THEN {r.to.ident} ELSE {})
<1>1. /\ phase = "collect" /\ at \in DOMAIN rows
      /\ leaves => Collects(data.state, r.from.ident, r.from.data)
      /\ enters => Collects(once, r.to.ident, r.to.data)
      /\ takes => Collects(data.event, r.event.ident, r.event.data)
      /\ data' = [state |-> IF enters THEN Collected(once, r.to.ident, r.to.data) ELSE once,
                  event |-> IF takes THEN Collected(data.event, r.event.ident, r.event.data)
                                      ELSE data.event]
      /\ table' = [s \in states \union DOMAIN table |-> IF s \in states THEN Empty ELSE table[s]]
      /\ at' = at + 1
      /\ UNCHANGED <<phase, rows>>
  BY <1>0 DEF Collect, Refuse
<1>2. DOMAIN table' = DOMAIN table \union states
  BY <1>1
<1>3. \A s \in DOMAIN table' : table'[s] = Empty
  BY <1>1 DEF Collecting, Checked
<1>4. /\ \A n \in DOMAIN data.state : n \in DOMAIN once /\ once[n] = data.state[n]
      /\ leaves /\ r.from.data # << >> => r.from.ident \in DOMAIN once /\ once[r.from.ident] = r.from.data[1]
  <2>1. CASE leaves
    <3>1. once = Collected(data.state, r.from.ident, r.from.data)
      BY <2>1
    <3>. QED BY <3>1, <2>1, <1>1, CollectedKeeps
  <2>2. CASE ~leaves
    BY <2>2
  <2>. QED BY <2>1, <2>2
<1>. HIDE DEF once, states
<1>5. /\ \A n \in DOMAIN once : n \in DOMAIN data'.state /\ data'.state[n] = once[n]
      /\ enters /\ r.to.data # << >> => r.to.ident \in DOMAIN data'.state /\ data'.state[r.to.ident] = r.to.data[1]
  <2>1. CASE enters
    <3>1. data'.state = Collected(once, r.to.ident, r.to.data)
      BY <2>1, <1>1
    <3>. QED BY <3>1, <2>1, <1>1, CollectedKeeps
  <2>2. CASE ~enters
    BY <2>2, <1>1
  <2>. QED BY <2>1, <2>2
<1>6. \A n \in DOMAIN data'.event : \/ n \in DOMAIN data.event /\ data'.event[n] = data.event[n]
                                    \/ r.event.data # << >> /\ data'.event[n] = r.event.data[1]
  <2>1. CASE takes
    <3>1. data'.event = Collected(data.event, r.event.ident, r.event.data)
      BY <2>1, <1>1
    <3>. HIDE DEF takes
    <3>. QED BY <3>1, <2>1, <1>1, CollectedKeeps
  <2>2. CASE ~takes
    BY <2>2, <1>1
  <2>. QED BY <2>1, <2>2
<1>7. (leaves => r.from.ident \in states) /\ (enters => r.to.ident \in states)
  BY DEF states
<1>. HIDE DEF takes
<1>8. r \in AllRows /\ AllRows' = AllRows
  BY <1>0, <1>1 DEF AllRows
<1>9. (leaves => Fixed(r.from.ident, r.from.data)') /\ (enters => Fixed(r.to.ident, r.to.data)')
  BY <1>2, <1>4, <1>5, <1>7 DEF Fixed
<1>10. Typing'
  <2>1. Typing
    BY <1>1 DEF Collecting, Checked
  <2>2. ASSUME NEW n \in DOMAIN data'.event
        PROVE  \E q \in AllRows : q.event.data # << >> /\ q.event.data[1] = data'.event[n]
    BY <1>6, <1>8, <2>1 DEF Typing
  <2>. QED BY <1>8, <2>2 DEF Typing
<1>11. ASSUME NEW i \in DOMAIN rows', Gathered(i)', NEW q, q = rows[i]
       PROVE  /\ ~q.from.wildcard => Fixed(q.from.ident, q.from.data)'
              /\ ~q.to.internal => Fixed(q.to.ident, q.to.data)'
  <2>1. i \in Nat /\ at \in Nat /\ i < at + 1 /\ i \in DOMAIN rows
    BY <1>1, <1>11 DEF Gathered, ParserTyped
  <2>2. CASE i = at
    BY <2>2, <1>0, <1>9, <1>11
  <2>3. CASE i < at
    <3>1. /\ ~q.from.wildcard => Fixed(q.from.ident, q.from.data)
          /\ ~q.to.internal => Fixed(q.to.ident, q.to.data)
      BY <1>1, <1>11, <2>1, <2>3 DEF Gathered, Collecting, Checked
    <3>2. /\ DOMAIN table \subseteq DOMAIN table'
          /\ \A n \in DOMAIN data.state : n \in DOMAIN data'.state /\ data'.state[n] = data.state[n]
      BY <1>2, <1>4, <1>5
    <3>. QED BY <3>1, <3>2, FixedKept
  <2>. QED BY <2>1, <2>2, <2>3
<1>. QED BY <1>1, <1>3, <1>10, <1>11 DEF Collecting, Checked

\* Once all rows are collected, neither the states nor their data change.
LEMMA Expanding ==
    ASSUME [Next]_vars, Expanded'
    PROVE  UNCHANGED <<input, rows, data>> /\ DOMAIN table' = DOMAIN table
<1>1. UNCHANGED <<input, rows, data>>
  BY DEF Expanded, Next, vars, Read, ReadEnd, Route, Check, Collect, CollectEnd, ExpandRow,
         ExpandState, ExpandWildcard, ExpandEnd, Validate, Refuse, Add
<1>2. DOMAIN table' = DOMAIN table
  BY DEF Expanded, Next, vars, Read, ReadEnd, Route, Check, Collect, CollectEnd, ExpandRow,
         ExpandState, ExpandWildcard, ExpandEnd, Validate, Refuse, Add, WithArm
<1>. QED BY <1>1, <1>2

\* Every step keeps what is known of types right.
LEMMA CollectingStep == ASSUME ParserTyped, Collecting, [Next]_vars PROVE Collecting'
<1>1. CASE Check /\ phase' # "refused"
  BY <1>1, CollectingCheck
<1>2. CASE Collect /\ phase' # "refused"
  BY <1>2, CollectingRow
<1>3. CASE Expanded'
  <2>1. /\ Checked /\ UNCHANGED <<rows, data>> /\ DOMAIN table' = DOMAIN table
        /\ phase' \notin {"read", "route", "check", "collect"}
    BY <1>3, Expanding DEF Checked, Expanded, Next, vars, Read, ReadEnd, Route, Check, Collect, CollectEnd,
                ExpandRow, ExpandState, ExpandWildcard, ExpandEnd, Validate, Refuse, Add
  <2>2. AllRows' = AllRows
    BY <2>1 DEF AllRows
  <2>3. \A i \in DOMAIN rows : Gathered(i)
    <3>1. CASE phase = "collect"
      <4>1. CollectEnd
        BY <3>1, <1>3 DEF Expanded, Next, vars, Read, ReadEnd, Route, Check, Collect, CollectEnd,
                ExpandRow, ExpandState, ExpandWildcard, ExpandEnd, Validate, Refuse, Add
      <4>. QED BY <4>1 DEF CollectEnd, Gathered, ParserTyped
    <3>2. CASE phase # "collect"
      BY <3>2 DEF Gathered
    <3>. QED BY <3>1, <3>2
  <2>4. \A ident, type : Fixed(ident, type) => Fixed(ident, type)'
    BY <2>1 DEF Fixed
  <2>5. Typing'
    BY <2>1, <2>2 DEF Typing, Collecting
  <2>. QED BY <2>1, <2>3, <2>4, <2>5 DEF Collecting
<1>4. CASE ~Expanded' /\ ~Checked'
  <2>1. phase' \in {"read", "route", "check"} =>
          phase \in {"read", "route", "check"} /\ UNCHANGED <<data, table>>
    BY <1>4 DEF Checked, Next, vars, Read, ReadEnd, Route, Check, Collect, CollectEnd, ExpandRow,
         ExpandState, ExpandWildcard, ExpandEnd, Validate, Refuse, Add
  <2>. QED BY <1>4, <2>1 DEF Collecting
<1>5. CASE phase' = "collect" /\ ~Check /\ ~Collect
  <2>1. UNCHANGED vars
    BY <1>5 DEF Next, vars, Read, ReadEnd, Route, CollectEnd, ExpandRow,
         ExpandState, ExpandWildcard, ExpandEnd, Validate, Refuse, Add
  <2>. QED BY <2>1 DEF vars, Collecting, Checked, Typing, Gathered, Fixed, AllRows
<1>. QED BY <1>1, <1>2, <1>3, <1>4, <1>5 DEF Checked, Expanded

\* What is known of types is right in every state.
LEMMA AlwaysCollecting == Spec => []Collecting
BY CollectingInit, CollectingStep, AlwaysTyped, PTL DEF Spec

-----------------------------------------------------------------------------
(* Expansion.                                                                *)

\* A row claims a key only where it reaches, and only its own.
LEMMA ClaimsReach ==
    ASSUME NEW i, NEW s, NEW k, Claims(i, s, k)
    PROVE  Reaches(i, s) /\ Key(rows[i].event) = k
BY DEF Claims, Reaches

\* What rows say of states depends on the rows and the types only.
LEMMA RowFacts ==
    ASSUME UNCHANGED <<rows, data>>
    PROVE  /\ \A i, s : Arm(i, s)' = Arm(i, s) /\ (Reaches(i, s)' <=> Reaches(i, s))
           /\ \A i, s, k : Claims(i, s, k)' <=> Claims(i, s, k)
           /\ \A arm : Unfilled(arm)' <=> Unfilled(arm)
           /\ Keys' = Keys
<1>1. \A i, s : Arm(i, s)' = Arm(i, s) /\ (Reaches(i, s)' <=> Reaches(i, s))
  BY DEF Arm, Reaches
<1>2. \A i, s, k : Claims(i, s, k)' <=> Claims(i, s, k)
  BY DEF Claims
<1>3. \A arm : Unfilled(arm)' <=> Unfilled(arm)
  BY DEF Unfilled
<1>4. Keys' = Keys
  BY DEF Keys, AllRows
<1>. QED BY <1>1, <1>2, <1>3, <1>4

\* So do the arms.
LEMMA ArmsKept ==
    ASSUME UNCHANGED <<rows, data>>, NEW arms, NEW s, NEW taken, ArmsOf(arms, s, taken)
    PROVE  ArmsOf(arms, s, taken)'
BY RowFacts DEF ArmsOf

\* A row that comes to an end without an arm in a state has met another.
LEMMA SettledKept ==
    ASSUME NEW s, Settled(s), UNCHANGED <<rows, data>>,
           DOMAIN table'[s] = DOMAIN table[s],
           \A k \in DOMAIN table[s] :
              DOMAIN table'[s][k] = Fields /\ table'[s][k].arms = table[s][k].arms,
           \A i \in DOMAIN rows : Reaches(i, s) /\ Past(i, s) => Past(i, s)',
           \A i \in DOMAIN rows : Reaches(i, s) /\ Past(i, s)' /\ ~Past(i, s) =>
              Met(s, Key(rows[i].event)) /\ ~Claims(i, s, Key(rows[i].event))
    PROVE  Settled(s)'
<1>1. \A k : Met(s, k)' <=> Met(s, k)
  BY RowFacts DEF Met
<1>2. \A k : Taken(s, k)' = Taken(s, k)
  <2>. TAKE k
  <2>1. \A i : Claims(i, s, k)' <=> Claims(i, s, k)
    BY RowFacts
  <2>2. \A i \in DOMAIN rows : Claims(i, s, k) => (Past(i, s)' <=> Past(i, s))
    BY ClaimsReach
  <2>. QED BY <2>1, <2>2 DEF Taken
<1>3. Keys' = Keys
  BY RowFacts
<1>4. ASSUME NEW k \in DOMAIN table[s]
      PROVE  ArmsOf(table[s][k].arms, s, Taken(s, k))'
  <2>1. PICK arms, taken : arms = table[s][k].arms /\ taken = Taken(s, k)
    OBVIOUS
  <2>2. ArmsOf(arms, s, taken)
    BY <2>1 DEF Settled
  <2>3. ArmsOf(arms, s, taken)'
    BY <2>2, ArmsKept
  <2>. QED BY <2>1, <2>3, <1>2
<1>. QED BY <1>1, <1>3, <1>4 DEF Settled

\* An arm joins those for the same trigger, at the end.
LEMMA ArmJoins ==
    ASSUME NEW s, NEW i, NEW arms, NEW taken, ArmsOf(arms, s, taken),
           \A j \in taken : j \in Int /\ j < i, i \in Int, ~Unfilled(Arm(i, s))
    PROVE  ArmsOf(Append(arms, Arm(i, s)), s, taken \union {i})
<1>. DEFINE S == Range(arms) \union {Arm(i, s)}
            new == Append(arms, Arm(i, s))
<1>1. arms \in Seq(S)
  BY SeqMonotonic DEF ArmsOf
<1>2. /\ new \in Seq(S) /\ Len(new) = Len(arms) + 1 /\ Len(arms) \in Nat
      /\ DOMAIN new = 1..(Len(arms) + 1) /\ DOMAIN arms = 1..Len(arms)
      /\ \A j \in 1..Len(arms) : new[j] = arms[j]
      /\ new[Len(arms) + 1] = Arm(i, s)
  <2>. HIDE DEF S
  <2>. QED BY <1>1 DEF S
<1>3. Arm(i, s).row = i
  BY DEF Arm
<1>. HIDE DEF S, new
<1>4. new \in Seq(Range(new))
  BY <1>2, SeqOfRange
<1>5. {new[j].row : j \in DOMAIN new} = taken \union {i}
  <2>1. \A j \in DOMAIN new : j \in DOMAIN arms \/ j = Len(arms) + 1
    BY <1>2
  <2>. QED BY <1>2, <1>3, <2>1 DEF ArmsOf
<1>6. \A m, n \in DOMAIN new : m < n => new[m].row < new[n].row
  <2>. SUFFICES ASSUME NEW m \in DOMAIN new, NEW n \in DOMAIN new, m < n
                PROVE  new[m].row < new[n].row
    OBVIOUS
  <2>1. m \in 1..Len(arms) /\ new[m] = arms[m] /\ arms[m].row \in taken
    BY <1>2 DEF ArmsOf
  <2>2. CASE n = Len(arms) + 1
    BY <2>1, <2>2, <1>2, <1>3
  <2>3. CASE n \in 1..Len(arms)
    BY <2>1, <2>3, <1>2 DEF ArmsOf
  <2>. QED BY <2>2, <2>3, <1>2
<1>7. \A j \in DOMAIN new : new[j] = Arm(new[j].row, s) /\ ~Unfilled(new[j])
  <2>1. \A j \in DOMAIN new : j \in DOMAIN arms \/ j = Len(arms) + 1
    BY <1>2
  <2>. QED BY <1>2, <1>3, <2>1 DEF ArmsOf
<1>8. ArmsOf(new, s, taken \union {i})
  BY <1>4, <1>5, <1>6, <1>7 DEF ArmsOf
<1>. QED BY <1>8 DEF new

\* Filing the arm of the next row leaves its state settled and the others
\* alone.
LEMMA SettledAdded ==
    ASSUME NEW s \in DOMAIN table, NEW i \in DOMAIN rows, Settled(s), UNCHANGED <<rows, data>>,
           i \in Int, table' = WithArm(s, i), ~Unfilled(Arm(i, s)),
           Claims(i, s, Key(rows[i].event)),
           \A j \in DOMAIN rows : Past(j, s) => j \in Int /\ j < i,
           \A j \in DOMAIN rows : Reaches(j, s) => (Past(j, s)' <=> (Past(j, s) \/ j = i))
    PROVE  Settled(s)' /\ \A t \in DOMAIN table : t # s => table'[t] = table[t]
<1>1. PICK key : key = Key(rows[i].event)
  OBVIOUS
<1>2. PICK mapping : mapping = IF key \in DOMAIN table[s] THEN table[s][key] ELSE Mapping(rows[i].event)
  OBVIOUS
<1>3. PICK new : new = [mapping EXCEPT !.arms = Append(@, Arm(i, s))]
  OBVIOUS
<1>4. table' = [table EXCEPT ![s] = With(@, key, new)]
  BY <1>1, <1>2, <1>3 DEF WithArm
<1>5. /\ DOMAIN table'[s] = DOMAIN table[s] \union {key} /\ table'[s][key] = new
      /\ \A k \in DOMAIN table[s] : k # key => table'[s][k] = table[s][k]
  BY <1>4 DEF With
<1>6. key \in Keys
  BY <1>1 DEF Keys, AllRows
<1>7. DOMAIN mapping = Fields /\ ArmsOf(mapping.arms, s, Taken(s, key))
  <2>1. CASE key \in DOMAIN table[s]
    BY <2>1, <1>2 DEF Settled
  <2>2. CASE key \notin DOMAIN table[s]
    <3>1. mapping = Mapping(rows[i].event) /\ ~Met(s, key)
      BY <2>2, <1>2, <1>6 DEF Settled
    <3>2. DOMAIN mapping = Fields /\ mapping.arms = << >>
      BY <3>1 DEF Mapping, Fields
    <3>3. Taken(s, key) = {}
      BY <3>1, ClaimsReach DEF Met, Taken
    <3>4. ArmsOf(<< >>, s, {})
      BY DEF ArmsOf
    <3>. QED BY <3>2, <3>3, <3>4
  <2>. QED BY <2>1, <2>2
<1>8. new.arms = Append(mapping.arms, Arm(i, s)) /\ DOMAIN new = Fields
  BY <1>3, <1>7 DEF Fields
<1>9. ArmsOf(new.arms, s, Taken(s, key) \union {i})
  <2>1. \A j \in Taken(s, key) : j \in Int /\ j < i
    BY DEF Taken
  <2>. QED BY <1>7, <1>8, <2>1, ArmJoins
<1>10. \A k : Taken(s, k)' = IF k = key THEN Taken(s, k) \union {i} ELSE Taken(s, k)
  <2>. TAKE k
  <2>1. \A j : Claims(j, s, k)' <=> Claims(j, s, k)
    BY RowFacts
  <2>2. \A j \in DOMAIN rows : Claims(j, s, k) => (Past(j, s)' <=> (Past(j, s) \/ j = i))
    BY ClaimsReach
  <2>3. Claims(i, s, k) <=> k = key
    BY <1>1, ClaimsReach
  <2>. QED BY <2>1, <2>2, <2>3 DEF Taken
<1>11. \A k : Met(s, k)' <=> (Met(s, k) \/ k = key)
  <2>. TAKE k
  <2>1. Reaches(i, s) /\ Key(rows[i].event) = key
    BY <1>1, ClaimsReach
  <2>2. \A j : Reaches(j, s)' <=> Reaches(j, s)
    BY RowFacts
  <2>3. \A j \in DOMAIN rows : Key(rows[j].event)' = Key(rows[j].event)
    OBVIOUS
  <2>. QED BY <2>1, <2>2, <2>3 DEF Met
<1>12. Keys' = Keys
  BY RowFacts
<1>13. ASSUME NEW k \in DOMAIN table'[s]
       PROVE  DOMAIN table'[s][k] = Fields /\ ArmsOf(table[s][k].arms, s, Taken(s, k))'
  <2>1. PICK arms, taken : arms = table'[s][k].arms /\ taken = Taken(s, k)'
    OBVIOUS
  <2>2. CASE k = key
    <3>1. ArmsOf(arms, s, taken)
      BY <2>1, <2>2, <1>5, <1>9, <1>10
    <3>. QED BY <3>1, <2>1, <2>2, <1>5, <1>8, ArmsKept
  <2>3. CASE k # key
    <3>1. k \in DOMAIN table[s] /\ arms = table[s][k].arms /\ taken = Taken(s, k)
      BY <2>1, <2>3, <1>5, <1>10
    <3>2. ArmsOf(arms, s, taken)
      BY <3>1 DEF Settled
    <3>3. DOMAIN table'[s][k] = Fields
      BY <2>3, <3>1, <1>5 DEF Settled
    <3>. QED BY <3>2, <3>3, <2>1, ArmsKept
  <2>. QED BY <2>2, <2>3
<1>14. Settled(s)'
  <2>1. (DOMAIN table[s] \subseteq Keys)'
    BY <1>5, <1>6, <1>12 DEF Settled
  <2>2. \A k \in Keys : k \in DOMAIN table'[s] <=> Met(s, k)'
    BY <1>5, <1>11 DEF Settled
  <2>. QED BY <2>1, <2>2, <1>12, <1>13 DEF Settled
<1>15. \A t \in DOMAIN table : t # s => table'[t] = table[t]
  BY <1>4
<1>. QED BY <1>14, <1>15

\* The states and the arms of a step that files none are what they were.
LEMMA SettledRest ==
    ASSUME UNCHANGED <<rows, data>>, NEW s, Settled(s), table'[s] = table[s],
           \A i \in DOMAIN rows : Reaches(i, s) => (Past(i, s)' <=> Past(i, s))
    PROVE  Settled(s)'
BY SettledKept DEF Settled

\* A row that has an arm keeps it.
LEMMA WorksKept ==
    ASSUME NEW i, Works(i), UNCHANGED <<rows, data>>, DOMAIN table' = DOMAIN table,
           \A s \in DOMAIN table : Past(i, s) => Past(i, s)'
    PROVE  Works(i)'
<1>1. PICK s \in DOMAIN table : Past(i, s) /\ Claims(i, s, Key(rows[i].event))
  BY DEF Works
<1>2. Claims(i, s, Key(rows[i].event))'
  BY <1>1, RowFacts
<1>. QED BY <1>1, <1>2 DEF Works

\* What lies behind, by the state of the expansion.
LEMMA PastRow ==
    ASSUME phase = "expand", NEW i, NEW s
    PROVE  Past(i, s) <=> (i < at \/ (i = at /\ rows[i].from.wildcard /\ s \notin waiting))
BY DEF Past

\* After Goto(n) the rows before n are done with everywhere.
LEMMA AfterGoto ==
    ASSUME phase' = "expand", UNCHANGED rows, NEW n, Goto(n), NEW i \in DOMAIN rows, NEW s \in DOMAIN table,
           i \in Int, n \in Int
    PROVE  Past(i, s)' <=> i < n
BY DEF Past, Goto


\* The table is begun later.
LEMMA FilingInit == Init => Filing
BY DEF Init, Filing, Expanded

\* An empty table has all that no row has filed.
LEMMA FilingStart == ASSUME ParserTyped, Collecting, CollectEnd PROVE Filing'
<1>1. phase = "collect" /\ phase' = "expand" /\ Goto(1) /\ UNCHANGED <<rows, data, table>>
  BY DEF CollectEnd
<1>2. at' = 1 /\ ~added' /\ waiting' \subseteq DOMAIN table'
  BY <1>1 DEF Goto
<1>3. \A i \in DOMAIN rows : i \in Int /\ i >= 1
  BY DEF ParserTyped
<1>4. \A i \in DOMAIN rows, s \in DOMAIN table : ~Past(i, s)'
  BY <1>1, <1>3, AfterGoto
<1>5. \A s \in DOMAIN table : DOMAIN table[s] = {}
  BY <1>1 DEF Collecting, Checked, Empty
<1>6. ASSUME NEW s \in DOMAIN table PROVE Settled(s)'
  <2>1. \A k : ~Met(s, k)'
    BY <1>1, <1>4 DEF Met
  <2>. QED BY <2>1, <1>1, <1>5 DEF Settled
<1>7. (at \notin DOMAIN rows \/ ~rows[at].from.wildcard)' => waiting' = {}
  BY <1>1 DEF Goto
<1>. QED BY <1>1, <1>2, <1>3, <1>6, <1>7 DEF Filing

\* A row of one state is filed there.
LEMMA FilingRow ==
    ASSUME ParserTyped, Collecting, Filing, ExpandRow, phase' # "refused"
    PROVE  Filing'
<1>1. PICK s : s = rows[at].from.ident
  OBVIOUS
<1>2. PICK i : i = at
  OBVIOUS
<1>3. /\ phase = "expand" /\ i \in DOMAIN rows /\ ~rows[i].from.wildcard
      /\ ~Unfilled(Arm(i, s)) /\ table' = WithArm(s, i) /\ Goto(i + 1)
      /\ UNCHANGED <<phase, rows, data>>
  BY <1>1, <1>2 DEF ExpandRow, Add, Refuse
<1>4. s \in DOMAIN table
  BY <1>1, <1>2, <1>3 DEF Collecting, Checked, Gathered, Fixed
<1>5. \A j \in DOMAIN rows : j \in Int
  BY DEF ParserTyped
<1>6. \A j \in DOMAIN rows, t \in DOMAIN table : (Past(j, t) <=> j < i) /\ (Past(j, t)' <=> j < i + 1)
  BY <1>2, <1>3, <1>5, PastRow, AfterGoto
<1>7. Claims(i, s, Key(rows[i].event))
  BY <1>1, <1>2, <1>3 DEF Claims
<1>8. \A t \in DOMAIN table : Settled(t)
  BY <1>3 DEF Filing, Expanded
<1>9. Settled(s)' /\ \A t \in DOMAIN table : t # s => table'[t] = table[t]
  BY <1>3, <1>4, <1>5, <1>6, <1>7, <1>8, SettledAdded
<1>10. \A t \in DOMAIN table : t # s => ~Reaches(i, t)
  BY <1>1, <1>2, <1>3 DEF Reaches
<1>11. ASSUME NEW t \in DOMAIN table, t # s PROVE Settled(t)'
  BY <1>3, <1>5, <1>6, <1>8, <1>9, <1>10, <1>11, SettledRest
<1>12. DOMAIN table' = DOMAIN table
  BY <1>3 DEF WithArm
<1>13. ASSUME NEW j \in DOMAIN rows, j < i + 1, rows[j].from.wildcard PROVE Works(j)'
  <2>1. j < i
    BY <1>3, <1>5, <1>13
  <2>2. Works(j)
    BY <2>1, <1>2, <1>3, <1>13 DEF Filing, Expanded
  <2>. QED BY <2>2, <1>3, <1>5, <1>6, <1>12, WorksKept
<1>14. /\ at' = i + 1 /\ ~added' /\ waiting' \subseteq DOMAIN table
       /\ (at \notin DOMAIN rows \/ ~rows[at].from.wildcard)' => waiting' = {}
  BY <1>3 DEF Goto
<1>. QED BY <1>3, <1>9, <1>11, <1>12, <1>13, <1>14 DEF Filing

\* One state of a wildcard row, which takes the arm or has met the trigger.
LEMMA FilingState ==
    ASSUME ParserTyped, Filing, ExpandState, phase' # "refused"
    PROVE  Filing'
<1>1. PICK s \in waiting : IF Skips(s, rows[at].event)
                            THEN /\ waiting' = waiting \ {s}
                                 /\ UNCHANGED <<phase, rows, at, added, data, table>>
                            ELSE Add(s, at)
  BY DEF ExpandState
<1>2. PICK i : i = at
  OBVIOUS
<1>3. phase = "expand" /\ i \in DOMAIN rows /\ rows[i].from.wildcard /\ s \in DOMAIN table
  BY <1>1, <1>2 DEF ExpandState, Filing, Expanded
<1>4. /\ waiting' = waiting \ {s} /\ at' = at /\ UNCHANGED <<phase, rows, data>>
      /\ DOMAIN table' = DOMAIN table
  BY <1>1, <1>2, <1>3 DEF Add, Refuse, WithArm
<1>5. \A j \in DOMAIN rows : j \in Int
  BY DEF ParserTyped
<1>6. \A j \in DOMAIN rows, t \in DOMAIN table :
        (Past(j, t) <=> (j < i \/ (j = i /\ t \notin waiting))) /\ (Past(j, t)' <=> (Past(j, t) \/ (j = i /\ t = s)))
  BY <1>1, <1>2, <1>3, <1>4, PastRow DEF Past
<1>7. \A t \in DOMAIN table : Settled(t)
  BY <1>3 DEF Filing, Expanded
<1>8. \A j : Works(j) => Works(j)'
  <2>. TAKE j
  <2>1. \A t \in DOMAIN table : Past(j, t) => Past(j, t)'
    BY <1>2, <1>4, <1>3 DEF Past
  <2>. QED BY <2>1, <1>4, WorksKept
<1>9. Key(rows[i].event) \in Keys
  BY <1>3 DEF Keys, AllRows
<1>10. (added' => Works(i)') /\ \A t \in DOMAIN table : Settled(t)'
  <2>1. CASE Skips(s, rows[i].event)
    <3>1. UNCHANGED <<table, added>>
      BY <2>1, <1>1, <1>2
    <3>2. Met(s, Key(rows[i].event))
      BY <2>1, <1>3, <1>7, <1>9 DEF Settled, Skips
    <3>3. ~Claims(i, s, Key(rows[i].event))
      <4>1. PICK j \in DOMAIN rows : Past(j, s) /\ Key(rows[j].event) = Key(rows[i].event) /\ Reaches(j, s)
        BY <3>2 DEF Met
      <4>2. j \in 1..(i - 1)
        BY <4>1, <1>1, <1>3, <1>5, <1>6 DEF ParserTyped
      <4>. QED BY <4>1, <4>2, <1>3 DEF Claims, Reaches
    <3>4. ASSUME NEW t \in DOMAIN table PROVE Settled(t)'
      <4>1. \A k \in DOMAIN table[t] : DOMAIN table'[t][k] = Fields /\ table'[t][k].arms = table[t][k].arms
        BY <3>1, <1>7 DEF Settled
      <4>2. \A j \in DOMAIN rows : Past(j, t) => Past(j, t)'
        BY <1>6
      <4>3. \A j \in DOMAIN rows : Past(j, t)' /\ ~Past(j, t) => j = i /\ t = s
        BY <1>6
      <4>4. Settled(t) /\ DOMAIN table'[t] = DOMAIN table[t]
        BY <1>7, <3>1
      <4>. QED BY <4>1, <4>2, <4>3, <4>4, <3>2, <3>3, <1>4, SettledKept
    <3>5. added' => Works(i)
      BY <3>1, <1>2, <1>3 DEF Filing, Expanded
    <3>. QED BY <3>4, <3>5, <1>8
  <2>2. CASE ~Skips(s, rows[i].event)
    <3>1. ~Unfilled(Arm(i, s)) /\ table' = WithArm(s, i)
      BY <2>2, <1>1, <1>2 DEF Add, Refuse
    <3>2. ~Met(s, Key(rows[i].event))
      BY <2>2, <1>3, <1>7, <1>9 DEF Settled, Skips
    <3>3. Claims(i, s, Key(rows[i].event))
      <4>1. ASSUME NEW j \in 1..(i - 1), Key(rows[j].event) = Key(rows[i].event)
            PROVE  ~Reaches(j, s)
        <5>1. j \in DOMAIN rows /\ j < i
          BY <1>3, <1>5 DEF ParserTyped
        <5>2. Past(j, s)
          BY <5>1, <1>3, <1>6
        <5>. QED BY <5>1, <5>2, <4>1, <3>2 DEF Met
      <4>. QED BY <4>1, <1>3 DEF Claims, Reaches
    <3>4. Settled(s)' /\ \A t \in DOMAIN table : t # s => table'[t] = table[t]
      <4>1. \A j \in DOMAIN rows : Past(j, s) => j \in Int /\ j < i
        BY <1>1, <1>3, <1>5, <1>6
      <4>2. \A j \in DOMAIN rows : Past(j, s)' <=> (Past(j, s) \/ j = i)
        BY <1>3, <1>6
      <4>. QED BY <4>1, <4>2, <3>1, <3>3, <1>3, <1>4, <1>5, <1>7, SettledAdded
    <3>5. ASSUME NEW t \in DOMAIN table, t # s PROVE Settled(t)'
      BY <3>4, <3>5, <1>4, <1>6, <1>7, SettledRest
    <3>6. Works(i)'
      <4>1. Past(i, s)'
        BY <1>3, <1>6
      <4>2. Claims(i, s, Key(rows[i].event))'
        BY <3>3, <1>4, RowFacts
      <4>. QED BY <4>1, <4>2, <1>3, <1>4 DEF Works
    <3>. QED BY <3>4, <3>5, <3>6
  <2>. QED BY <2>1, <2>2
<1>11. \A j \in DOMAIN rows : j < at /\ rows[j].from.wildcard => Works(j)
  BY <1>3 DEF Filing, Expanded
<1>12. waiting' \subseteq DOMAIN table /\ at' \in DOMAIN rows' /\ (rows[at].from.wildcard)'
  BY <1>2, <1>3, <1>4 DEF Filing, Expanded
<1>. QED BY <1>2, <1>3, <1>4, <1>8, <1>10, <1>11, <1>12 DEF Filing

\* A wildcard row is filed in one state more, whichever that is.
LEMMA FilingWildcard ==
    ASSUME ParserTyped, Filing, ExpandWildcard, phase' # "refused"
    PROVE  Filing'
<1>1. PICK i : i = at
  OBVIOUS
<1>2. /\ phase = "expand" /\ i \in DOMAIN rows /\ rows[i].from.wildcard /\ waiting = {} /\ added
      /\ Goto(i + 1) /\ UNCHANGED <<phase, rows, data, table>>
  BY <1>1 DEF ExpandWildcard, Refuse
<1>3. \A j \in DOMAIN rows : j \in Int
  BY DEF ParserTyped
<1>4. \A j \in DOMAIN rows, t \in DOMAIN table : Past(j, t)' <=> Past(j, t)
  <2>. TAKE j \in DOMAIN rows, t \in DOMAIN table
  <2>1. Past(j, t) <=> j < i \/ j = i
    BY <1>1, <1>2, PastRow
  <2>2. Past(j, t)' <=> j < i + 1
    BY <1>2, <1>3, AfterGoto
  <2>. QED BY <2>1, <2>2, <1>2, <1>3
<1>5. \A t \in DOMAIN table : Settled(t)'
  <2>1. \A t \in DOMAIN table : Settled(t)
    BY <1>2 DEF Filing, Expanded
  <2>. QED BY <2>1, <1>2, <1>4, SettledRest
<1>6. ASSUME NEW j \in DOMAIN rows, j < i + 1, rows[j].from.wildcard PROVE Works(j)'
  <2>1. j < i \/ j = i
    BY <1>2, <1>3, <1>6
  <2>2. Works(j)
    BY <2>1, <1>1, <1>2, <1>6 DEF Filing, Expanded
  <2>. QED BY <2>2, <1>2, <1>4, WorksKept
<1>7. /\ at' = i + 1 /\ ~added' /\ waiting' \subseteq DOMAIN table
      /\ (at \notin DOMAIN rows \/ ~rows[at].from.wildcard)' => waiting' = {}
  BY <1>2 DEF Goto
<1>. QED BY <1>2, <1>5, <1>6, <1>7 DEF Filing

\* The expansion ends with every row behind it.
LEMMA FilingEnd == ASSUME ParserTyped, Filing, ExpandEnd PROVE Filing'
<1>1. phase = "expand" /\ at > Len(rows) /\ phase' = "validate" /\ UNCHANGED <<rows, data>>
  BY DEF ExpandEnd
<1>2. PICK external : table' = [s \in DOMAIN table |-> [k \in DOMAIN table[s] |->
                        [table[s][k] EXCEPT !.external = table[s][k].event \in external]]]
  BY DEF ExpandEnd
<1>3. \A j \in DOMAIN rows : j < at
  BY <1>1 DEF ParserTyped
<1>4. \A j \in DOMAIN rows : \A t : Past(j, t) /\ Past(j, t)'
  BY <1>1, <1>3 DEF Past
<1>5. DOMAIN table' = DOMAIN table
  BY <1>2
<1>6. ASSUME NEW t \in DOMAIN table PROVE Settled(t)'
  <2>1. Settled(t)
    BY <1>1 DEF Filing, Expanded
  <2>2. table'[t] = [k \in DOMAIN table[t] |-> [table[t][k] EXCEPT !.external = table[t][k].event \in external]]
    BY <1>2
  <2>3. \A k \in DOMAIN table[t] : DOMAIN table'[t][k] = Fields /\ table'[t][k].arms = table[t][k].arms
    BY <2>1, <2>2 DEF Settled, Fields
  <2>4. DOMAIN table'[t] = DOMAIN table[t]
    BY <2>2
  <2>. QED BY <2>1, <2>3, <2>4, <1>1, <1>4, SettledKept
<1>7. ASSUME NEW j \in DOMAIN rows, rows[j].from.wildcard PROVE Works(j)'
  <2>1. Works(j)
    BY <1>1, <1>3, <1>7 DEF Filing, Expanded
  <2>2. \A t \in DOMAIN table : Past(j, t) => Past(j, t)'
    BY <1>4
  <2>. QED BY <2>1, <2>2, <1>1, <1>5, WorksKept
<1>. QED BY <1>1, <1>5, <1>6, <1>7 DEF Filing

\* What does not touch the table keeps it right.
LEMMA FilingStays ==
    ASSUME Filing, Expanded, UNCHANGED <<rows, at, waiting, added, data, table>>,
           phase = "expand" <=> phase' = "expand"
    PROVE  Filing'
<1>1. \A j, t : Past(j, t)' <=> Past(j, t)
  BY DEF Past
<1>2. \A t \in DOMAIN table : Settled(t)'
  BY <1>1, SettledRest DEF Filing
<1>3. \A j : Works(j) => Works(j)'
  BY <1>1, WorksKept
<1>. QED BY <1>2, <1>3 DEF Filing

\* Every step keeps the table right.
LEMMA FilingStep == ASSUME ParserTyped, Collecting, Filing, [Next]_vars PROVE Filing'
<1>1. CASE CollectEnd
  BY <1>1, FilingStart
<1>2. CASE ExpandRow /\ phase' # "refused"
  BY <1>2, FilingRow
<1>3. CASE ExpandState /\ phase' # "refused"
  BY <1>3, FilingState
<1>4. CASE ExpandWildcard /\ phase' # "refused"
  BY <1>4, FilingWildcard
<1>5. CASE ExpandEnd
  BY <1>5, FilingEnd
<1>6. CASE Validate /\ phase' # "refused"
  BY <1>6, FilingStays DEF Validate, Refuse, Expanded
<1>7. CASE UNCHANGED vars /\ Expanded
  BY <1>7, FilingStays DEF vars
<1>8. CASE ~Expanded'
  BY <1>8 DEF Filing
<1>9. Expanded' => \/ CollectEnd \/ ExpandRow \/ ExpandState \/ ExpandWildcard \/ ExpandEnd \/ Validate
                   \/ UNCHANGED vars /\ Expanded
  BY DEF Expanded, Next, vars, Read, ReadEnd, Route, Check, Collect, Refuse
<1>. QED BY <1>1, <1>2, <1>3, <1>4, <1>5, <1>6, <1>7, <1>8, <1>9 DEF Expanded

\* The table is right in every state.
LEMMA AlwaysFiling == Spec => []Filing
BY FilingInit, FilingStep, AlwaysTyped, AlwaysCollecting, PTL DEF Spec

-----------------------------------------------------------------------------
(* The table.                                                                *)

\* No arm of an accepted table is unreachable.
Reachable ==
    phase = "accepted" => \A s \in DOMAIN table : \A k \in DOMAIN table[s] : ~Unreachable(table[s][k].arms)

\* No arm of an accepted table is dead: validate_unguarded_rows.
LEMMA AlwaysReachable == Spec => []Reachable
<1>1. Init => Reachable
  BY DEF Init, Reachable
<1>2. Reachable /\ [Next]_vars => Reachable'
  <2>. SUFFICES ASSUME Reachable, [Next]_vars, phase' = "accepted"
                PROVE  \A s \in DOMAIN table' : \A k \in DOMAIN table'[s] : ~Unreachable(table'[s][k].arms)
    BY DEF Reachable, Unreachable
  <2>1. Validate \/ UNCHANGED vars
    BY DEF Next, vars, Read, ReadEnd, Route, Check, Collect, CollectEnd, ExpandRow,
           ExpandState, ExpandWildcard, ExpandEnd, Refuse, Add
  <2>2. CASE Validate
    BY <2>2 DEF Validate, Refuse
  <2>3. CASE UNCHANGED vars
    BY <2>3 DEF vars, Reachable
  <2>. QED BY <2>1, <2>2, <2>3
<1>. QED BY <1>1, <1>2, PTL DEF Spec

\* The arms filed are those in the entries of the states.
LEMMA FiledArms ==
    ASSUME NEW u
    PROVE  u \in Filed <=>
             \E s \in DOMAIN table : \E k \in DOMAIN table[s] : \E j \in DOMAIN table[s][k].arms :
               u = [in |-> s, key |-> k, event |-> table[s][k].event, arm |-> table[s][k].arms[j]]
BY DEF Filed

\* In a complete table the rows taken are those that claim the key.
LEMMA ArmsTaken ==
    ASSUME Filing, phase \in {"validate", "accepted"}, NEW s \in DOMAIN table, NEW k \in Keys
    PROVE  /\ Taken(s, k) = {i \in DOMAIN rows : Claims(i, s, k)}
           /\ k \in DOMAIN table[s] => ArmsOf(table[s][k].arms, s, Taken(s, k))
           /\ k \notin DOMAIN table[s] => Taken(s, k) = {}
<1>1. \A i : Past(i, s)
  BY DEF Past
<1>2. Settled(s)
  BY DEF Filing, Expanded
<1>3. k \notin DOMAIN table[s] => Taken(s, k) = {}
  BY <1>2, ClaimsReach DEF Settled, Met, Taken
<1>. QED BY <1>1, <1>2, <1>3 DEF Settled, Taken

\* The arms of a state for a trigger are its rows and the wildcard rows nothing
\* comes before, in the order of the rows, however a HashMap orders the states.
THEOREM TableIsItsExpansion == Spec => []TableIsExpansion
<1>1. Filing => TableIsExpansion
  <2>. SUFFICES ASSUME Filing, phase \in {"validate", "accepted"}, NEW s \in DOMAIN table, NEW k \in Keys
                PROVE  LET arms == IF k \in DOMAIN table[s] THEN table[s][k].arms ELSE << >>
                       IN  /\ {arms[j].row : j \in DOMAIN arms} = {i \in DOMAIN rows : Claims(i, s, k)}
                           /\ \A i, j \in DOMAIN arms : i < j => arms[i].row < arms[j].row
    BY DEF TableIsExpansion, Keys
  <2>1. CASE k \in DOMAIN table[s]
    BY <2>1, ArmsTaken DEF ArmsOf
  <2>2. CASE k \notin DOMAIN table[s]
    BY <2>2, ArmsTaken
  <2>. QED BY <2>1, <2>2
<1>2. QED
  BY <1>1, AlwaysFiling, PTL

\* Each row has an arm in some state, with only guarded ones before it there.
LEMMA RowFiled ==
    ASSUME ParserTyped, Collecting, Filing, Reachable, phase = "accepted", NEW i \in DOMAIN rows
    PROVE  \E u \in Filed :
             /\ u.arm.row = i
             /\ \A v \in Filed : v.in = u.in /\ v.key = u.key /\ v.arm.row < i => v.arm.guard # << >>
<1>1. PICK k : k = Key(rows[i].event)
  OBVIOUS
<1>2. PICK s \in DOMAIN table : Claims(i, s, k)
  <2>1. CASE rows[i].from.wildcard
    BY <2>1, <1>1 DEF Filing, Expanded, Works
  <2>2. CASE ~rows[i].from.wildcard
    BY <2>2, <1>1 DEF Collecting, Checked, Gathered, Fixed, Claims
  <2>. QED BY <2>1, <2>2
<1>3. k \in Keys
  BY <1>1 DEF Keys, AllRows
<1>4. k \in DOMAIN table[s]
  BY <1>2, <1>3, ArmsTaken
<1>5. PICK arms : arms = table[s][k].arms
  OBVIOUS
<1>6. /\ DOMAIN arms = 1..Len(arms) /\ Len(arms) \in Nat
      /\ {arms[j].row : j \in DOMAIN arms} = {n \in DOMAIN rows : Claims(n, s, k)}
      /\ \A m, n \in DOMAIN arms : m < n => arms[m].row < arms[n].row
  BY <1>3, <1>4, <1>5, ArmsTaken DEF ArmsOf
<1>7. PICK j \in DOMAIN arms : arms[j].row = i
  BY <1>2, <1>6
<1>8. \A m \in DOMAIN arms : arms[m].row \in Int
  <2>1. \A m \in DOMAIN arms : arms[m].row \in {arms[n].row : n \in DOMAIN arms}
    OBVIOUS
  <2>2. {arms[n].row : n \in DOMAIN arms} \subseteq DOMAIN rows
    BY <1>6
  <2>3. DOMAIN rows \subseteq Int
    BY DEF ParserTyped
  <2>. QED BY <2>1, <2>2, <2>3
<1>9. \A m \in DOMAIN arms : arms[m].row < i => arms[m].guard # << >>
  <2>1. ~Unreachable(arms)
    BY <1>4, <1>5 DEF Reachable
  <2>2. \A m \in DOMAIN arms : arms[m].row < i => m < j
    BY <1>6, <1>7, <1>8
  <2>. QED BY <2>1, <2>2 DEF Unreachable
<1>10. PICK u : u = [in |-> s, key |-> k, event |-> table[s][k].event, arm |-> arms[j]]
  OBVIOUS
<1>11. u \in Filed
  BY <1>4, <1>5, <1>10, FiledArms
<1>12. ASSUME NEW v \in Filed, v.in = s, v.key = k PROVE \E m \in DOMAIN arms : v.arm = arms[m]
  BY <1>5, <1>12, FiledArms
<1>. QED BY <1>7, <1>9, <1>10, <1>11, <1>12

\* Each row of an accepted table is tried in some state, behind guarded rows
\* only: a row with no effect, or behind an unguarded one, is an error.
THEOREM NoRowIsDead == Spec => []NoDeadRow
<1>1. ParserTyped /\ Collecting /\ Filing /\ Reachable => NoDeadRow
  BY RowFiled DEF NoDeadRow
<1>2. QED
  BY <1>1, AlwaysTyped, AlwaysCollecting, AlwaysFiling, AlwaysReachable, PTL

\* A state with data is entered by arms that provide it, and a row that types a
\* state gives the type it has, though types are collected row by row.
THEOREM DataIsProvided == Spec => []DataProvided
<1>1. Collecting /\ Filing => DataProvided
  <2>. SUFFICES ASSUME Collecting, Filing, phase = "accepted" PROVE DataProvided
    BY DEF DataProvided
  <2>1. ASSUME NEW u \in Filed, u.arm.to \in DOMAIN data.state
        PROVE  u.arm.default \/ u.arm.actions.action # << >>
    <3>1. PICK s \in DOMAIN table : \E k \in DOMAIN table[s] : \E j \in DOMAIN table[s][k].arms :
            u = [in |-> s, key |-> k, event |-> table[s][k].event, arm |-> table[s][k].arms[j]]
      BY FiledArms
    <3>2. PICK k \in DOMAIN table[s] : \E j \in DOMAIN table[s][k].arms : u.arm = table[s][k].arms[j]
      BY <3>1
    <3>3. k \in Keys
      BY DEF Filing, Expanded, Settled
    <3>4. ~Unfilled(u.arm)
      BY <3>2, <3>3, ArmsTaken DEF ArmsOf
    <3>. QED BY <2>1, <3>4 DEF Unfilled
  <2>2. ASSUME NEW r \in AllRows
        PROVE  /\ ~r.from.wildcard /\ r.from.data # << >> => r.from.data[1] = data.state[r.from.ident]
               /\ ~r.to.internal /\ r.to.data # << >> => r.to.data[1] = data.state[r.to.ident]
    BY DEF Collecting, Checked, Gathered, Fixed, AllRows
  <2>. QED BY <2>1, <2>2 DEF DataProvided
<1>2. QED
  BY <1>1, AlwaysCollecting, AlwaysFiling, PTL

-----------------------------------------------------------------------------
(* Callbacks.                                                                *)

\* What the check of the generic parameters leaves of them.
Generic ==
    Checked =>
        /\ \A r \in AllRows : ~Incomplete(r.event, input.generics)
        /\ input.context # << >> /\ UsesGenerics(input.context[1], input.generics) =>
             ~Missing(input.context[1], input.generics, {"type", "const"})

\* What the checks of the parameters say of events and of the context.
LEMMA NoGenericFault ==
    ASSUME NEW rs, NEW G, NEW context, GenericFault(rs, G, context) = "none"
    PROVE  /\ \A r \in rs : ~Incomplete(r.event, G)
           /\ context # << >> /\ UsesGenerics(context[1], G) => ~Missing(context[1], G, {"type", "const"})
BY DEF GenericFault

\* The parameters of a table that went on passed them.
LEMMA AlwaysGeneric == Spec => []Generic
<1>1. Init => Generic
  BY DEF Init, Generic, Checked
<1>2. ParserTyped /\ Generic /\ [Next]_vars => Generic'
  <2>. SUFFICES ASSUME ParserTyped, Generic, [Next]_vars PROVE Generic'
    OBVIOUS
  <2>1. CASE Check /\ phase' # "refused"
    <3>1. /\ \A r \in AllRows : ~Incomplete(r.event, input.generics)
          /\ input.context # << >> /\ UsesGenerics(input.context[1], input.generics) =>
               ~Missing(input.context[1], input.generics, {"type", "const"})
      BY <2>1, CheckPasses, NoGenericFault
    <3>2. input' = input /\ AllRows' = {Derived(rows[i]) : i \in DOMAIN rows}
      BY <2>1, CheckPasses
    <3>3. \A r \in AllRows' : \E q \in AllRows : r.event = q.event
      <4>1. \A i \in DOMAIN rows : Derived(rows[i]).event = rows[i].event
        BY DEF Derived
      <4>. QED BY <4>1, <3>2 DEF AllRows
    <3>. QED BY <3>1, <3>2, <3>3 DEF Generic
  <2>2. CASE Checked' /\ ~(Check /\ phase' # "refused")
    <3>1. Checked /\ input' = input /\ AllRows' = AllRows
      BY <2>2, RowsSettle
    <3>. QED BY <3>1 DEF Generic
  <2>3. CASE ~Checked'
    BY <2>3 DEF Generic
  <2>. QED BY <2>1, <2>2, <2>3
<1>. QED BY <1>1, <1>2, AlwaysTyped, PTL DEF Spec

\* The parameters of the callbacks of an arm declare what these mention.
LEMMA CallbackOf ==
    ASSUME ParserTyped, Collecting, Generic, phase = "accepted", NEW u \in Filed, NEW type,
           type = TypeIn(data.event, u.event),
           NEW shown, shown = UNION {t[1].uses \intersect Names(input.generics.params) :
                                       t \in {type, input.context} \ {<< >>}}
    PROVE  Closed(CallbackGenerics(input.generics, input.context, LifetimesAt(u), type),
                  shown, LifetimesAt(u))
<1>1. PICK G : G = input.generics
  OBVIOUS
<1>2. PICK context : context = input.context
  OBVIOUS
<1>3. PICK lifetimes : lifetimes = LifetimesAt(u)
  OBVIOUS
<1>4. Declared(G)
  BY <1>1, GenericsAssumption DEF ParserTyped
<1>5. lifetimes \in SUBSET Lifetime
  BY <1>3 DEF LifetimesAt, LifetimesOf
<1>6. type # << >> => LifetimesOf(type[1]) \subseteq lifetimes
  BY <1>3 DEF LifetimesAt
<1>7. type # << >> /\ UsesGenerics(type[1], G) => ~Missing(type[1], G, {"type", "const"})
  <2>. SUFFICES ASSUME type # << >>, UsesGenerics(type[1], G) PROVE ~Missing(type[1], G, {"type", "const"})
    OBVIOUS
  <2>1. u.event \in DOMAIN data.event /\ type[1] = data.event[u.event]
    BY DEF TypeIn
  <2>2. PICK r \in AllRows : r.event.data # << >> /\ r.event.data[1] = type[1]
    BY <2>1 DEF Collecting, Checked, Typing
  <2>. QED BY <2>2, <1>1 DEF Generic, Checked, Incomplete
<1>8. context # << >> /\ UsesGenerics(context[1], G) => ~Missing(context[1], G, {"type", "const"})
  BY <1>1, <1>2 DEF Generic, Checked
<1>9. Closed(CallbackGenerics(G, context, lifetimes, type), shown, lifetimes)
  BY <1>1, <1>2, <1>4, <1>5, <1>6, <1>7, <1>8, CallbackCloses
<1>. QED BY <1>1, <1>2, <1>3, <1>9

\* The generic parameters of a callback declare all that its types, bounds and
\* predicates mention, lifetimes first, and each type or constant can be
\* inferred, given what rustc and ParsedStateMachine::new ask of a definition.
THEOREM CallbacksAreClosed == Spec => []CallbacksClosed
<1>1. ParserTyped /\ Collecting /\ Generic => CallbacksClosed
  <2>. SUFFICES ASSUME ParserTyped, Collecting, Generic, phase = "accepted", NEW u \in Filed
                PROVE  LET type  == TypeIn(data.event, u.event)
                           G     == CallbackGenerics(input.generics, input.context, LifetimesAt(u), type)
                           named == Names(G.params)
                           own   == Names(input.generics.params)
                           shown == UNION {t[1].uses \intersect own : t \in {type, input.context} \ {<< >>}}
                       IN  /\ shown \union LifetimesAt(u) \subseteq named
                           /\ \A i \in DOMAIN G.params :
                                /\ (UNION G.params[i].bounds) \intersect Lifetime \subseteq named
                                /\ G.params[i].kind # "lifetime" => G.params[i].name \in shown
                                /\ \A j \in 1..(i - 1) :
                                     G.params[i].kind = "lifetime" => G.params[j].kind = "lifetime"
                           /\ \A p \in G.predicates :
                                (p.uses \union UNION p.bounds) \intersect Lifetime \subseteq named
    BY DEF CallbacksClosed
  <2>. DEFINE type  == TypeIn(data.event, u.event)
              G     == CallbackGenerics(input.generics, input.context, LifetimesAt(u), type)
              own   == Names(input.generics.params)
              shown == UNION {t[1].uses \intersect own : t \in {type, input.context} \ {<< >>}}
  <2>1. Closed(G, shown, LifetimesAt(u))
    BY CallbackOf
  <2>. HIDE DEF type, G, own, shown
  <2>2. /\ shown \union LifetimesAt(u) \subseteq Names(G.params)
        /\ \A i \in DOMAIN G.params :
             /\ (UNION G.params[i].bounds) \intersect Lifetime \subseteq Names(G.params)
             /\ G.params[i].kind # "lifetime" => G.params[i].name \in shown
             /\ \A j \in 1..(i - 1) : G.params[i].kind = "lifetime" => G.params[j].kind = "lifetime"
        /\ \A p \in G.predicates : (p.uses \union UNION p.bounds) \intersect Lifetime \subseteq Names(G.params)
    BY <2>1, Zenon DEF Closed
  <2>. QED BY <2>2, Zenon DEF type, G, own, shown
<1>2. QED
  BY <1>1, AlwaysTyped, AlwaysCollecting, AlwaysGeneric, PTL

=============================================================================
